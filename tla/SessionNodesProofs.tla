------------------------- MODULE SessionNodesProofs -------------------------
(***************************************************************************)
(* The search and the Blueprint nodes, for any number of nodes of any      *)
(* kinds, any number of requests, and broadcasts nested to any depth.      *)
(***************************************************************************)
EXTENDS SessionNodes, SessionInterfaceProofs, SequenceTheorems

-----------------------------------------------------------------------------
(* Broadcasts that are not over *)

LEMMA LeastElement ==
  ASSUME NEW D, D \subseteq Nat, D # {}
  PROVE  Min(D) \in D /\ \A k \in D : Min(D) <= k
<1>1. PICK k \in D : \A j \in D : <<j, k>> \notin OpToRel(<, Nat)
  BY NatLessThanWellFounded, WFMin, Zenon
<1>2. \A j \in D : ~(j < k)
  BY <1>1 DEF OpToRel
<1>3. \E x \in D : \A y \in D : x <= y
  BY <1>2
<1> QED BY <1>3 DEF Min

\* Unfinished only drops broadcasts, and none that has a node left to call.
LEMMA UnfinishedFacts ==
  ASSUME NEW S, NEW b \in Seq(S)
  PROVE  /\ Unfinished(b) \in Seq(S)
         /\ \A k \in DOMAIN Unfinished(b) : \E j \in DOMAIN b : Unfinished(b)[k] = b[j]
         /\ \A j \in DOMAIN b : b[j].to # {} =>
              \E k \in DOMAIN Unfinished(b) : Unfinished(b)[k] = b[j]
<1> DEFINE due == {k \in DOMAIN b : b[k].to # {}}
<1>0. DOMAIN b = 1 .. Len(b) /\ Len(b) \in Nat /\ \A i \in 1 .. Len(b) : b[i] \in S
  BY LenProperties, ElementOfSeq
<1>1. CASE due = {}
  <2>1. Unfinished(b) = <<>>
    BY <1>1 DEF Unfinished
  <2>2. <<>> \in Seq(S) /\ DOMAIN <<>> = {}
    BY EmptySeq
  <2> QED BY <1>1, <2>1, <2>2
<1>2. CASE due # {}
  <2> DEFINE m == Min(due)
  <2>1. due \subseteq Nat
    BY <1>0
  <2>2. m \in due /\ \A k \in due : m <= k
    BY <1>2, <2>1, LeastElement
  <2>3. Unfinished(b) = SubSeq(b, m, Len(b))
    BY <1>2 DEF Unfinished
  <2>4. m \in 1 .. Len(b)
    BY <1>0, <2>2
  <2> HIDE DEF m
  <2>5. /\ SubSeq(b, m, Len(b)) \in Seq(S)
        /\ Len(SubSeq(b, m, Len(b))) = Len(b) - m + 1
        /\ \A i \in 1 .. Len(b) - m + 1 : SubSeq(b, m, Len(b))[i] = b[m + i - 1]
    BY <1>0, <2>4, SubSeqProperties
  <2>6. DOMAIN Unfinished(b) = 1 .. Len(b) - m + 1
    BY <2>3, <2>5, LenProperties
  <2>7. \A k \in DOMAIN Unfinished(b) : \E j \in DOMAIN b : Unfinished(b)[k] = b[j]
    BY <1>0, <2>3, <2>4, <2>5, <2>6
  <2>8. ASSUME NEW j \in DOMAIN b, b[j].to # {}
        PROVE  \E k \in DOMAIN Unfinished(b) : Unfinished(b)[k] = b[j]
    <3>1. m <= j /\ j \in 1 .. Len(b)
      BY <1>0, <2>2, <2>8
    <3>2. j - m + 1 \in 1 .. Len(b) - m + 1 /\ m + (j - m + 1) - 1 = j
      BY <1>0, <2>4, <3>1
    <3> QED BY <2>3, <2>5, <2>6, <3>2
  <2> QED BY <2>3, <2>5, <2>7, <2>8
<1> QED BY <1>1, <1>2

\* Left drops no node that is still to be called, and calls no node that has been
\* unbound meanwhile.
LEMMA LeftFacts ==
  ASSUME NEW b \in Seq(Broadcast)
  PROVE  /\ Left(b) \in Seq(Broadcast)
         /\ \A k \in DOMAIN Left(b) : Left(b)[k].to \subseteq Bound(Left(b)[k].event, node')
         /\ \A j \in DOMAIN b : \A n \in b[j].to \cap Bound(b[j].event, node') :
              \E k \in DOMAIN Left(b) : n \in Left(b)[k].to
<1> DEFINE called(k) == b[k].to \cap Bound(b[k].event, node')
           c == [k \in DOMAIN b |-> [b[k] EXCEPT !.to = called(k)]]
<1>0. DOMAIN b = 1 .. Len(b) /\ Len(b) \in Nat /\ \A i \in 1 .. Len(b) : b[i] \in Broadcast
  BY LenProperties, ElementOfSeq
<1>1. \A k \in DOMAIN b : /\ [b[k] EXCEPT !.to = called(k)] \in Broadcast
                          /\ [b[k] EXCEPT !.to = called(k)].to = called(k)
                          /\ [b[k] EXCEPT !.to = called(k)].event = b[k].event
  <2> SUFFICES ASSUME NEW k \in DOMAIN b
               PROVE  /\ [b[k] EXCEPT !.to = called(k)] \in Broadcast
                      /\ [b[k] EXCEPT !.to = called(k)].to = called(k)
                      /\ [b[k] EXCEPT !.to = called(k)].event = b[k].event
    OBVIOUS
  <2>1. b[k] \in Broadcast /\ called(k) \in SUBSET Nodes
    BY <1>0 DEF Broadcast
  <2> HIDE DEF called
  <2> QED BY <2>1 DEF Broadcast
<1>2. Left(b) = Unfinished(c)
  BY DEF Left
<1> HIDE DEF called
<1>3. c \in Seq(Broadcast) /\ DOMAIN c = DOMAIN b
  <2>1. c \in [1 .. Len(b) -> Broadcast]
    BY <1>0, <1>1
  <2> HIDE DEF c
  <2> QED BY <1>0, <2>1, SeqDef
<1>4. \A k \in DOMAIN b : c[k].to = called(k) /\ c[k].event = b[k].event
  BY <1>1
<1> HIDE DEF c
<1>5. /\ Unfinished(c) \in Seq(Broadcast)
      /\ \A k \in DOMAIN Unfinished(c) : \E j \in DOMAIN c : Unfinished(c)[k] = c[j]
      /\ \A j \in DOMAIN c : c[j].to # {} =>
           \E k \in DOMAIN Unfinished(c) : Unfinished(c)[k] = c[j]
  BY <1>3, UnfinishedFacts
<1>6. ASSUME NEW k \in DOMAIN Left(b)
      PROVE  Left(b)[k].to \subseteq Bound(Left(b)[k].event, node')
  <2>1. PICK j \in DOMAIN b : Left(b)[k] = c[j]
    BY <1>2, <1>3, <1>5
  <2> QED BY <1>4, <2>1 DEF called
<1>7. ASSUME NEW j \in DOMAIN b, NEW n \in b[j].to \cap Bound(b[j].event, node')
      PROVE  \E k \in DOMAIN Left(b) : n \in Left(b)[k].to
  <2>1. n \in c[j].to
    BY <1>4, <1>7 DEF called
  <2>2. PICK k \in DOMAIN Left(b) : Left(b)[k] = c[j]
    BY <1>2, <1>3, <1>5, <2>1
  <2> QED BY <2>1, <2>2
<1> QED BY <1>2, <1>5, <1>6, <1>7

\* No node is called that is not bound.
Turns == \A k \in DOMAIN stack : stack[k].to \subseteq Bound(stack[k].event, node)

\* A step that ends with Settle leaves every node its turn that has one: those whose
\* turn was coming and those it broadcasts to, as long as they are bound.
LEMMA SettleFacts ==
  ASSUME NEW added \in Seq(Broadcast), NEW pending \in Seq(Broadcast), Settle(added, pending)
  PROVE  /\ stack' \in Seq(Broadcast)
         /\ Turns'
         /\ \A n \in Nodes :
              (\/ \E j \in DOMAIN added : n \in added[j].to /\ node'[n].bound = added[j].event
               \/ \E j \in DOMAIN pending : n \in pending[j].to /\ node'[n].bound = pending[j].event)
              => InTurn(n)'
<1> DEFINE b == added \o pending
<1>1. /\ b \in Seq(Broadcast)
      /\ Len(b) = Len(added) + Len(pending)
      /\ \A i \in 1 .. Len(added) + Len(pending) :
           b[i] = IF i <= Len(added) THEN added[i] ELSE pending[i - Len(added)]
  BY ConcatProperties
<1>2. stack' = Left(b)
  BY DEF Settle
<1>3. /\ DOMAIN b = 1 .. Len(b) /\ DOMAIN added = 1 .. Len(added)
      /\ DOMAIN pending = 1 .. Len(pending) /\ Len(added) \in Nat /\ Len(pending) \in Nat
  BY <1>1, LenProperties
<1> HIDE DEF b
<1>4. ASSUME NEW n \in Nodes, NEW j \in DOMAIN b, n \in b[j].to, node'[n].bound = b[j].event
      PROVE  InTurn(n)'
  <2>1. n \in b[j].to \cap Bound(b[j].event, node')
    BY <1>4 DEF Bound
  <2>2. \E k \in DOMAIN Left(b) : n \in Left(b)[k].to
    BY <1>1, <2>1, LeftFacts
  <2> QED BY <1>2, <2>2 DEF InTurn
<1>5. ASSUME NEW j \in DOMAIN added
      PROVE  j \in DOMAIN b /\ b[j] = added[j]
  BY <1>1, <1>3
<1>6. ASSUME NEW j \in DOMAIN pending
      PROVE  j + Len(added) \in DOMAIN b /\ b[j + Len(added)] = pending[j]
  BY <1>1, <1>3
<1>7. stack' \in Seq(Broadcast) /\ Turns'
  BY <1>1, <1>2, LeftFacts DEF Turns
<1> QED BY <1>4, <1>5, <1>6, <1>7

-----------------------------------------------------------------------------
(* The steps of the session interface next to its search *)

SearchStep ==
  /\ UNCHANGED dedicated
  /\ SearchCall \/ SearchTurn \/ \E i \in Ids : ServeListing(i)

\* A step of the named sessions, of the search, or of neither.
SStep ==
  \/ Step /\ UNCHANGED svars
  \/ SearchStep
  \/ Still /\ UNCHANGED dedicated

LEMMA SNextStep == SNext => SStep
<1> SUFFICES ASSUME SNext
             PROVE  SStep
  OBVIOUS
<1>1. CASE (Creates \/ Game \/ MasterServer \/ Turn) /\ UNCHANGED svars
  <2>1. Next
    BY <1>1 DEF SNext, Next, Other
  <2> QED BY <1>1, <2>1, NextStep DEF SNext, SStep
<1>2. CASE SearchCall \/ SearchTurn \/ \E i \in Ids : ServeListing(i)
  BY <1>2 DEF SNext, SStep, SearchStep
<1> QED BY <1>1, <1>2 DEF SNext

LEMMA CrashStays ==
  ASSUME SStep, Running'
  PROVE  Running
<1>1. SearchStep => Running \/ UNCHANGED crashed
  BY DEF SearchStep, SearchCall, FindSessions, CancelFindSessions, FindFriendSession, SearchTurn,
         FindSessions_ResponseReceived, FindEnds, OnLANSearchTimeout, ServeListing
<1> QED BY <1>1, StaysCrashed DEF SStep, Still, Running

\* What the search leaves of the interface.
LEMMA SearchKeeps ==
  ASSUME SearchStep
  PROVE  UNCHANGED <<dedicated, sessions, createName, http, timer, resume, listed>>
BY DEF SearchStep, SearchCall, FindSessions, FindIgnored, FindLAN, FindInternet,
       CancelFindSessions, FindFriendSession, SearchTurn, FindSessions_ResponseReceived, FindEnds,
       OnLANSearchTimeout, ServeListing, OnlySearch

\* HandBack ends the LAN search, and the call with its broadcast or the process.
LEMMA HandBackFacts ==
  ASSUME NEW event \in Delegates, NEW ok \in BOOLEAN, HandBack(event, ok)
  PROVE  /\ beacon' \in {"NotUsingLanBeacon", "Hosting"}
         /\ NotifiedType'
         /\ \/ crashed' = "owner"
            \/ UNCHANGED crashed /\ notified' # None /\ notified'.event = event
<1>1. CASE DereferencesUnset(sessions)
  BY <1>1, QuietType DEF HandBack
<1>2. CASE ~DereferencesUnset(sessions)
  BY <1>2, TriggerType, Announced DEF HandBack
<1> QED BY <1>1, <1>2

\* What a step of the search broadcasts.
LEMMA SearchNotices ==
  ASSUME STypeOK, SearchStep
  PROVE  NotifiedType'
<1>0. {"Find", "CancelFind", "FindFriend"} \subseteq Delegates /\ TRUE \in BOOLEAN /\ FALSE \in BOOLEAN
  BY DEF Delegates
<1>1. \/ Quiet
      \/ \E event \in {"Find", "CancelFind", "FindFriend"}, ok \in BOOLEAN :
           HandBack(event, ok) \/ Trigger(event, None, ok)
  <2>1. CASE SearchCall
    BY <1>0, <2>1 DEF SearchCall, FindSessions, FindIgnored, FindLAN, FindInternet,
           CancelFindSessions, FindFriendSession
  <2>2. CASE \E i \in Ids : ServeListing(i)
    BY <2>2 DEF ServeListing
  <2>3. CASE FindEnds \/ OnLANSearchTimeout
    BY <1>0, <2>3 DEF FindEnds, OnLANSearchTimeout
  <2>4. ASSUME NEW i \in Ids, FindSessions_ResponseReceived(i)
        PROVE  Quiet \/ \E ok \in BOOLEAN : Trigger("Find", None, ok)
    <3>1. (find[i] = "listing") \in BOOLEAN
      OBVIOUS
    <3> QED BY <1>0, <2>4, <3>1 DEF FindSessions_ResponseReceived, FindUnanswered, FindAnswered,
                                    FindUnparsable
  <2> QED BY <2>1, <2>2, <2>3, <2>4 DEF SearchStep, SearchTurn
<1> QED BY <1>0, <1>1, QuietType, TriggerType, HandBackFacts

-----------------------------------------------------------------------------
(* The search has the beacon, and the answer a search *)

\* At most one request for the list is in flight, none while the handler of the last
\* one has still to forget the search.
AskedOnce == \A i, j \in Asked : i = j

SearchParts ==
  /\ search \in Search \cup {None}
  /\ find \in [Ids -> {"none", "pending", "listing", "error", "http500"}]
  /\ again \in BOOLEAN
  /\ SearchHoldsBeacon
  /\ AskedOnce
  /\ Asked # {} \/ again => search # None /\ ~search.lan
  /\ again => Asked = {}

SearchInv == TypeOK /\ NameKnown /\ SearchParts

LEMMA OneAsked ==
  /\ AskedOnce => Cardinality(Asked) <= 1
  /\ SearchInv => STypeOK /\ SearchHoldsBeacon /\ AnswerHasSearch
<1>1. IsFiniteSet(Asked)
  BY IdsAssumption, FS_Subset DEF Asked
<1>2. ASSUME AskedOnce
      PROVE  Cardinality(Asked) <= 1
  <2>1. CASE Asked = {}
    BY <2>1, FS_EmptySet
  <2>2. CASE Asked # {}
    <3>1. PICK i \in Ids : Asked = {i}
      BY <1>2, <2>2 DEF AskedOnce, Asked
    <3>2. Cardinality({i}) = 1
      BY FS_Singleton
    <3> QED BY <3>1, <3>2
  <2> QED BY <2>1, <2>2
<1> QED BY <1>2 DEF SearchInv, SearchParts, STypeOK, AnswerHasSearch

LEMMA SInitSearch == SInit => SearchInv
<1> SUFFICES ASSUME SInit
             PROVE  SearchInv
  OBVIOUS
<1>1. STypeOK
  BY DEF SInit, Init, STypeOK, TypeOK, Resumes
<1>2. Asked = {} /\ Registering = {}
  BY DEF SInit, Init, Asked, Registering
<1>3. NameKnown /\ SearchHoldsBeacon
  BY <1>2 DEF SInit, Init, NameKnown, SearchHoldsBeacon, Searching
<1> QED BY <1>1, <1>2, <1>3 DEF SInit, STypeOK, SearchInv, SearchParts, AskedOnce

\* The interface leaves the search alone, or the search the interface.
LEMMA SearchTypes ==
  ASSUME SearchInv, SStep
  PROVE  TypeOK' /\ NameKnown'
<1> USE OneAsked DEF SearchInv
<1>1. CASE Step
  BY <1>1, StepType, NameStep
<1>2. CASE SearchStep
  <2>1. UNCHANGED <<dedicated, sessions, createName, http, timer, resume, listed>>
    BY <1>2, SearchKeeps
  <2>2. NotifiedType'
    BY <1>2, SearchNotices
  <2>3. /\ beacon' \in {"NotUsingLanBeacon", "Hosting", "Searching"}
        /\ crashed' \in Places \cup {None}
    <3>1. beacon \in {"NotUsingLanBeacon", "Hosting", "Searching"} /\ crashed \in Places \cup {None}
      BY DEF TypeOK
    <3> QED BY <1>2, <3>1 DEF SearchStep, SearchCall, FindSessions, FindIgnored, FindLAN,
           FindInternet, CancelFindSessions, FindFriendSession, SearchTurn,
           FindSessions_ResponseReceived, FindUnanswered, FindAnswered, FindUnparsable, FindEnds,
           OnLANSearchTimeout, ServeListing, HandBack, Places
  <2>4. TypeOK'
    BY <2>1, <2>2, <2>3, TypeFacts, TypeParts DEF SessionsType, HttpType, BeaconType
  <2> QED BY <2>1, <2>4 DEF NameKnown, Registering
<1>3. CASE Still /\ UNCHANGED dedicated
  <2>1. UNCHANGED <<dedicated, sessions, createName, beacon, http, timer, resume, listed, crashed>>
        /\ Quiet
    BY <1>3 DEF Still
  <2>2. TypeOK'
    BY <2>1, TypeFacts, TypeParts, QuietType DEF SessionsType, HttpType, BeaconType
  <2> QED BY <2>1, <2>2 DEF NameKnown, Registering
<1> QED BY <1>1, <1>2, <1>3 DEF SStep

\* A search on the LAN is started, fails to start, or is not started.
LEMMA FindStep ==
  ASSUME SearchInv, NEW lan \in BOOLEAN, FindSessions(lan)
  PROVE  SearchParts'
<1> USE DEF SearchInv, SearchParts
<1>0. [lan |-> TRUE, state |-> "InProgress"] \in Search /\ [lan |-> TRUE, state |-> "Failed"] \in Search
      /\ [lan |-> FALSE, state |-> "NotStarted"] \in Search
  BY DEF Search
<1>1. CASE FindIgnored
  BY <1>1 DEF FindIgnored, svars, SearchHoldsBeacon, Running, Searching, AskedOnce, Asked
<1>2. CASE FindLAN
  <2>1. UNCHANGED <<find, again>> /\ Asked = {} /\ Asked' = {} /\ ~again
    BY <1>2 DEF FindLAN, Asked
  <2>2. CASE beacon' = "Searching" /\ search' = [lan |-> TRUE, state |-> "InProgress"]
    <3>1. SearchHoldsBeacon'
      BY <1>0, <2>2, SearchAssumption DEF SearchHoldsBeacon, Searching
    <3> QED BY <1>0, <2>1, <2>2, <3>1 DEF AskedOnce
  <2>3. CASE search' = [lan |-> TRUE, state |-> "Failed"] /\ HandBack("Find", FALSE)
    <3>1. beacon' # "Searching"
      BY <2>3 DEF HandBack
    <3>2. SearchHoldsBeacon'
      BY <2>3, <3>1 DEF SearchHoldsBeacon, Searching
    <3> QED BY <1>0, <2>1, <2>3, <3>2 DEF AskedOnce
  <2> QED BY <1>2, <2>2, <2>3 DEF FindLAN
<1>3. CASE FindInternet
  <2>1. PICK i \in Ids \ Asked : find' = [find EXCEPT ![i] = "pending"]
    BY <1>3 DEF FindInternet
  <2>2. /\ search = None /\ search' = [lan |-> FALSE, state |-> "NotStarted"]
        /\ UNCHANGED <<beacon, crashed, again>>
    BY <1>3 DEF FindInternet
  <2>3. Asked = {} /\ ~again /\ Asked' = {i}
    BY <2>1, <2>2 DEF Asked
  <2>4. SearchHoldsBeacon'
    BY <2>2 DEF SearchHoldsBeacon, Searching, Running
  <2> QED BY <1>0, <2>1, <2>2, <2>3, <2>4, SearchAssumption DEF AskedOnce
<1> QED BY <1>1, <1>2, <1>3 DEF FindSessions

\* CancelFindSessions and FindFriendSession.
LEMMA CancelStep ==
  ASSUME SearchInv, CancelFindSessions \/ FindFriendSession
  PROVE  SearchParts'
<1> USE DEF SearchInv, SearchParts
<1>1. UNCHANGED <<find, again>> /\ Asked' = Asked
  BY DEF CancelFindSessions, FindFriendSession, svars, Asked
<1>2. CASE UNCHANGED <<beacon, crashed, search>>
  BY <1>1, <1>2 DEF SearchHoldsBeacon, Running, Searching, AskedOnce
<1>3. CASE Searching /\ HandBack("CancelFind", TRUE) /\ search' = None
  <2>1. Asked = {} /\ ~again
    BY <1>3 DEF Searching
  <2>2. beacon' # "Searching"
    BY <1>3 DEF HandBack
  <2> QED BY <1>1, <1>3, <2>1, <2>2 DEF SearchHoldsBeacon, Searching, AskedOnce
<1> QED BY <1>2, <1>3 DEF CancelFindSessions, FindFriendSession, svars

\* The master server answers the request, and its answer comes.
LEMMA ListingStep ==
  ASSUME SearchInv, NEW i \in Ids, ServeListing(i) \/ FindSessions_ResponseReceived(i)
  PROVE  SearchParts'
<1> USE DEF SearchInv, SearchParts
<1>1. CASE ServeListing(i)
  <2>1. PICK reply \in {"listing", "error", "http500"} : find' = [find EXCEPT ![i] = reply]
    BY <1>1 DEF ServeListing
  <2>2. Asked' = Asked
    BY <1>1, <2>1 DEF ServeListing, Asked
  <2>3. UNCHANGED <<beacon, crashed, search, again>>
    BY <1>1 DEF ServeListing
  <2> QED BY <2>1, <2>2, <2>3 DEF SearchHoldsBeacon, Running, Searching, AskedOnce
<1>2. CASE FindSessions_ResponseReceived(i)
  <2>1. /\ Running /\ ~again /\ i \in Asked /\ find' = [find EXCEPT ![i] = "none"]
        /\ UNCHANGED beacon
    BY <1>2 DEF FindSessions_ResponseReceived
  <2>2. Asked' = {}
    BY <2>1 DEF Asked, AskedOnce
  <2>3. search # None /\ ~search.lan /\ beacon # "Searching"
    BY <2>1 DEF SearchHoldsBeacon, Searching
  <2>4. search' = search \/ search' = None
    BY <1>2 DEF FindSessions_ResponseReceived, FindUnanswered, FindAnswered, FindUnparsable
  <2>5. SearchHoldsBeacon'
    BY <2>1, <2>3, <2>4 DEF SearchHoldsBeacon, Searching
  <2>6. again' \in BOOLEAN /\ (again' => search' = search)
    <3>1. FindUnanswered \/ FindAnswered(find[i]) \/ FindUnparsable(find[i])
      BY <1>2 DEF FindSessions_ResponseReceived
    <3>2. CASE FindUnanswered \/ FindUnparsable(find[i])
      <4>1. again' = again
        BY <3>2 DEF FindUnanswered, FindUnparsable
      <4> QED BY <2>1, <4>1
    <3>3. CASE FindAnswered(find[i])
      BY <3>3 DEF FindAnswered
    <3> QED BY <3>1, <3>2, <3>3
  <2> QED BY <2>1, <2>2, <2>3, <2>4, <2>5, <2>6 DEF AskedOnce
<1> QED BY <1>1, <1>2

\* The search is forgotten.
LEMMA EndStep ==
  ASSUME SearchInv, FindEnds \/ OnLANSearchTimeout
  PROVE  SearchParts'
<1> USE DEF SearchInv, SearchParts
<1>1. search' = None /\ again' = FALSE /\ UNCHANGED find
  BY DEF FindEnds, OnLANSearchTimeout
<1>2. Asked = {} /\ Asked' = {}
  <2>1. CASE FindEnds
    BY <1>1, <2>1 DEF FindEnds, Asked
  <2>2. CASE OnLANSearchTimeout
    <3>1. Searching
      BY <2>2 DEF OnLANSearchTimeout, SearchHoldsBeacon
    <3> QED BY <1>1, <3>1 DEF Searching, Asked
  <2> QED BY <2>1, <2>2
<1>3. beacon' # "Searching"
  <2>1. CASE FindEnds
    BY <2>1 DEF FindEnds, SearchHoldsBeacon, Searching
  <2>2. CASE OnLANSearchTimeout
    BY <2>2 DEF OnLANSearchTimeout, HandBack
  <2> QED BY <2>1, <2>2
<1> QED BY <1>1, <1>2, <1>3 DEF SearchHoldsBeacon, Searching, AskedOnce

LEMMA SearchInvStep ==
  ASSUME SearchInv, SStep
  PROVE  SearchInv'
<1>1. TypeOK' /\ NameKnown'
  BY SearchTypes
<1>2. SearchParts'
  <2>1. CASE Step /\ UNCHANGED svars
    <3>1. beacon' = "Searching" <=> beacon = "Searching"
      BY <2>1, SearchKept DEF SearchInv
    <3>2. Running' => Running
      BY <2>1, StaysCrashed
    <3> QED BY <2>1, <3>1, <3>2 DEF SearchInv, SearchParts, svars, SearchHoldsBeacon, Searching,
                                    AskedOnce, Asked
  <2>2. CASE SearchStep
    BY <2>2, FindStep, CancelStep, ListingStep, EndStep DEF SearchStep, SearchCall, SearchTurn
  <2>3. CASE Still
    BY <2>3 DEF Still, SearchInv, SearchParts, svars, SearchHoldsBeacon, Searching, Running,
                AskedOnce, Asked
  <2> QED BY <2>1, <2>2, <2>3 DEF SStep
<1> QED BY <1>1, <1>2 DEF SearchInv

LEMMA SearchInvStutter ==
  ASSUME SearchInv, UNCHANGED allvars
  PROVE  SearchInv'
BY DEF SearchInv, SearchParts, allvars, vars, svars, TypeOK, NameKnown, Registering,
       SearchHoldsBeacon, Searching, Running, AskedOnce, Asked

\* The search alone, next to the named sessions.
LEMMA SearchAlone == SInit /\ [][SNext]_allvars => []SearchInv
<1>1. SearchInv /\ [SNext]_allvars => SearchInv'
  BY SNextStep, SearchInvStep, SearchInvStutter
<1> QED BY <1>1, SInitSearch, PTL

\* The types of the session interface with its search are right in every state.
THEOREM SearchTypeCorrect == SSpec => []STypeOK
<1> QED BY SearchAlone, OneAsked, PTL DEF SSpec

-----------------------------------------------------------------------------
(* The inductive invariant of the nodes *)

NodesType ==
  /\ node \in [Nodes -> Node]
  /\ stack \in Seq(Broadcast)
  /\ controller \in BOOLEAN
  /\ left \subseteq Nodes

\* A node that has not been activated waits for nothing and has reported nothing.
Fresh == \A n \in Nodes : ~node[n].activated => node[n].bound = None /\ node[n].reports = 0

\* A node unbinds when it reports.
OneReport ==
  controller => \A n \in Nodes : node[n].reports <= 1 /\ (node[n].bound # None => node[n].reports = 0)

InFlight(op) == \E i \in Ids : http[i] # None /\ http[i].op = op

\* What a node waits for is on its way: its turn in a broadcast or, where the question
\* goes to the master server or to a search, the request or the search.
Owed(n) ==
  \/ InTurn(n)
  \/ /\ node[n].bound \notin {"Start", "FindFriend"}
     /\ controller => node[n].bound \notin ByController
     /\ n \notin left =>
          /\ node[n].bound = "Create" => InFlight("register")
          /\ node[n].bound = "Update" => InFlight("update")
          /\ node[n].bound = "Find" /\ node[n].reports = 0 /\ controller => search # None

NInv ==
  /\ SearchInv
  /\ Replies
  /\ NodesType
  /\ Turns
  /\ Fresh
  /\ OneReport
  /\ Running => \A n \in Nodes : Owed(n)

LEMMA NInitInv == NInit => NInv
<1> SUFFICES ASSUME NInit
             PROVE  NInv
  OBVIOUS
<1>1. SearchInv
  BY SInitSearch DEF NInit
<1>2. Replies
  BY DEF NInit, SInit, Init, Replies
<1>3. /\ \A n \in Nodes : node[n] = [activated |-> FALSE, bound |-> None, second |-> None,
                                     reports |-> 0]
      /\ stack = <<>> /\ DOMAIN stack = {} /\ stack \in Seq(Broadcast)
  BY EmptySeq DEF NInit
<1>4. NodesType
  BY <1>3 DEF NInit, NodesType, Node
<1>5. Turns /\ Fresh /\ OneReport
  BY <1>3 DEF Turns, Fresh, OneReport
<1>6. \A n \in Nodes : Owed(n)
  BY <1>3, NodeAssumption DEF Owed, ByController, Events
<1> QED BY <1>1, <1>2, <1>4, <1>5, <1>6 DEF NInv

\* The invariant implies what is said of the nodes.
LEMMA NInvImplies ==
  ASSUME NInv
  PROVE  NTypeOK /\ NodesReportOnce /\ FindOwed /\ RequestOwed /\ NoneLeftWaiting
<1> USE DEF NInv
<1>1. NTypeOK
  BY OneAsked DEF NTypeOK, NodesType
<1>2. NodesReportOnce
  BY DEF NodesReportOnce, OneReport
<1>3. FindOwed
  <2> SUFFICES ASSUME Running, NEW n \in Nodes, node[n].bound = "Find", n \notin left,
                      node[n].reports = 0, controller, ~InTurn(n)
               PROVE  Asked # {} \/ Searching \/ again \/ Wedged
    BY DEF FindOwed, Bound
  <2>1. search # None
    BY DEF Owed
  <2> QED BY <2>1 DEF Wedged
<1>4. RequestOwed
  BY DEF RequestOwed, Owed, InFlight
<1>5. NoneLeftWaiting
  <2> SUFFICES ASSUME Running, stack = <<>>, NEW n \in Nodes
               PROVE  /\ node[n].bound \notin {"Start", "FindFriend"}
                      /\ controller => node[n].bound \notin ByController
    BY DEF NoneLeftWaiting
  <2>1. ~InTurn(n)
    BY EmptySeq DEF InTurn
  <2> QED BY <2>1 DEF Owed
<1> QED BY <1>1, <1>2, <1>3, <1>4, <1>5

-----------------------------------------------------------------------------
(* Every step of the nodes is a step of the interface *)

LEMMA ActivateStep ==
  ASSUME SearchInv, NEW n \in Nodes, Activate(n), UNCHANGED dedicated
  PROVE  SStep
<1> USE NameAssumption
<1>0. Still => SStep
  BY DEF SStep
<1>1. CASE CreateNode(n)
  <2>1. ASSUME NEW lan \in BOOLEAN, NEW advertise \in BOOLEAN,
               CreateSession(GameSessionName, [lan |-> lan, advertise |-> advertise,
                                               joinInProgress |-> TRUE, presence |-> TRUE]),
               UNCHANGED svars
        PROVE  SStep
    <3>1. [lan |-> lan, advertise |-> advertise, joinInProgress |-> TRUE, presence |-> TRUE] \in Settings
      BY DEF Settings
    <3> QED BY <2>1, <3>1 DEF AnyCreate, Step, SStep
  <2> QED BY <1>0, <1>1, <2>1 DEF CreateNode, AtOnce
<1>2. CASE FindNode(n)
  BY <1>0, <1>2 DEF FindNode, AtOnce, SearchCall, SearchStep, SStep
<1>3. CASE EndNode(n)
  BY <1>0, <1>3 DEF EndNode, AtOnce, AnyGame, Step, SStep
<1>4. CASE CancelNode(n) \/ FriendNode(n)
  BY <1>0, <1>4 DEF CancelNode, FriendNode, AtOnce, SearchCall, SearchStep, SStep
<1>5. CASE UpdateNode(n)
  <2>1. ASSUME NamedSession(GameSessionName), NEW lan \in BOOLEAN, NEW joinInProgress \in BOOLEAN
        PROVE  [sessions[GameSessionName].settings EXCEPT !.lan = lan,
                                                         !.joinInProgress = joinInProgress] \in Settings
    <3>1. sessions[GameSessionName] \in Session
      BY <2>1, TypeFacts DEF SearchInv, SessionsType, NamedSession
    <3>2. sessions[GameSessionName].settings \in Settings
      BY <3>1 DEF Session
    <3> QED BY <3>2 DEF Settings
  <2>2. ASSUME NamedSession(GameSessionName), NEW lan \in BOOLEAN, NEW joinInProgress \in JoinChoices,
               UpdateSession(GameSessionName,
                             [sessions[GameSessionName].settings EXCEPT
                                !.lan = lan, !.joinInProgress = joinInProgress]),
               UNCHANGED svars
        PROVE  SStep
    BY <2>1, <2>2, JoinAssumption DEF AnyGame, Step, SStep
  <2> QED BY <1>0, <1>5, <2>2 DEF UpdateNode, AtOnce
<1>6. CASE FriendsNode(n) \/ IdentityNode(n, "login", "Login") \/ IdentityNode(n, "logout", "Logout")
  BY <1>0, <1>6 DEF FriendsNode, IdentityNode, AtOnce
<1> QED BY <1>1, <1>2, <1>3, <1>4, <1>5, <1>6 DEF Activate

LEMMA NNextStep ==
  ASSUME SearchInv, NodesType, NNext
  PROVE  SStep
<1>0. Still => SStep
  BY DEF NNext, SStep
<1>1. CASE LoseController
  BY <1>0, <1>1 DEF LoseController
<1>2. CASE \E n \in Nodes : Activate(n)
  BY <1>2, ActivateStep DEF NNext
<1>3. ASSUME NEW n \in Nodes, Deliver(n)
      PROVE  SStep
  <2>1. \/ StartSession(GameSessionName) /\ UNCHANGED svars
        \/ node[n].second # None /\ FindSessions(node[n].second)
        \/ Still
    BY <1>3 DEF Deliver, OnCreateCompleted, OnFindCompleted
  <2>2. node[n].second # None => node[n].second \in BOOLEAN
    BY DEF NodesType, Node
  <2>3. node[n].second # None /\ FindSessions(node[n].second) => SearchCall
    BY <2>2 DEF SearchCall
  <2> QED BY <1>0, <2>1, <2>3, NameAssumption DEF NNext, AnyGame, Step, SearchStep, SStep
<1>4. CASE DestroyGame
  BY <1>4, NameAssumption DEF NNext, DestroyGame, AnyGame, Step, SStep
<1>5. CASE NodeTurn
  BY <1>5 DEF NNext, NodeTurn, Step, SearchStep, SStep
<1>6. CASE Outside
  BY <1>6 DEF NNext, Outside, Step, SearchStep, SStep
<1> QED BY <1>1, <1>2, <1>3, <1>4, <1>5, <1>6 DEF NNext

-----------------------------------------------------------------------------
(* A broadcast gives its turn to every node that is bound *)

LEMMA ToFacts ==
  ASSUME NEW event \in Delegates \cup Events, NEW ok \in BOOLEAN
  PROVE  /\ To(event, ok) \in Seq(Broadcast)
         /\ 1 \in DOMAIN To(event, ok)
         /\ To(event, ok)[1].event = event
         /\ To(event, ok)[1].to = Bound(event, node')
<1> DEFINE x == [event |-> event, ok |-> ok, to |-> Bound(event, node')]
<1>1. x \in Broadcast
  BY DEF Broadcast, Bound
<1>2. To(event, ok) = <<x>>
  BY DEF To
<1>3. x.event = event /\ x.to = Bound(event, node')
  OBVIOUS
<1> HIDE DEF x
<1> QED BY <1>1, <1>2, <1>3

LEMMA TriggeredFacts ==
  ASSUME NotifiedType'
  PROVE  /\ Triggered \in Seq(Broadcast)
         /\ notified' # None =>
              /\ 1 \in DOMAIN Triggered
              /\ Triggered[1].event = notified'.event
              /\ Triggered[1].to = Bound(notified'.event, node')
<1>1. CASE notified' = None
  BY <1>1, EmptySeq DEF Triggered
<1>2. CASE notified' # None
  <2>1. notified' \in Notification
    BY <1>2 DEF NotifiedType
  <2>2. notified'.event \in Delegates \cup Events /\ notified'.ok \in BOOLEAN
    BY <2>1 DEF Notification
  <2> QED BY <1>2, <2>2, ToFacts DEF Triggered
<1> QED BY <1>1, <1>2

\* A node that is bound to what the interface broadcasts is in turn afterwards.
LEMMA TriggeredInTurn ==
  ASSUME NotifiedType', NEW pending \in Seq(Broadcast), Settle(Triggered, pending),
         NEW n \in Nodes, notified' # None, node'[n].bound = notified'.event
  PROVE  InTurn(n)'
<1>1. n \in Bound(notified'.event, node')
  BY DEF Bound
<1> QED BY <1>1, TriggeredFacts, SettleFacts

\* While a node waits, its search or its request is not forgotten unheard.
LEMMA SearchEnds ==
  ASSUME SearchInv, SStep, Running', search # None, search' = None
  PROVE  /\ notified' # None
         /\ notified'.event = "Find" \/ (notified'.event = "CancelFind" /\ Searching)
<1>0. "Find" \in Delegates /\ "CancelFind" \in Delegates /\ TRUE \in BOOLEAN /\ FALSE \in BOOLEAN
      /\ crashed' # "owner" /\ None \in SessionNames \cup {None}
  BY NoneAssumption DEF Delegates, Running, Places
<1>1. CASE Step /\ UNCHANGED svars
  BY <1>1 DEF svars
<1>2. CASE Still
  BY <1>2 DEF Still, svars
<1>3. CASE SearchStep
  <2>1. CASE SearchCall
    <3>1. CancelFindSessions
      BY <2>1, SearchAssumption DEF SearchCall, FindSessions, FindIgnored, FindLAN, FindInternet,
             FindFriendSession, svars, Search
    <3>2. Searching /\ HandBack("CancelFind", TRUE)
      BY <3>1 DEF CancelFindSessions
    <3> QED BY <1>0, <3>2, HandBackFacts
  <2>2. ASSUME NEW i \in Ids, FindSessions_ResponseReceived(i)
        PROVE  notified' # None /\ notified'.event = "Find"
    <3>1. FindUnparsable(find[i])
      BY <2>2 DEF FindSessions_ResponseReceived, FindUnanswered, FindAnswered, FindUnparsable
    <3> QED BY <1>0, <3>1, Announced DEF FindUnparsable
  <2>3. CASE FindEnds
    BY <1>0, <2>3, Announced DEF FindEnds
  <2>4. CASE OnLANSearchTimeout
    BY <1>0, <2>4, HandBackFacts DEF OnLANSearchTimeout
  <2>5. ASSUME NEW i \in Ids, ServeListing(i)
        PROVE  FALSE
    BY <2>5 DEF ServeListing
  <2> QED BY <1>3, <2>1, <2>2, <2>3, <2>4, <2>5 DEF SearchStep, SearchTurn
<1> QED BY <1>1, <1>2, <1>3 DEF SStep

\* What becomes of the requests in a step: see RequestStep.
LEMMA RequestEnds ==
  ASSUME SearchInv, Replies, SStep, NEW i \in Ids, http[i] # None
  PROVE  \/ http'[i] # None /\ http'[i].op = http[i].op
         \/ /\ http[i].op = "register" => \/ notified' # None /\ notified'.event = "Create"
                                          \/ /\ notified' = None /\ http[i].reply = "http500"
                                             /\ http'[i] = None
            /\ http[i].op = "update" => \/ notified' # None /\ notified'.event = "Update"
                                        \/ /\ notified' = None /\ http[i].reply = "http500"
                                           /\ http'[i] = None
<1>1. CASE Step
  BY <1>1, RequestStep DEF SearchInv
<1>2. CASE ~Step
  BY <1>2, SearchKeeps DEF SStep, Still
<1> QED BY <1>1, <1>2

LEMMA RepliesStay ==
  ASSUME SearchInv, Replies, SStep
  PROVE  Replies'
<1>1. CASE Step
  BY <1>1, RepliesStep DEF SearchInv
<1>2. CASE ~Step
  BY <1>2, SearchKeeps DEF SStep, Still, Replies
<1> QED BY <1>1, <1>2

\* A step owes a node that it leaves as it is what was owed to it before.
LEMMA OwedStep ==
  ASSUME NInv, SStep, Running', controller' => controller, NEW n \in Nodes,
         node'[n] = node[n], left \cup Dropped \subseteq left',
         InTurn(n) => InTurn(n)',
         notified' # None /\ node'[n].bound = notified'.event => InTurn(n)'
  PROVE  Owed(n)'
<1> USE DEF NInv
<1>1. Owed(n)
  BY CrashStays
<1>2. CASE InTurn(n)
  BY <1>2 DEF Owed
<1>3. CASE ~InTurn(n) /\ ~InTurn(n)'
  <2>1. /\ node'[n].bound \notin {"Start", "FindFriend"}
        /\ controller' => node'[n].bound \notin ByController
    BY <1>1, <1>3 DEF Owed
  <2>2. ASSUME n \notin left', node'[n].bound = "Create"
        PROVE  InFlight("register")'
    <3>1. PICK i \in Ids : http[i] # None /\ http[i].op = "register"
      BY <1>1, <1>3, <2>2 DEF Owed, InFlight
    <3>2. n \in Bound("Create", node)
      BY <2>2 DEF Bound
    <3>3. ~(notified' = None /\ http[i].reply = "http500" /\ http'[i] = None)
      BY <2>2, <3>1, <3>2 DEF Dropped, Ignored
    <3> QED BY <1>3, <2>2, <3>1, <3>3, RequestEnds DEF InFlight
  <2>3. ASSUME node'[n].bound = "Update", n \notin left'
        PROVE  InFlight("update")'
    <3>1. PICK i \in Ids : http[i] # None /\ http[i].op = "update"
      BY <1>1, <1>3, <2>3 DEF Owed, InFlight
    <3>2. n \in Bound("Update", node)
      BY <2>3 DEF Bound
    <3>3. ~(notified' = None /\ http[i].reply = "http500" /\ http'[i] = None)
      BY <2>3, <3>1, <3>2 DEF Dropped, Ignored
    <3> QED BY <1>3, <2>3, <3>1, <3>3, RequestEnds DEF InFlight
  <2>4. ASSUME node'[n].bound = "Find", node'[n].reports = 0, controller', n \notin left'
        PROVE  search' # None
    <3>1. search # None
      BY <1>1, <1>3, <2>4 DEF Owed
    <3>2. n \in Bound("Find", node)
      BY <2>4 DEF Bound
    <3>3. ~(Searching /\ ~Searching' /\ notified' # None /\ notified'.event = "CancelFind")
      BY <2>4, <3>2 DEF Dropped
    <3>4. search' = None => ~Searching'
      BY DEF Searching
    <3> QED BY <1>3, <2>4, <3>1, <3>3, <3>4, SearchEnds
  <2> QED BY <2>1, <2>2, <2>3, <2>4 DEF Owed
<1> QED BY <1>2, <1>3 DEF Owed

-----------------------------------------------------------------------------
(* Steps that end with Settle *)

\* The node that acts has been activated, and has reported at most once: unless its
\* controller is gone it is no longer bound then.
Acted(n) ==
  /\ node'[n].activated
  /\ controller => /\ node'[n].reports <= 1
                   /\ node'[n].bound # None => node'[n].reports = 0

\* It is enough to show that the nodes that act - one or none - have acted like this
\* and wait for something that is on its way, and that the others keep their turns.
LEMMA SettledInv ==
  ASSUME NInv, SStep, UNCHANGED controller, node' \in [Nodes -> Node],
         NEW acting \in SUBSET Nodes,
         \A n \in Nodes \ acting : node'[n] = node[n],
         \A n \in acting : Acted(n) /\ (Running' => Owed(n)'),
         NEW added \in Seq(Broadcast), NEW pending \in Seq(Broadcast), Settle(added, pending),
         added = Triggered \/ notified' = None,
         \A n \in Nodes \ acting : InTurn(n) =>
           \E j \in DOMAIN pending : n \in pending[j].to /\ node[n].bound = pending[j].event
  PROVE  NInv'
<1> USE DEF NInv
<1>1. SearchInv' /\ Replies'
  BY SearchInvStep, RepliesStay
<1>2. stack' \in Seq(Broadcast) /\ Turns' /\ left \cup Dropped \subseteq left'
  BY SettleFacts DEF Settle
<1>3. NodesType'
  <2>1. Dropped \subseteq Nodes
    BY DEF Dropped, Bound
  <2>2. left' \subseteq Nodes
    BY <2>1 DEF Settle, NodesType
  <2> QED BY <1>2, <2>2 DEF NodesType
<1>4. Fresh' /\ OneReport'
  BY DEF Fresh, OneReport, Acted
<1>5. ASSUME Running', NEW n \in Nodes \ acting
      PROVE  Owed(n)'
  <2>1. InTurn(n) => InTurn(n)'
    BY <1>5, SettleFacts
  <2>2. notified' # None /\ node'[n].bound = notified'.event => InTurn(n)'
    <3>1. NotifiedType'
      BY <1>1, TypeFacts DEF SearchInv, TypeOK, NotifiedType
    <3> QED BY <1>5, <3>1, TriggeredInTurn
  <2> QED BY <1>2, <1>5, <2>1, <2>2, OwedStep
<1> QED BY <1>1, <1>2, <1>3, <1>4, <1>5

\* The game destroys the session, or the game thread goes on.
LEMMA QuietNodesInv ==
  ASSUME NInv, SStep, UNCHANGED controller, DestroyGame \/ NodeTurn
  PROVE  NInv'
<1> USE DEF NInv
<1>1. UNCHANGED node /\ Settle(Triggered, stack)
  BY DEF DestroyGame, NodeTurn
<1>2. NotifiedType'
  BY SearchTypes DEF TypeOK, NotifiedType
<1>3. Triggered \in Seq(Broadcast)
  BY <1>2, TriggeredFacts
<1>4. \A n \in Nodes : InTurn(n) =>
        \E j \in DOMAIN stack : n \in stack[j].to /\ node[n].bound = stack[j].event
  BY DEF InTurn, Turns, Bound
<1>5. node' \in [Nodes -> Node] /\ stack \in Seq(Broadcast) /\ {} \in SUBSET Nodes
  BY <1>1 DEF NodesType
<1>6. \A n \in Nodes \ {} : node'[n] = node[n]
  BY <1>1
<1> QED BY <1>1, <1>3, <1>4, <1>5, <1>6, SettledInv

\* The controller is lost, or the master server acts: no node notices.
LEMMA UnseenInv ==
  ASSUME NInv, SStep, LoseController \/ (Outside /\ UNCHANGED controller)
  PROVE  NInv'
<1> USE DEF NInv
<1>1. /\ UNCHANGED <<node, stack, left>>
      /\ (controller' => controller) /\ controller' \in BOOLEAN
      /\ notified' = None
  <2>1. CASE LoseController
    BY <2>1 DEF LoseController, Still, Quiet
  <2>2. CASE Outside /\ UNCHANGED controller
    <3>1. UNCHANGED <<node, stack, left>> /\ Quiet
      BY <2>2 DEF Outside, MasterServer, Serve, ChangeListing, ServeListing
    <3>2. controller \in BOOLEAN
      BY DEF NodesType
    <3> QED BY <2>2, <3>1, <3>2 DEF Quiet
  <2> QED BY <2>1, <2>2
<1>2. SearchInv' /\ Replies'
  BY SearchInvStep, RepliesStay
<1>3. NodesType' /\ Turns' /\ Fresh' /\ OneReport'
  BY <1>1 DEF NodesType, Turns, Fresh, OneReport, Bound
<1>4. Dropped = {}
  <2>1. \A i \in Ids : http[i] # None => http'[i] # None
    BY ServedKeeps DEF SearchInv, LoseController, Outside, Still, MasterServer, ChangeListing,
                       ServeListing, OnlySearch
  <2> QED BY <1>1, <2>1 DEF Dropped, Ignored
<1>5. ASSUME Running', NEW n \in Nodes
      PROVE  Owed(n)'
  <2>1. InTurn(n) => InTurn(n)'
    BY <1>1 DEF InTurn
  <2> QED BY <1>1, <1>4, <1>5, <2>1, OwedStep
<1> QED BY <1>2, <1>3, <1>5

-----------------------------------------------------------------------------
(* A node is activated *)

\* Only n acts, and n is right after its step.
Acts(n) ==
  /\ node' \in [Nodes -> Node]
  /\ \A m \in Nodes \ {n} : node'[m] = node[m]
  /\ Acted(n)

\* Once activated, a node waits for one event and has not reported.
Waits(n, event) == node'[n].bound = event /\ Acts(n)

LEMMA BindActs ==
  ASSUME NInv, NEW n \in Nodes, NEW kind, New(n, kind), NEW event \in Events,
         NEW second \in BOOLEAN \cup {None},
         \/ Bind(n, event)
         \/ node' = [node EXCEPT ![n].activated = TRUE, ![n].bound = event,
                                 ![n].second = second]
  PROVE  Waits(n, event)
<1>0. /\ node \in [Nodes -> Node] /\ node[n] \in Node /\ node[n].reports = 0
  BY NodeAssumption DEF NInv, NodesType, Fresh, New
<1>1. CASE Bind(n, event)
  <2> DEFINE r == [node[n] EXCEPT !.activated = TRUE, !.bound = event]
  <2>1. r \in Node /\ r.activated /\ r.bound = event /\ r.reports = 0
    BY <1>0 DEF Node
  <2>2. node' = [node EXCEPT ![n] = r]
    BY <1>0, <1>1 DEF Bind
  <2> HIDE DEF r
  <2> QED BY <1>0, <2>1, <2>2 DEF Waits, Acts, Acted
<1>2. CASE node' = [node EXCEPT ![n].activated = TRUE, ![n].bound = event,
                                ![n].second = second]
  <2> DEFINE r == [node[n] EXCEPT !.activated = TRUE, !.bound = event, !.second = second]
  <2>1. r \in Node /\ r.activated /\ r.bound = event /\ r.reports = 0
    BY <1>0 DEF Node
  <2>2. node' = [node EXCEPT ![n] = r]
    BY <1>0, <1>2
  <2> HIDE DEF r
  <2> QED BY <1>0, <2>1, <2>2 DEF Waits, Acts, Acted
<1> QED BY <1>1, <1>2

LEMMA AtOnceActs ==
  ASSUME NInv, NEW n \in Nodes, NEW kind, New(n, kind), AtOnce(n)
  PROVE  Waits(n, None)
<1>0. /\ node \in [Nodes -> Node] /\ node[n] \in Node /\ node[n].bound = None
  BY NodeAssumption DEF NInv, NodesType, Fresh, New
<1> DEFINE r == [node[n] EXCEPT !.activated = TRUE, !.reports = 1]
<1>1. r.activated /\ r.bound = None /\ r.reports = 1
  BY <1>0 DEF Node
<1>2. r \in Node
  <2>1. 1 \in 0 .. 2
    OBVIOUS
  <2> QED BY <1>0, <2>1 DEF Node
<1>3. node' = [node EXCEPT ![n] = r]
  BY <1>0 DEF AtOnce
<1> HIDE DEF r
<1> QED BY <1>0, <1>1, <1>2, <1>3 DEF Waits, Acts, Acted

\* FindSessions leaves a search behind, be it another one or one that failed.
LEMMA FindMakesSearch ==
  ASSUME NEW lan, FindSessions(lan)
  PROVE  search' # None
<1>0. /\ [lan |-> TRUE, state |-> "InProgress"] \in Search
      /\ [lan |-> TRUE, state |-> "Failed"] \in Search
      /\ [lan |-> FALSE, state |-> "NotStarted"] \in Search
  BY DEF Search
<1>1. \A s \in Search : s # None
  BY SearchAssumption
<1>2. FindIgnored => search' # None
  BY DEF FindIgnored, svars
<1>3. FindLAN \/ FindInternet => search' # None
  BY <1>0, <1>1 DEF FindLAN, FindInternet
<1> QED BY <1>2, <1>3 DEF FindSessions

\* What a node that has been activated waits for is on its way: it is bound to what
\* the call has broadcast, or its request has been sent, or a search is current.
Asking(n) ==
  \/ Waits(n, None)
  \/ Waits(n, "Create") /\ InFlight("register")'
  \/ Waits(n, "Update") /\ InFlight("update")'
  \/ Waits(n, "Find") /\ search' # None
  \/ \E event \in Events : Waits(n, event) /\ notified' # None /\ notified'.event = event

LEMMA ActivateAsks ==
  ASSUME NInv, NEW n \in Nodes, Running',
         \/ CreateNode(n) \/ FindNode(n) \/ EndNode(n) \/ CancelNode(n)
         \/ UpdateNode(n) \/ FriendNode(n) \/ FriendsNode(n)
  PROVE  Asking(n)
<1> USE DEF NInv
<1>0. {"Create", "Update", "Find", "End", "CancelFind", "FindFriend"} \subseteq Events /\ TRUE \in BOOLEAN
  BY DEF Events
<1>1. ASSUME NEW kind, New(n, kind), AtOnce(n)
      PROVE  Asking(n)
  BY <1>1, AtOnceActs DEF Asking
<1>2. ASSUME NEW kind, New(n, kind), NEW event \in Events, Bind(n, event)
      PROVE  Waits(n, event)
  BY <1>0, <1>2, BindActs
<1>3. HttpType
  BY TypeFacts DEF SearchInv
<1>4. CASE CreateNode(n)
  <2>1. ASSUME NEW lan \in BOOLEAN, NEW advertise \in BOOLEAN, Bind(n, "Create"),
               CreateSession(GameSessionName, [lan |-> lan, advertise |-> advertise,
                                               joinInProgress |-> TRUE, presence |-> TRUE])
        PROVE  Asking(n)
    <3>1. [lan |-> lan, advertise |-> advertise, joinInProgress |-> TRUE, presence |-> TRUE] \in Settings
      BY DEF Settings
    <3>2. (notified' # None /\ notified'.event = "Create") \/ Send("register")
      BY <2>1, <3>1, CreateAnswers, NameAssumption
    <3>3. Send("register") => InFlight("register")'
      BY <1>3, SendAdds DEF InFlight
    <3>4. Waits(n, "Create")
      BY <1>0, <1>2, <1>4, <2>1 DEF CreateNode
    <3> QED BY <1>0, <3>2, <3>3, <3>4 DEF Asking
  <2> QED BY <1>1, <1>4, <2>1 DEF CreateNode
<1>5. CASE FindNode(n)
  <2>1. ASSUME NEW lan \in BOOLEAN, NEW second \in Steam \cup {FALSE},
               node' = [node EXCEPT ![n].activated = TRUE, ![n].bound = "Find",
                                    ![n].second = IF second THEN lan ELSE None],
               FindSessions(lan)
        PROVE  Asking(n)
    <3>1. (IF second THEN lan ELSE None) \in BOOLEAN \cup {None}
      BY SteamAssumption
    <3>2. search' # None
      BY <2>1, FindMakesSearch
    <3>3. New(n, "find")
      BY <1>5 DEF FindNode
    <3>4. Waits(n, "Find")
      BY <1>0, <2>1, <3>1, <3>3, BindActs
    <3> QED BY <3>2, <3>4 DEF Asking
  <2> QED BY <1>1, <1>5, <2>1 DEF FindNode
<1>6. CASE EndNode(n)
  <2>1. CASE Bind(n, "End") /\ EndSession(GameSessionName)
    <3>1. notified' # None /\ notified'.event = "End"
      BY <2>1, MatchAnswers, NameAssumption
    <3>2. Waits(n, "End")
      BY <1>0, <1>2, <1>6, <2>1 DEF EndNode
    <3> QED BY <1>0, <3>1, <3>2 DEF Asking
  <2> QED BY <1>1, <1>6, <2>1 DEF EndNode
<1>7. CASE CancelNode(n)
  <2>1. CASE Bind(n, "CancelFind") /\ CancelFindSessions
    <3>0. "CancelFind" \in Delegates /\ None \in SessionNames \cup {None} /\ crashed' # "owner"
      BY NoneAssumption DEF Delegates, Running, Places
    <3>1. notified' # None /\ notified'.event = "CancelFind"
      BY <1>0, <2>1, <3>0, Announced, HandBackFacts DEF CancelFindSessions
    <3>2. Waits(n, "CancelFind")
      BY <1>0, <1>2, <1>7, <2>1 DEF CancelNode
    <3> QED BY <1>0, <3>1, <3>2 DEF Asking
  <2> QED BY <1>1, <1>7, <2>1 DEF CancelNode
<1>8. CASE UpdateNode(n)
  <2>1. ASSUME NEW settings, Bind(n, "Update"), UpdateSession(GameSessionName, settings)
        PROVE  Asking(n)
    <3>1. InFlight("update")'
      BY <1>3, <2>1, SendAdds DEF UpdateSession, InFlight
    <3>2. Waits(n, "Update")
      BY <1>0, <1>2, <1>8, <2>1 DEF UpdateNode
    <3> QED BY <3>1, <3>2 DEF Asking
  <2> QED BY <1>1, <1>8, <2>1 DEF UpdateNode
<1>9. CASE FriendNode(n)
  <2>1. CASE Bind(n, "FindFriend") /\ FindFriendSession
    <3>0. "FindFriend" \in Delegates /\ None \in SessionNames \cup {None} /\ FALSE \in BOOLEAN
      BY DEF Delegates
    <3>1. notified' # None /\ notified'.event = "FindFriend"
      BY <2>1, <3>0, Announced DEF FindFriendSession
    <3>2. Waits(n, "FindFriend")
      BY <1>0, <1>2, <1>9, <2>1 DEF FriendNode
    <3> QED BY <1>0, <3>1, <3>2 DEF Asking
  <2> QED BY <1>1, <1>9, <2>1 DEF FriendNode
<1>10. CASE FriendsNode(n)
  BY <1>1, <1>10 DEF FriendsNode
<1> QED BY <1>4, <1>5, <1>6, <1>7, <1>8, <1>9, <1>10

LEMMA ActivateActs ==
  ASSUME NInv, NEW n \in Nodes, Activate(n)
  PROVE  Acts(n)
<1>0. {"Create", "Update", "Find", "End", "CancelFind", "FindFriend", "Login", "Logout"} \subseteq Events
  BY DEF Events
<1>1. ASSUME NEW kind, New(n, kind), AtOnce(n)
      PROVE  Acts(n)
  BY <1>1, AtOnceActs DEF Waits
<1>2. ASSUME NEW kind, New(n, kind), NEW event \in Events, Bind(n, event)
      PROVE  Acts(n)
  <2>1. TRUE \in BOOLEAN
    OBVIOUS
  <2> QED BY <1>2, <2>1, BindActs DEF Waits
<1>3. ASSUME New(n, "find"), NEW lan \in BOOLEAN, NEW second \in Steam \cup {FALSE},
             node' = [node EXCEPT ![n].activated = TRUE, ![n].bound = "Find",
                                  ![n].second = IF second THEN lan ELSE None]
      PROVE  Acts(n)
  <2>1. (IF second THEN lan ELSE None) \in BOOLEAN \cup {None}
    BY SteamAssumption
  <2> QED BY <1>0, <1>3, <2>1, BindActs DEF Waits
<1>4. CASE FindNode(n)
  BY <1>1, <1>3, <1>4 DEF FindNode
<1>5. CASE CreateNode(n) \/ EndNode(n) \/ CancelNode(n)
  BY <1>0, <1>1, <1>2, <1>5 DEF CreateNode, EndNode, CancelNode
<1>6. CASE UpdateNode(n) \/ FriendNode(n) \/ FriendsNode(n)
  BY <1>0, <1>1, <1>2, <1>6 DEF UpdateNode, FriendNode, FriendsNode
<1>7. CASE IdentityNode(n, "login", "Login") \/ IdentityNode(n, "logout", "Logout")
  BY <1>0, <1>1, <1>2, <1>7 DEF IdentityNode
<1> QED BY <1>4, <1>5, <1>6, <1>7 DEF Activate

\* Every node in turn is bound to its broadcast.
LEMMA InTurnBound ==
  ASSUME NInv, NEW n \in Nodes, InTurn(n)
  PROVE  \E j \in DOMAIN stack : n \in stack[j].to /\ node[n].bound = stack[j].event
BY DEF NInv, InTurn, Turns, Bound

LEMMA ActivateInv ==
  ASSUME NInv, SStep, UNCHANGED controller, NEW n \in Nodes, Activate(n)
  PROVE  NInv'
<1>0. /\ NotifiedType' /\ stack \in Seq(Broadcast) /\ {n} \in SUBSET Nodes
      /\ "Login" \in Events /\ "Logout" \in Events /\ None \notin Events
  BY SearchTypes, NodeAssumption DEF NInv, NodesType, TypeOK, NotifiedType, Events
<1>1. Acts(n)
  BY ActivateActs
<1>2. Waits(n, None) => Owed(n)'
  BY <1>0 DEF Waits, Owed, Events, ByController
<1>3. ASSUME NEW added \in Seq(Broadcast), Settle(added, stack),
             added = Triggered \/ notified' = None,
             Running' => Owed(n)'
      PROVE  NInv'
  <2>1. \A m \in Nodes \ {n} : InTurn(m) =>
          \E j \in DOMAIN stack : m \in stack[j].to /\ node[m].bound = stack[j].event
    BY InTurnBound
  <2>2. /\ node' \in [Nodes -> Node] /\ \A m \in Nodes \ {n} : node'[m] = node[m]
        /\ \A m \in {n} : Acted(m) /\ (Running' => Owed(m)')
    BY <1>1, <1>3 DEF Acts
  <2> QED BY <1>0, <1>3, <2>1, <2>2, SettledInv
<1>4. CASE /\ \/ CreateNode(n) \/ FindNode(n) \/ EndNode(n) \/ CancelNode(n)
              \/ UpdateNode(n) \/ FriendNode(n) \/ FriendsNode(n)
           /\ Settle(Triggered, stack)
  <2>1. ASSUME Running'
        PROVE  Owed(n)'
    <3>1. Asking(n)
      BY <1>4, <2>1, ActivateAsks
    <3>2. CASE \E event \in Events : Waits(n, event) /\ notified' # None /\ notified'.event = event
      BY <1>0, <1>4, <3>2, TriggeredInTurn DEF Waits, Owed
    <3>3. CASE \/ Waits(n, "Create") /\ InFlight("register")'
               \/ Waits(n, "Update") /\ InFlight("update")'
               \/ Waits(n, "Find") /\ search' # None
      BY <3>3 DEF Waits, Owed, ByController
    <3> QED BY <1>2, <3>1, <3>2, <3>3 DEF Asking
  <2> QED BY <1>0, <1>3, <1>4, <2>1, TriggeredFacts
<1>5. ASSUME NEW kind, NEW event \in {"Login", "Logout"}, IdentityNode(n, kind, event),
             Settle(To(event, TRUE), stack)
      PROVE  NInv'
  <2>1. notified' = None
    BY <1>5 DEF IdentityNode, AtOnce, Still, Quiet
  <2>2. /\ To(event, TRUE) \in Seq(Broadcast) /\ 1 \in DOMAIN To(event, TRUE)
        /\ To(event, TRUE)[1].event = event /\ To(event, TRUE)[1].to = Bound(event, node')
    BY <1>0, ToFacts
  <2>3. CASE Bind(n, event)
    <3>1. Waits(n, event)
      <4>1. TRUE \in BOOLEAN
        OBVIOUS
      <4> QED BY <1>0, <1>5, <2>3, <4>1, BindActs DEF IdentityNode
    <3>2. n \in To(event, TRUE)[1].to /\ node'[n].bound = event
      BY <2>2, <3>1 DEF Waits, Bound
    <3>3. InTurn(n)'
      BY <1>0, <1>5, <2>2, <3>2, SettleFacts
    <3>4. Owed(n)'
      BY <3>3 DEF Owed
    <3> QED BY <1>3, <1>5, <2>1, <2>2, <3>4
  <2>4. CASE AtOnce(n)
    <3>1. Owed(n)'
      BY <1>2, <1>5, <2>4, AtOnceActs DEF IdentityNode
    <3> QED BY <1>3, <1>5, <2>1, <2>2, <3>1
  <2> QED BY <1>5, <2>3, <2>4 DEF IdentityNode
<1> QED BY <1>4, <1>5 DEF Activate

-----------------------------------------------------------------------------
(* A delegate is called *)

LEMMA ReportActs ==
  ASSUME NInv, NEW n \in Nodes, node[n].bound \in Events, NEW unbinds \in BOOLEAN,
         controller => unbinds, Report(n, unbinds)
  PROVE  Acts(n) /\ node'[n].bound = (IF unbinds THEN None ELSE node[n].bound)
<1>0. /\ node \in [Nodes -> Node] /\ node[n] \in Node /\ node[n].activated
      /\ controller => node[n].reports = 0
  BY NodeAssumption DEF NInv, NodesType, Fresh, OneReport
<1> DEFINE reports == IF node[n].reports = 2 THEN 2 ELSE node[n].reports + 1
           bound   == IF unbinds THEN None ELSE node[n].bound
           r == [node[n] EXCEPT !.reports = reports, !.bound = bound]
<1>1. node[n].reports \in 0 .. 2
  BY <1>0 DEF Node
<1>2. reports \in 0 .. 2 /\ (controller => reports = 1)
  BY <1>0, <1>1
<1>3. bound \in Events \cup {None} /\ (controller => bound = None)
  OBVIOUS
<1>4. node' = [node EXCEPT ![n] = r]
  BY <1>0 DEF Report
<1> HIDE DEF reports, bound
<1>5. r \in Node
  BY <1>0, <1>2, <1>3 DEF Node
<1>6. r.activated = node[n].activated /\ r.bound = bound /\ r.reports = reports
  BY <1>0 DEF Node
<1> HIDE DEF r
<1>7. node' \in [Nodes -> Node] /\ node'[n] = r /\ \A m \in Nodes \ {n} : node'[m] = node[m]
  BY <1>0, <1>4, <1>5
<1>8. controller => node'[n].reports <= 1 /\ node'[n].bound = None
  BY <1>2, <1>3, <1>6, <1>7
<1> QED BY <1>0, <1>6, <1>7, <1>8 DEF Acts, Acted, bound

\* The handlers of a creation and of a search may call the interface once more.
LEMMA AgainActs ==
  ASSUME NInv, NEW n \in Nodes, node[n].bound \in Events,
         node' = [node EXCEPT ![n].bound = "Start"] \/ node' = [node EXCEPT ![n].second = None]
  PROVE  /\ Acts(n)
         /\ node'[n].bound = "Start" \/ node'[n].bound = node[n].bound
<1>0. /\ node \in [Nodes -> Node] /\ node[n] \in Node /\ node[n].activated
      /\ controller => node[n].reports = 0
  BY NodeAssumption DEF NInv, NodesType, Fresh, OneReport
<1>1. CASE node' = [node EXCEPT ![n].bound = "Start"]
  <2> DEFINE r == [node[n] EXCEPT !.bound = "Start"]
  <2>1. r \in Node /\ r.activated /\ r.bound = "Start" /\ r.reports = node[n].reports
    BY <1>0 DEF Node, Events
  <2>2. node' = [node EXCEPT ![n] = r]
    BY <1>0, <1>1
  <2> HIDE DEF r
  <2> QED BY <1>0, <2>1, <2>2 DEF Acts, Acted
<1>2. CASE node' = [node EXCEPT ![n].second = None]
  <2> DEFINE r == [node[n] EXCEPT !.second = None]
  <2>1. r \in Node /\ r.activated /\ r.bound = node[n].bound /\ r.reports = node[n].reports
    BY <1>0 DEF Node
  <2>2. node' = [node EXCEPT ![n] = r]
    BY <1>0, <1>2
  <2> HIDE DEF r
  <2> QED BY <1>0, <2>1, <2>2 DEF Acts, Acted
<1> QED BY <1>1, <1>2

\* A call takes the turn of one node in the innermost broadcast, and no other.
LEMMA OtherTurns ==
  ASSUME NInv, stack # <<>>, NEW n \in Nodes
  PROVE  LET b       == Head(stack)
             pending == <<[b EXCEPT !.to = @ \ {n}]>> \o Tail(stack)
         IN  /\ b \in Broadcast /\ b.to \subseteq Bound(b.event, node)
             /\ pending \in Seq(Broadcast)
             /\ \A m \in Nodes \ {n} : InTurn(m) =>
                  \E j \in DOMAIN pending : m \in pending[j].to /\ node[m].bound = pending[j].event
<1> DEFINE b == Head(stack)
           c == [b EXCEPT !.to = @ \ {n}]
           pending == <<c>> \o Tail(stack)
<1>0. stack \in Seq(Broadcast) /\ DOMAIN stack = 1 .. Len(stack) /\ Len(stack) \in Nat \ {0}
  BY LenProperties, EmptySeq DEF NInv, NodesType
<1>1. /\ b \in Broadcast /\ b = stack[1]
      /\ Tail(stack) \in Seq(Broadcast) /\ Len(Tail(stack)) = Len(stack) - 1
      /\ \A i \in 1 .. Len(Tail(stack)) : Tail(stack)[i] = stack[i + 1]
  BY <1>0, HeadTailProperties
<1>2. c \in Broadcast /\ c.event = b.event /\ c.to = b.to \ {n}
  BY <1>1 DEF Broadcast
<1> HIDE DEF b, c
<1>3. /\ <<c>> \in Seq(Broadcast) /\ Len(<<c>>) = 1 /\ <<c>>[1] = c
  BY <1>2
<1>4. /\ pending \in Seq(Broadcast) /\ Len(pending) = Len(stack)
      /\ \A i \in 1 .. Len(stack) : pending[i] = IF i <= 1 THEN c ELSE Tail(stack)[i - 1]
  <2>1. /\ pending \in Seq(Broadcast)
        /\ Len(pending) = Len(<<c>>) + Len(Tail(stack))
        /\ \A i \in 1 .. Len(<<c>>) + Len(Tail(stack)) :
             pending[i] = IF i <= Len(<<c>>) THEN <<c>>[i] ELSE Tail(stack)[i - Len(<<c>>)]
    BY <1>1, <1>3, ConcatProperties
  <2> HIDE DEF pending
  <2> DEFINE front == <<c>>
             rest  == Tail(stack)
  <2>2. Len(front) = 1 /\ front[1] = c /\ Len(rest) = Len(stack) - 1
    BY <1>1, <1>3
  <2>3. /\ Len(pending) = Len(front) + Len(rest)
        /\ \A i \in 1 .. Len(front) + Len(rest) :
             pending[i] = IF i <= Len(front) THEN front[i] ELSE rest[i - Len(front)]
    BY <2>1
  <2> HIDE DEF front, rest
  <2>4. Len(front) + Len(rest) = Len(stack)
    BY <1>0, <2>2
  <2>5. /\ Len(pending) = Len(stack)
        /\ \A i \in 1 .. Len(stack) : pending[i] = IF i <= 1 THEN front[i] ELSE rest[i - 1]
    BY <2>2, <2>3, <2>4
  <2>6. \A i \in 1 .. Len(stack) : i <= 1 => front[i] = c
    BY <1>0, <2>2
  <2>7. \A i \in 1 .. Len(stack) : pending[i] = IF i <= 1 THEN c ELSE rest[i - 1]
    BY <2>5, <2>6
  <2> QED BY <2>1, <2>5, <2>7 DEF rest
<1>5. DOMAIN pending = DOMAIN stack
  BY <1>0, <1>4, LenProperties
<1> HIDE DEF pending
<1>6. pending[1] = c /\ \A i \in 2 .. Len(stack) : pending[i] = stack[i]
  BY <1>0, <1>1, <1>4
<1>7. ASSUME NEW m \in Nodes \ {n}, InTurn(m)
      PROVE  \E j \in DOMAIN pending : m \in pending[j].to /\ node[m].bound = pending[j].event
  <2>1. PICK j \in DOMAIN stack : m \in stack[j].to /\ node[m].bound = stack[j].event
    BY <1>7, InTurnBound
  <2>2. CASE j = 1
    BY <1>1, <1>2, <1>5, <1>6, <2>1, <2>2
  <2>3. CASE j # 1
    BY <1>0, <1>5, <1>6, <2>1, <2>3
  <2> QED BY <2>2, <2>3
<1>8. b.to \subseteq Bound(b.event, node)
  BY <1>0, <1>1 DEF NInv, Turns
<1> QED BY <1>1, <1>4, <1>7, <1>8 DEF b, c, pending

LEMMA DeliverInv ==
  ASSUME NInv, SStep, UNCHANGED controller, NEW n \in Nodes, Deliver(n)
  PROVE  NInv'
<1> DEFINE b       == Head(stack)
           pending == <<[b EXCEPT !.to = @ \ {n}]>> \o Tail(stack)
<1>0. /\ NotifiedType' /\ controller \in BOOLEAN /\ {n} \in SUBSET Nodes
      /\ None \notin Events /\ Triggered \in Seq(Broadcast)
  <2>1. NotifiedType'
    BY SearchTypes DEF NInv, TypeOK, NotifiedType
  <2> QED BY <2>1, NodeAssumption, TriggeredFacts DEF NInv, NodesType
<1>1. /\ b \in Broadcast /\ b.to \subseteq Bound(b.event, node)
      /\ pending \in Seq(Broadcast)
      /\ \A m \in Nodes \ {n} : InTurn(m) =>
           \E j \in DOMAIN pending : m \in pending[j].to /\ node[m].bound = pending[j].event
  BY OtherTurns DEF Deliver
<1>2. n \in b.to /\ Settle(Triggered, pending)
  BY DEF Deliver
<1>3. \/ b.event = "Create" /\ OnCreateCompleted(n, b.ok)
      \/ b.event = "Find"   /\ OnFindCompleted(n)
      \/ b.event \in ByController /\ Report(n, controller) /\ Still
      \/ b.event \in {"Start", "Update", "FindFriend"} /\ Report(n, TRUE) /\ Still
  BY DEF Deliver
<1> HIDE DEF b, pending
<1>4. node[n].bound = b.event /\ b.event \in Events
  BY <1>1, <1>2, <1>3 DEF Bound, ByController, Events
<1>5. ASSUME Acts(n), Running' => Owed(n)'
      PROVE  NInv'
  <2>1. /\ node' \in [Nodes -> Node] /\ \A m \in Nodes \ {n} : node'[m] = node[m]
        /\ \A m \in {n} : Acted(m) /\ (Running' => Owed(m)')
    BY <1>5 DEF Acts
  <2> QED BY <1>0, <1>1, <1>2, <2>1, SettledInv
<1>6. ASSUME Report(n, TRUE)
      PROVE  NInv'
  <2>1. Acts(n) /\ node'[n].bound = None
    BY <1>4, <1>6, ReportActs
  <2>2. Owed(n)'
    BY <1>0, <2>1 DEF Owed, Events, ByController
  <2> QED BY <1>5, <2>1, <2>2
<1>7. ASSUME Report(n, FALSE), ~controller, b.event \in ByController \cup {"Find"}
      PROVE  NInv'
  <2>1. Acts(n) /\ node'[n].bound = b.event
    BY <1>4, <1>7, ReportActs
  <2>2. Owed(n)'
    BY <1>7, <2>1 DEF Owed, ByController
  <2> QED BY <1>5, <2>1, <2>2
<1>8. ASSUME Report(n, controller), b.event \in ByController \cup {"Find"}
      PROVE  NInv'
  <2>1. CASE controller
    <3>1. controller = TRUE
      BY <1>0, <2>1
    <3> QED BY <1>6, <1>8, <3>1
  <2>2. CASE ~controller
    <3>1. controller = FALSE
      BY <1>0, <2>2
    <3> QED BY <1>7, <1>8, <2>2, <3>1
  <2> QED BY <2>1, <2>2
<1>9. CASE b.event = "Create" /\ OnCreateCompleted(n, b.ok)
  <2>1. CASE node' = [node EXCEPT ![n].bound = "Start"] /\ StartSession(GameSessionName)
    <3>1. Acts(n)
      BY <1>4, <2>1, AgainActs
    <3>2. node'[n].bound = "Start"
      BY <2>1 DEF NInv, NodesType
    <3>3. Running' => notified' # None /\ notified'.event = "Start"
      BY <2>1, MatchAnswers, NameAssumption
    <3>4. Running' => Owed(n)'
      BY <1>0, <1>1, <1>2, <3>2, <3>3, TriggeredInTurn DEF Owed
    <3> QED BY <1>5, <3>1, <3>4
  <2> QED BY <1>6, <1>9, <2>1 DEF OnCreateCompleted
<1>10. CASE b.event = "Find" /\ OnFindCompleted(n)
  <2>1. CASE node' = [node EXCEPT ![n].second = None] /\ FindSessions(node[n].second)
    <3>1. Acts(n) /\ node'[n].bound \in {"Start", "Find"}
      BY <1>4, <1>10, <2>1, AgainActs
    <3>2. node'[n].bound = "Find"
      <4>1. node'[n].bound = node[n].bound
        BY <2>1 DEF NInv, NodesType, Node
      <4> QED BY <1>4, <1>10, <4>1
    <3>3. search' # None
      BY <2>1, FindMakesSearch
    <3>4. Owed(n)'
      BY <3>2, <3>3 DEF Owed, ByController
    <3> QED BY <1>5, <3>1, <3>4
  <2> QED BY <1>8, <1>10, <2>1 DEF OnFindCompleted
<1> QED BY <1>3, <1>6, <1>8, <1>9, <1>10

-----------------------------------------------------------------------------
(* What holds of the nodes and of the search *)

LEMMA NStutterInv ==
  ASSUME NInv, UNCHANGED <<allvars, nvars>>
  PROVE  NInv'
<1>1. SearchInv' /\ UNCHANGED <<node, stack, controller, left, search, http, crashed>>
  BY SearchInvStutter DEF NInv, nvars, allvars, vars, svars
<1> QED BY <1>1 DEF NInv, Replies, NodesType, Turns, Bound, Fresh, OneReport, Running, Owed, InTurn,
                    InFlight

LEMMA NNextInv == NInv /\ [NNext]_<<allvars, nvars>> => NInv'
<1> SUFFICES ASSUME NInv, NNext
             PROVE  NInv'
  BY NStutterInv
<1>1. SStep
  BY NNextStep DEF NInv
<1> QED BY <1>1, ActivateInv, DeliverInv, QuietNodesInv, UnseenInv DEF NNext

LEMMA NodesAlone == NSpec => []NInv
<1> QED BY NInitInv, NNextInv, PTL DEF NSpec

\* The beacon searches exactly as long as a LAN search is the current one, whatever
\* the sessions do to the beacon meanwhile, and however many nodes search.
THEOREM SearchAlwaysHoldsBeacon ==
  /\ SSpec => []SearchHoldsBeacon
  /\ NSpec => []SearchHoldsBeacon
<1>1. NInv => SearchHoldsBeacon
  BY OneAsked DEF NInv
<1> QED BY <1>1, SearchAlone, NodesAlone, OneAsked, PTL DEF SSpec

\* No answer to a search finds its search gone, and no two are expected at once.
THEOREM AnswerAlwaysHasSearch ==
  /\ SSpec => []AnswerHasSearch
  /\ NSpec => []AnswerHasSearch
<1>1. NInv => AnswerHasSearch
  BY OneAsked DEF NInv
<1> QED BY <1>1, SearchAlone, NodesAlone, OneAsked, PTL DEF SSpec

\* The types of the nodes are right in every state.
THEOREM NodesTypeCorrect == NSpec => []NTypeOK
<1> QED BY NodesAlone, NInvImplies, PTL

\* As long as its player controller lives, a node reports to the game at most once.
THEOREM NodesAlwaysReportOnce == NSpec => []NodesReportOnce
<1> QED BY NodesAlone, NInvImplies, PTL

\* A node that waits for a search has an answer coming, unless its search was
\* cancelled or one without an answer is the current one forever.
THEOREM FindAlwaysOwed == NSpec => []FindOwed
<1> QED BY NodesAlone, NInvImplies, PTL

\* A node that waits for the creation or the update of the session has an answer
\* coming, unless the answer was an error page.
THEOREM RequestAlwaysOwed == NSpec => []RequestOwed
<1> QED BY NodesAlone, NInvImplies, PTL

\* A node whose question is answered before the call returns waits for nothing once
\* the broadcasts are over.
THEOREM NeverLeftWaiting == NSpec => []NoneLeftWaiting
<1> QED BY NodesAlone, NInvImplies, PTL
=============================================================================
