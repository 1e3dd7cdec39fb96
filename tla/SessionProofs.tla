---------------------------- MODULE SessionProofs ----------------------------
(***************************************************************************)
(* The named sessions of a game process, for any number of sessions, any   *)
(* settings and any number of requests to the master server.               *)
(***************************************************************************)
EXTENDS SessionHistory, SessionInterfaceProofs

-----------------------------------------------------------------------------
(* Every creation is answered once *)

\* A call of CreateSession is answered at once, or sends its request.
LEMMA CreateMoves ==
  ASSUME TypeOK, Creates, Running'
  PROVE  \/ CreateAnnounced' /\ UNCHANGED http
         \/ Quiet /\ \E i \in Ids :
              /\ http[i] = None
              /\ http' = [http EXCEPT ![i] = [op |-> "register", reply |-> "pending"]]
<1>1. PICK n \in SessionNames, settings \in SettingsChoices : CreateSession(n, settings)
  BY DEF Creates
<1>2. "Create" \in Delegates /\ FALSE \in BOOLEAN /\ Running
  BY <1>1 DEF Delegates, CreateSession, Called
<1>3. CASE CreateExisting(n)
  BY <1>2, <1>3, Announced DEF CreateExisting, CreateAnnounced
<1>4. CASE CreateLAN(n, settings)
  <2>1. RefreshBeacon([sessions EXCEPT ![n] = NewSession(settings)], "Create", n)
        /\ UNCHANGED http
    BY <1>4 DEF CreateLAN
  <2>2. crashed' # "owner"
    BY NoneAssumption DEF Running, Places
  <2> QED BY <1>2, <2>1, <2>2, Refreshed DEF CreateAnnounced
<1>5. CASE CreateInternet(n, settings)
  BY <1>5 DEF CreateInternet, Send
<1> QED BY <1>1, <1>3, <1>4, <1>5 DEF CreateSession

LEMMA SendMoves ==
  ASSUME TypeOK, NEW i \in Ids, NEW op \in {"register", "update", "unregister"},
         http[i] = None, http' = [http EXCEPT ![i] = [op |-> op, reply |-> "pending"]]
  PROVE  /\ ~ErrorPageIgnored
         /\ i \notin Registering
         /\ op = "register" => Registering' = Registering \cup {i}
         /\ op # "register" => Registering' = Registering
<1>0. http \in [Ids -> Request \cup {None}]
  BY DEF TypeOK
<1>1. [op |-> op, reply |-> "pending"] \in Request
  BY DEF Request
<1>2. http'[i].op = op /\ http'[i] # None /\ \A j \in Ids \ {i} : http'[j] = http[j]
  BY <1>0, <1>1, NoneAssumption
<1> QED BY <1>2 DEF ErrorPageIgnored, Registering

LEMMA CompletesMoves ==
  ASSUME TypeOK, NEW i \in Ids, NEW op, Completes(i, op)
  PROVE  /\ op = "register" => i \in Registering /\ Registering' = Registering \ {i}
         /\ op # "register" => Registering' = Registering
         /\ ErrorPageIgnored <=>
              op = "register" /\ ~CreateAnnounced' /\ http[i].reply = "http500"
<1>0. http \in [Ids -> Request \cup {None}]
  BY DEF TypeOK
<1>1. http[i] # None /\ http[i].op = op /\ http' = [http EXCEPT ![i] = None]
  BY DEF Completes
<1>2. http'[i] = None /\ \A j \in Ids \ {i} : http'[j] = http[j]
  BY <1>0, <1>1
<1> QED BY <1>1, <1>2 DEF ErrorPageIgnored, Registering

\* What a step of something else than CreateSession broadcasts.
LEMMA OtherNotices ==
  ASSUME TypeOK, NameKnown, Other
  PROVE  ~CreateAnnounced' \/ \E i \in Ids : CreateSession_ResponseReceived(i)
<1> USE TypeFacts DEF CreateAnnounced
<1>0. /\ {"Start", "Update", "End", "Destroy", "Join"} \subseteq Delegates
      /\ TRUE \in BOOLEAN /\ FALSE \in BOOLEAN
  BY DEF Delegates
<1>1. ASSUME NEW n \in SessionNames, Destroy(n)
      PROVE  ~CreateAnnounced'
  <2>1. \/ \E table : RefreshBeacon(table, "Destroy", n)
        \/ Trigger("Destroy", n, FALSE) \/ Quiet
    BY <1>1 DEF Destroy
  <2> QED BY <1>0, <2>1, Refreshed, Announced DEF Quiet
<1>2. CASE Game
  <2>1. PICK n \in SessionNames :
          \/ StartSession(n)
          \/ \E settings \in SettingsChoices : UpdateSession(n, settings)
          \/ EndSession(n)
          \/ DestroySession(n)
          \/ \E settings \in SettingsChoices, owner \in {"other", "unset"}, space, valid \in BOOLEAN :
               JoinSession(n, settings, owner, space, valid)
          \/ ChangeSpace(n)
          \/ ChangePlayer(n)
    BY <1>2 DEF Game
  <2>2. CASE StartSession(n) \/ EndSession(n)
    <3>1. \/ \E table : RefreshBeacon(table, "Start", n) \/ RefreshBeacon(table, "End", n)
          \/ Trigger("Start", n, FALSE) \/ Trigger("End", n, FALSE)
      BY <2>2 DEF StartSession, EndSession
    <3> QED BY <1>0, <3>1, Refreshed, Announced
  <2>3. ASSUME NEW settings \in SettingsChoices, NEW owner \in {"other", "unset"},
               NEW space \in BOOLEAN, NEW valid \in BOOLEAN,
               JoinSession(n, settings, owner, space, valid)
        PROVE  ~CreateAnnounced'
    <3>1. (~NamedSession(n) /\ valid) \in BOOLEAN
      OBVIOUS
    <3>2. Trigger("Join", n, ~NamedSession(n) /\ valid)
      BY <2>3 DEF JoinSession
    <3> QED BY <1>0, <3>1, <3>2, Announced
  <2>4. CASE ChangeSpace(n) \/ ChangePlayer(n) \/ \E settings \in SettingsChoices : UpdateSession(n, settings)
    BY <2>4 DEF ChangeSpace, ChangePlayer, UpdateSession, Quiet
  <2> QED BY <1>1, <2>1, <2>2, <2>3, <2>4 DEF DestroySession
<1>3. CASE MasterServer
  BY <1>3 DEF MasterServer, Serve, ChangeListing, Quiet
<1>4. CASE StartHeartbeat \/ PerformHeartbeat
  BY <1>4 DEF StartHeartbeat, PerformHeartbeat, Quiet
<1>5. CASE DestroyFailed
  <2>1. createName \in SessionNames
    BY <1>5 DEF DestroyFailed, NameKnown, Nothing
  <2> QED BY <1>1, <1>5, <2>1 DEF DestroyFailed
<1>6. ASSUME NEW i \in Ids, UpdateSession_ResponseReceived(i)
      PROVE  ~CreateAnnounced'
  <2>1. PICK reply : Trigger("Update", createName, reply = "updated") \/ Quiet
    BY <1>6 DEF UpdateSession_ResponseReceived, Unparsable
  <2>2. (reply = "updated") \in BOOLEAN
    OBVIOUS
  <2> QED BY <1>0, <2>1, <2>2, Announced DEF Quiet
<1>7. ASSUME NEW i \in Ids, DestroySession_ResponseReceived(i)
      PROVE  ~CreateAnnounced'
  <2>1. Trigger("Destroy", createName, FALSE) \/ Quiet
    BY <1>7 DEF DestroySession_ResponseReceived
  <2> QED BY <1>0, <2>1, Announced DEF Quiet
<1> QED BY <1>2, <1>3, <1>4, <1>5, <1>6, <1>7 DEF Other, Turn, Response

\* The answer to a registration is announced, or it is the error page.
LEMMA RegistrationMoves ==
  ASSUME TypeOK, NameKnown, Replies, NEW i \in Ids, CreateSession_ResponseReceived(i)
  PROVE  /\ i \in Registering /\ Registering' = Registering \ {i}
         /\ CreateAnnounced' \/ ErrorPageIgnored
<1> USE TypeFacts
<1>1. Completes(i, "register")
  BY DEF CreateSession_ResponseReceived
<1>2. /\ i \in Registering /\ Registering' = Registering \ {i}
      /\ ErrorPageIgnored <=> ~CreateAnnounced' /\ http[i].reply = "http500"
  BY <1>1, CompletesMoves
<1>3. "Create" \in Delegates /\ TRUE \in BOOLEAN /\ FALSE \in BOOLEAN
  BY DEF Delegates
<1>4. PICK reply \in Outcomes(i) :
        CreateSucceeds(reply) \/ CreateFails(reply) \/ Unparsable(reply)
  BY DEF CreateSession_ResponseReceived
<1>5. CASE CreateSucceeds(reply) \/ CreateFails(reply)
  BY <1>2, <1>3, <1>5, Announced DEF CreateSucceeds, CreateFails, CreateAnnounced
<1>6. CASE Unparsable(reply)
  <2>1. reply = http[i].reply
    BY <1>6 DEF Unparsable, Outcomes
  <2>2. http[i] # None /\ http[i].op = "register"
    BY <1>1 DEF Completes
  <2>3. reply = "http500"
    BY <1>6, <2>1, <2>2 DEF Unparsable, Replies
  <2> QED BY <1>2, <2>1, <2>3
<1> QED BY <1>2, <1>4, <1>5, <1>6

LEMMA OtherMoves ==
  ASSUME TypeOK, NameKnown, Replies, Other, UNCHANGED dedicated
  PROVE  \/ ~CreateAnnounced' /\ ~ErrorPageIgnored /\ Registering' = Registering
         \/ /\ CreateAnnounced' \/ ErrorPageIgnored
            /\ \E i \in Registering : Registering' = Registering \ {i}
<1>1. CASE \E i \in Ids : CreateSession_ResponseReceived(i)
  BY <1>1, RegistrationMoves
<1>2. CASE \A i \in Ids : ~CreateSession_ResponseReceived(i)
  <2>1. ~CreateAnnounced'
    BY <1>2, OtherNotices
  <2>2. CASE UNCHANGED http
    BY <2>1, <2>2 DEF ErrorPageIgnored, Registering
  <2>3. CASE \E op \in {"update", "unregister"} : Send(op)
    BY <2>1, <2>3, SendMoves DEF Send
  <2>4. ASSUME NEW i \in Ids, Serve(i)
        PROVE  ~ErrorPageIgnored /\ Registering' = Registering
    <3>1. Registering' = Registering
      BY <2>4, ServedStays
    <3>2. \A j \in Ids : http[j] # None => http'[j] # None
      BY <2>4, ServedKeeps
    <3> QED BY <3>1, <3>2 DEF ErrorPageIgnored
  <2>5. ASSUME NEW i \in Ids,
               UpdateSession_ResponseReceived(i) \/ DestroySession_ResponseReceived(i)
        PROVE  ~ErrorPageIgnored /\ Registering' = Registering
    <3>1. PICK op \in {"update", "unregister"} : Completes(i, op)
      BY <2>5 DEF UpdateSession_ResponseReceived, DestroySession_ResponseReceived
    <3> QED BY <3>1, CompletesMoves
  <2>6. \/ UNCHANGED http
        \/ \E op \in {"update", "unregister"} : Send(op)
        \/ \E i \in Ids : \/ Serve(i)
                          \/ UpdateSession_ResponseReceived(i)
                          \/ DestroySession_ResponseReceived(i)
    <3>1. CASE Game
      BY <3>1 DEF Game, StartSession, UpdateSession, EndSession, DestroySession, Destroy,
                  JoinSession, ChangeSpace, ChangePlayer
    <3>2. CASE MasterServer
      BY <3>2 DEF MasterServer, ChangeListing
    <3>3. CASE Turn
      BY <1>2, <3>3 DEF Turn, Response, StartHeartbeat, DestroyFailed, PerformHeartbeat, Destroy
    <3> QED BY <3>1, <3>2, <3>3 DEF Other
  <2> QED BY <2>1, <2>2, <2>3, <2>4, <2>5, <2>6
<1> QED BY <1>1, <1>2

-----------------------------------------------------------------------------
(* The inductive invariant *)

SInv == HTypeOK /\ NameKnown /\ Replies

LEMMA SInitInv == HInit => SInv /\ CreateAnsweredOnce
<1> SUFFICES ASSUME HInit
             PROVE  SInv /\ CreateAnsweredOnce
  OBVIOUS
<1>1. HTypeOK
  BY DEF HInit, Init, HTypeOK, TypeOK, Resumes
<1>2. Registering = {}
  BY DEF HInit, Init, Registering
<1>3. NameKnown /\ Replies
  BY <1>2 DEF HInit, Init, NameKnown, Replies
<1>4. CreateAnsweredOnce
  BY <1>2, FS_EmptySet DEF HInit, CreateAnsweredOnce, Registering
<1> QED BY <1>1, <1>3, <1>4 DEF SInv

LEMMA HNextNext == HNext => Next
  BY DEF HNext, Next

LEMMA HNextStep == HNext => Step
  BY HNextNext, NextStep

LEMMA SNextInv == SInv /\ [HNext]_hvars => SInv'
<1> SUFFICES ASSUME SInv, [HNext]_hvars
             PROVE  SInv'
  OBVIOUS
<1> USE DEF SInv, HTypeOK
<1>1. CASE UNCHANGED hvars
  BY <1>1 DEF hvars, vars, TypeOK, NameKnown, Registering, Replies
<1>2. CASE HNext
  <2>1. TypeOK' /\ NameKnown' /\ Replies'
    BY <1>2, HNextStep, StepType, NameStep, RepliesStep
  <2>2. open' \in Int
    BY <1>2 DEF HNext, Count
  <2>3. played' \in SUBSET SessionNames
    BY <1>2 DEF HNext, Play
  <2> QED BY <2>1, <2>2, <2>3
<1> QED BY <1>1, <1>2

LEMMA AnsweredStep == SInv /\ CreateAnsweredOnce /\ [HNext]_hvars => CreateAnsweredOnce'
<1> SUFFICES ASSUME SInv, CreateAnsweredOnce, [HNext]_hvars, Running'
             PROVE  open' = Cardinality(Registering')
  BY DEF CreateAnsweredOnce, Registering
<1> USE DEF SInv, HTypeOK
<1>0. IsFiniteSet(Registering) /\ Cardinality(Registering) \in Nat
  BY IdsAssumption, FS_Subset, FS_CardinalityType DEF Registering
<1>1. CASE UNCHANGED hvars
  BY <1>1 DEF hvars, vars, CreateAnsweredOnce, Registering, Running
<1>2. CASE HNext
  <2>0. open = Cardinality(Registering)
    BY <1>2, HNextStep, StaysCrashed DEF CreateAnsweredOnce, Registering
  <2>1. CASE Creates /\ Count(1)
    <3>1. CASE CreateAnnounced' /\ UNCHANGED http
      BY <2>0, <2>1, <3>1, <1>0 DEF Count, Registering
    <3>2. CASE Quiet /\ \E i \in Ids :
                 /\ http[i] = None
                 /\ http' = [http EXCEPT ![i] = [op |-> "register", reply |-> "pending"]]
      <4>1. PICK i \in Ids :
              /\ http[i] = None
              /\ http' = [http EXCEPT ![i] = [op |-> "register", reply |-> "pending"]]
        BY <3>2
      <4>2. ~ErrorPageIgnored /\ i \notin Registering /\ Registering' = Registering \cup {i}
        BY <4>1, SendMoves
      <4>3. ~CreateAnnounced'
        BY <3>2 DEF Quiet, CreateAnnounced
      <4>4. Cardinality(Registering') = Cardinality(Registering) + 1
        BY <1>0, <4>2, FS_AddElement
      <4> QED BY <1>0, <2>0, <2>1, <4>2, <4>3, <4>4 DEF Count
    <3> QED BY <2>1, <3>1, <3>2, CreateMoves
  <2>2. CASE Other /\ Count(0)
    <3>1. CASE ~CreateAnnounced' /\ ~ErrorPageIgnored /\ Registering' = Registering
      BY <1>0, <2>0, <2>2, <3>1 DEF Count
    <3>2. CASE /\ CreateAnnounced' \/ ErrorPageIgnored
               /\ \E i \in Registering : Registering' = Registering \ {i}
      <4>1. Cardinality(Registering') = Cardinality(Registering) - 1
        BY <1>0, <3>2, FS_RemoveElement
      <4> QED BY <1>0, <2>0, <2>2, <3>2, <4>1 DEF Count
    <3> QED BY <1>2, <2>2, <3>1, <3>2, OtherMoves DEF HNext
  <2> QED BY <1>2, <2>1, <2>2 DEF HNext
<1> QED BY <1>1, <1>2

\* The types of the session interface are right in every state.
THEOREM SessionTypeCorrect == HSpec => []HTypeOK
<1> QED BY SInitInv, SNextInv, PTL DEF HSpec, SInv

\* Every call of CreateSession is answered by exactly one broadcast, or by an error
\* page: at any time the calls without an answer are as many as the registrations in
\* flight.
THEOREM CreateAlwaysAnsweredOnce == HSpec => []CreateAnsweredOnce
<1> QED BY SInitInv, SNextInv, AnsweredStep, PTL DEF HSpec

-----------------------------------------------------------------------------
(* The beacon in step with the sessions *)

\* The named sessions alone never search.
NoSearch == beacon \in {"NotUsingLanBeacon", "Hosting"}

LEMMA BeaconMoves ==
  ASSUME NoSearch, NEW table, NEW event \in Delegates, NEW name \in SessionNames \cup {None},
         RefreshBeacon(table, event, name)
  PROVE  /\ NoSearch'
         /\ notified' # None /\ notified'.ok => (beacon' = "Hosting" <=> Advertised(table))
<1>1. CASE notified' = None /\ UNCHANGED beacon
  BY <1>1 DEF NoSearch
<1>2. CASE \E r \in UpdateLANStatus(table) : beacon' = r.beacon /\ notified'.ok = r.ok
  <2>1. PICK r \in UpdateLANStatus(table) : beacon' = r.beacon /\ notified'.ok = r.ok
    BY <1>2
  <2>2. CASE r = [beacon |-> "Hosting", ok |-> TRUE] /\ Advertised(table)
    BY <2>1, <2>2 DEF NoSearch
  <2>3. CASE r = [beacon |-> "NotUsingLanBeacon", ok |-> FALSE]
    BY <2>1, <2>3 DEF NoSearch
  <2>4. CASE r = [beacon |-> "NotUsingLanBeacon", ok |-> TRUE] /\ ~Advertised(table)
    BY <2>1, <2>4 DEF NoSearch
  <2> QED BY <2>1, <2>2, <2>3, <2>4 DEF UpdateLANStatus, NoSearch
<1> QED BY <1>1, <1>2, Refreshed

LEMMA NoSearchStep ==
  ASSUME TypeOK, NameKnown, NoSearch, Next
  PROVE  NoSearch'
<1>1. beacon' # "Searching"
  BY NextStep, SearchKept DEF NoSearch
<1>2. TypeOK'
  BY NextStep, StepType
<1> QED BY <1>1, <1>2 DEF TypeOK, NoSearch

LEMMA SameAdvertised ==
  UNCHANGED dedicated =>
    ((\E n \in Live(sessions) : NeedsToAdvertise(sessions[n]))' <=> Advertised(sessions'))
BY DEF Live, NeedsToAdvertise, IsHost, Advertised

\* Being created or waiting for the match makes no difference to the beacon.
LEMMA PendingAdvertised ==
  ASSUME SessionsType, NEW n \in SessionNames, NEW settings \in Settings,
         NEW created, created = [sessions EXCEPT ![n] = NewSession(settings)]
  PROVE  Advertised([created EXCEPT ![n].state = "Pending"]) <=> Advertised(created)
<1> DEFINE waiting == [created EXCEPT ![n].state = "Pending"]
<1>1. NewSession(settings) \in Session
  BY SessionsTypes
<1>2. created \in [SessionNames -> Session \cup {None}] /\ created[n] = NewSession(settings)
  BY <1>1 DEF SessionsType
<1>3. /\ waiting[n] = [NewSession(settings) EXCEPT !.state = "Pending"]
      /\ \A m \in SessionNames \ {n} : waiting[m] = created[m]
  BY <1>2
<1>4. [NewSession(settings) EXCEPT !.state = "Pending"] \in Session
  BY <1>1 DEF Session, States
<1>5. waiting[n] # None /\ created[n] # None
  BY <1>1, <1>2, <1>3, <1>4, NoneAssumption
<1>6. Live(waiting) = Live(created)
  BY <1>3, <1>5 DEF Live
<1>7. /\ waiting[n].settings = created[n].settings /\ waiting[n].owner = created[n].owner
      /\ waiting[n].state # "InProgress" /\ created[n].state # "InProgress"
  BY <1>2, <1>3 DEF NewSession
<1>8. NeedsToAdvertise(waiting[n]) <=> NeedsToAdvertise(created[n])
  BY <1>7 DEF NeedsToAdvertise, IsHost
<1> HIDE DEF waiting
<1>9. Advertised(waiting) <=> Advertised(created)
  BY <1>3, <1>6, <1>8 DEF Advertised, Live
<1> QED BY <1>9 DEF waiting

InStep == notified # None /\ notified.ok /\ notified.event \in {"Create", "End", "Destroy"}

LEMMA DestroyInStep ==
  ASSUME NoSearch, NEW n \in SessionNames, Destroy(n), InStep'
  PROVE  beacon' = "Hosting" <=> Advertised(sessions')
<1>0. "Destroy" \in Delegates /\ FALSE \in BOOLEAN
  BY DEF Delegates
<1>1. RefreshBeacon(sessions', "Destroy", n)
  BY <1>0, Announced DEF Destroy, Quiet, InStep
<1> QED BY <1>0, <1>1, BeaconMoves DEF InStep

LEMMA CreateInStep ==
  ASSUME TypeOK, NoSearch, NEW n \in SessionNames, NEW settings \in Settings,
         CreateSession(n, settings), InStep'
  PROVE  beacon' = "Hosting" <=> Advertised(sessions')
<1>0. "Create" \in Delegates /\ FALSE \in BOOLEAN
  BY DEF Delegates
<1>1. CreateLAN(n, settings)
  BY <1>0, Announced DEF CreateSession, CreateExisting, CreateInternet, Quiet, InStep
<1>2. PICK created : created = [sessions EXCEPT ![n] = NewSession(settings)]
  OBVIOUS
<1>3. RefreshBeacon(created, "Create", n)
  BY <1>1, <1>2 DEF CreateLAN
<1>4. sessions' = [created EXCEPT ![n].state = "Pending"]
  BY <1>1, <1>2 DEF CreateLAN, InStep
<1>5. beacon' = "Hosting" <=> Advertised(created)
  BY <1>0, <1>3, BeaconMoves DEF InStep
<1> QED BY <1>2, <1>4, <1>5, PendingAdvertised, TypeFacts

\* A creation that the master server confirmed is announced before its handler is
\* through; the other announcements that are made then are of other events.
LEMMA TurnInStep ==
  ASSUME TypeOK, NameKnown, NoSearch, Turn, InStep', resume' = Nothing
  PROVE  beacon' = "Hosting" <=> Advertised(sessions')
<1> USE TypeFacts
<1>0. /\ {"Create", "Update", "Destroy"} \subseteq Delegates
      /\ TRUE \in BOOLEAN /\ FALSE \in BOOLEAN
  BY DEF Delegates
<1>1. ASSUME NEW i \in Ids, CreateSession_ResponseReceived(i)
      PROVE  FALSE
  <2>1. PICK reply : CreateSucceeds(reply) \/ CreateFails(reply) \/ Unparsable(reply)
    BY <1>1 DEF CreateSession_ResponseReceived
  <2>2. ~CreateSucceeds(reply)
    BY DEF CreateSucceeds, Nothing
  <2>3. ~CreateFails(reply)
    BY DEF CreateFails, Nothing
  <2> QED BY <2>1, <2>2, <2>3 DEF Unparsable, Quiet, InStep
<1>2. ASSUME NEW i \in Ids, UpdateSession_ResponseReceived(i)
      PROVE  FALSE
  <2>1. PICK reply : Trigger("Update", createName, reply = "updated") \/ Quiet
    BY <1>2 DEF UpdateSession_ResponseReceived, Unparsable
  <2>2. (reply = "updated") \in BOOLEAN
    OBVIOUS
  <2> QED BY <1>0, <2>1, <2>2, Announced DEF Quiet, InStep
<1>3. ASSUME NEW i \in Ids, DestroySession_ResponseReceived(i)
      PROVE  FALSE
  <2>1. Trigger("Destroy", createName, FALSE) \/ Quiet
    BY <1>3 DEF DestroySession_ResponseReceived
  <2> QED BY <1>0, <2>1, Announced DEF Quiet, InStep
<1>4. ~StartHeartbeat /\ ~PerformHeartbeat
  BY DEF StartHeartbeat, PerformHeartbeat, Quiet, InStep
<1>5. CASE DestroyFailed
  <2>1. createName \in SessionNames
    BY <1>5 DEF DestroyFailed, NameKnown, Nothing
  <2> QED BY <1>5, <2>1, DestroyInStep DEF DestroyFailed
<1> QED BY <1>1, <1>2, <1>3, <1>4, <1>5 DEF Turn, Response

LEMMA GameInStep ==
  ASSUME TypeOK, NoSearch, Game, InStep'
  PROVE  beacon' = "Hosting" <=> Advertised(sessions')
<1>0. /\ {"Start", "Update", "End", "Join"} \subseteq Delegates
      /\ TRUE \in BOOLEAN /\ FALSE \in BOOLEAN
  BY DEF Delegates
<1>1. PICK n \in SessionNames :
        \/ StartSession(n)
        \/ \E settings \in SettingsChoices : UpdateSession(n, settings)
        \/ EndSession(n)
        \/ DestroySession(n)
        \/ \E settings \in SettingsChoices, owner \in {"other", "unset"}, space, valid \in BOOLEAN :
             JoinSession(n, settings, owner, space, valid)
        \/ ChangeSpace(n)
        \/ ChangePlayer(n)
  BY DEF Game
<1>2. CASE EndSession(n)
  <2>1. RefreshBeacon(sessions', "End", n)
    BY <1>0, <1>2, Announced DEF EndSession, InStep
  <2> QED BY <1>0, <2>1, BeaconMoves DEF InStep
<1>3. ~StartSession(n)
  <2>1. StartSession(n) => (\E table : RefreshBeacon(table, "Start", n)) \/ Trigger("Start", n, FALSE)
    BY DEF StartSession
  <2> QED BY <1>0, <2>1, Refreshed, Announced DEF InStep
<1>4. ~ChangeSpace(n) /\ ~ChangePlayer(n) /\ \A settings \in SettingsChoices : ~UpdateSession(n, settings)
  BY DEF ChangeSpace, ChangePlayer, UpdateSession, Quiet, InStep
<1>5. ASSUME NEW settings \in SettingsChoices, NEW owner \in {"other", "unset"},
             NEW space \in BOOLEAN, NEW valid \in BOOLEAN,
             JoinSession(n, settings, owner, space, valid)
      PROVE  FALSE
  <2>1. (~NamedSession(n) /\ valid) \in BOOLEAN
    OBVIOUS
  <2>2. Trigger("Join", n, ~NamedSession(n) /\ valid)
    BY <1>5 DEF JoinSession
  <2> QED BY <1>0, <2>1, <2>2, Announced DEF InStep
<1> QED BY <1>1, <1>2, <1>3, <1>4, <1>5, DestroyInStep DEF DestroySession

LEMMA BeaconStep == SInv /\ NoSearch /\ BeaconInStep /\ [HNext]_hvars => NoSearch' /\ BeaconInStep'
<1> SUFFICES ASSUME SInv, NoSearch, BeaconInStep, [HNext]_hvars
             PROVE  NoSearch' /\ BeaconInStep'
  OBVIOUS
<1> USE DEF SInv, HTypeOK
<1>1. CASE UNCHANGED hvars
  BY <1>1 DEF hvars, vars, NoSearch, BeaconInStep, Live, NeedsToAdvertise, IsHost
<1>2. CASE HNext
  <2>1. NoSearch' /\ UNCHANGED dedicated
    BY <1>2, HNextNext, NoSearchStep DEF HNext
  <2>2. ASSUME InStep', resume' = Nothing
        PROVE  beacon' = "Hosting" <=> Advertised(sessions')
    <3>1. CASE Creates
      BY <2>2, <3>1, CreateInStep, SettingsAssumption DEF Creates
    <3>2. CASE Game
      BY <2>2, <3>2, GameInStep
    <3>3. CASE MasterServer
      BY <2>2, <3>3 DEF MasterServer, Serve, ChangeListing, Quiet, InStep
    <3>4. CASE Turn
      BY <2>2, <3>4, TurnInStep
    <3> QED BY <1>2, <3>1, <3>2, <3>3, <3>4 DEF HNext, Other
  <2>3. BeaconInStep'
    BY <2>1, <2>2, SameAdvertised DEF BeaconInStep, InStep, Nothing
  <2> QED BY <2>1, <2>3
<1> QED BY <1>1, <1>2

\* Whenever the creation of a LAN session, the end of a match or the removal of a
\* session is announced as successful, the beacon is on the air exactly if some
\* session is to be advertised.
THEOREM BeaconAlwaysInStep == HSpec => []BeaconInStep
<1>1. HInit => NoSearch /\ BeaconInStep
  BY DEF HInit, Init, NoSearch, BeaconInStep
<1> QED BY <1>1, SInitInv, SNextInv, BeaconStep, PTL DEF HSpec

-----------------------------------------------------------------------------
(* No match is started twice *)

Playing == Running => \A n \in played : sessions[n] # None /\ sessions[n].state = "InProgress"

NotStart == ~(notified # None /\ notified.event = "Start")

\* Only StartSession announces the start of a match.
LEMMA OnlyStartStarts ==
  ASSUME TypeOK, NameKnown, Next
  PROVE  NotStart' \/ \E n \in SessionNames : StartSession(n)
<1> USE TypeFacts DEF NotStart
<1>0. /\ {"Create", "Start", "Update", "End", "Destroy", "Join"} \subseteq Delegates
      /\ TRUE \in BOOLEAN /\ FALSE \in BOOLEAN
  BY DEF Delegates
<1>1. ASSUME NEW n \in SessionNames, Destroy(n)
      PROVE  NotStart'
  <2>1. \/ \E table : RefreshBeacon(table, "Destroy", n)
        \/ Trigger("Destroy", n, FALSE) \/ Quiet
    BY <1>1 DEF Destroy
  <2> QED BY <1>0, <2>1, Refreshed, Announced DEF Quiet
<1>2. CASE Creates
  <2>1. PICK n \in SessionNames, settings \in SettingsChoices : CreateSession(n, settings)
    BY <1>2 DEF Creates
  <2>2. \/ \E table : RefreshBeacon(table, "Create", n)
        \/ Trigger("Create", n, FALSE) \/ Quiet
    BY <2>1 DEF CreateSession, CreateExisting, CreateLAN, CreateInternet
  <2> QED BY <1>0, <2>2, Refreshed, Announced DEF Quiet
<1>3. CASE Game
  <2>1. PICK n \in SessionNames :
          \/ StartSession(n)
          \/ \E settings \in SettingsChoices : UpdateSession(n, settings)
          \/ EndSession(n)
          \/ DestroySession(n)
          \/ \E settings \in SettingsChoices, owner \in {"other", "unset"}, space, valid \in BOOLEAN :
               JoinSession(n, settings, owner, space, valid)
          \/ ChangeSpace(n)
          \/ ChangePlayer(n)
    BY <1>3 DEF Game
  <2>2. CASE EndSession(n)
    <3>1. (\E table : RefreshBeacon(table, "End", n)) \/ Trigger("End", n, FALSE)
      BY <2>2 DEF EndSession
    <3> QED BY <1>0, <3>1, Refreshed, Announced
  <2>3. ASSUME NEW settings \in SettingsChoices, NEW owner \in {"other", "unset"},
               NEW space \in BOOLEAN, NEW valid \in BOOLEAN,
               JoinSession(n, settings, owner, space, valid)
        PROVE  NotStart'
    <3>1. (~NamedSession(n) /\ valid) \in BOOLEAN
      OBVIOUS
    <3>2. Trigger("Join", n, ~NamedSession(n) /\ valid)
      BY <2>3 DEF JoinSession
    <3> QED BY <1>0, <3>1, <3>2, Announced
  <2>4. CASE ChangeSpace(n) \/ ChangePlayer(n) \/ \E settings \in SettingsChoices : UpdateSession(n, settings)
    BY <2>4 DEF ChangeSpace, ChangePlayer, UpdateSession, Quiet
  <2> QED BY <1>1, <2>1, <2>2, <2>3, <2>4 DEF DestroySession
<1>4. CASE MasterServer \/ StartHeartbeat \/ PerformHeartbeat
  BY <1>4 DEF MasterServer, Serve, ChangeListing, StartHeartbeat, PerformHeartbeat, Quiet
<1>5. CASE DestroyFailed
  <2>1. createName \in SessionNames
    BY <1>5 DEF DestroyFailed, NameKnown, Nothing
  <2> QED BY <1>1, <1>5, <2>1 DEF DestroyFailed
<1>6. ASSUME NEW i \in Ids, Response(i)
      PROVE  NotStart'
  <2>1. \/ \E ok \in BOOLEAN : \/ Trigger("Create", createName, ok)
                               \/ Trigger("Update", createName, ok)
                               \/ Trigger("Destroy", createName, ok)
        \/ Quiet
    <3>1. \A reply : (reply = "updated") \in BOOLEAN
      OBVIOUS
    <3> QED BY <1>0, <1>6, <3>1 DEF Response, CreateSession_ResponseReceived, CreateSucceeds,
               CreateFails, Unparsable, UpdateSession_ResponseReceived,
               DestroySession_ResponseReceived
  <2> QED BY <1>0, <2>1, Announced DEF Quiet
<1> QED BY <1>2, <1>3, <1>4, <1>5, <1>6 DEF Next, Other, Turn

\* What a step makes of a session whose match goes on.
LEMMA PlaysOn ==
  ASSUME TypeOK, NameKnown, Next, Running', NEW n \in SessionNames,
         sessions[n] # None, sessions[n].state = "InProgress",
         sessions'[n] # None, ~EndAnswered(n)', ~Announces("Create", n)'
  PROVE  sessions'[n].state = "InProgress"
<1> USE TypeFacts
<1>0. /\ sessions \in [SessionNames -> Session \cup {None}] /\ sessions[n] \in Session
      /\ "Create" \in Delegates /\ "End" \in Delegates /\ TRUE \in BOOLEAN /\ FALSE \in BOOLEAN
      /\ crashed' # "owner"
  BY NoneAssumption DEF SessionsType, Delegates, Running, Places
<1>1. ASSUME NEW m \in SessionNames, Destroy(m)
      PROVE  sessions'[n].state = "InProgress"
  BY <1>0, <1>1 DEF Destroy, Without
<1>2. CASE Creates
  <2>1. PICK m \in SessionNames, settings \in SettingsChoices : CreateSession(m, settings)
    BY <1>2 DEF Creates
  <2>2. CASE CreateExisting(m)
    BY <2>2 DEF CreateExisting
  <2>3. CASE CreateLAN(m, settings)
    BY <1>0, <2>3 DEF CreateLAN, NamedSession, Without
  <2>4. CASE CreateInternet(m, settings)
    BY <1>0, <2>4 DEF CreateInternet, NamedSession
  <2> QED BY <2>1, <2>2, <2>3, <2>4 DEF CreateSession
<1>3. CASE Game
  <2>1. PICK m \in SessionNames :
          \/ StartSession(m)
          \/ \E settings \in SettingsChoices : UpdateSession(m, settings)
          \/ EndSession(m)
          \/ DestroySession(m)
          \/ \E settings \in SettingsChoices, owner \in {"other", "unset"}, space, valid \in BOOLEAN :
               JoinSession(m, settings, owner, space, valid)
          \/ ChangeSpace(m)
          \/ ChangePlayer(m)
    BY <1>3 DEF Game
  <2>2. CASE StartSession(m)
    <3>1. sessions' = sessions \/ sessions' = WithState(m, "InProgress")
      BY <2>2 DEF StartSession
    <3> QED BY <1>0, <3>1 DEF WithState, Session
  <2>3. CASE EndSession(m)
    <3>1. CASE m = n
      <4>1. RefreshBeacon(sessions', "End", n)
        BY <2>3, <3>1 DEF EndSession, NamedSession
      <4> QED BY <1>0, <4>1, Refreshed DEF EndAnswered
    <3>2. CASE m # n
      BY <1>0, <2>3, <3>2 DEF EndSession, WithState
    <3> QED BY <3>1, <3>2
  <2>4. ASSUME NEW settings \in SettingsChoices, UpdateSession(m, settings)
        PROVE  sessions'[n].state = "InProgress"
    BY <1>0, <2>4 DEF UpdateSession, Session
  <2>5. CASE ChangeSpace(m) \/ ChangePlayer(m)
    BY <1>0, <2>5 DEF ChangeSpace, ChangePlayer, Session
  <2>6. ASSUME NEW settings, NEW owner, NEW space, NEW valid,
               JoinSession(m, settings, owner, space, valid)
        PROVE  sessions'[n].state = "InProgress"
    BY <1>0, <2>6 DEF JoinSession, NamedSession
  <2> QED BY <1>1, <2>1, <2>2, <2>3, <2>4, <2>5, <2>6 DEF DestroySession
<1>4. CASE MasterServer \/ StartHeartbeat \/ PerformHeartbeat
  BY <1>4 DEF MasterServer, Serve, ChangeListing, StartHeartbeat, PerformHeartbeat
<1>5. CASE DestroyFailed
  <2>1. createName \in SessionNames
    BY <1>5 DEF DestroyFailed, NameKnown, Nothing
  <2> QED BY <1>1, <1>5, <2>1 DEF DestroyFailed
<1>6. ASSUME NEW i \in Ids, Response(i)
      PROVE  sessions'[n].state = "InProgress"
  <2>1. \/ sessions' = sessions
        \/ sessions' = WithState(createName, "Pending") /\ Trigger("Create", createName, TRUE)
    BY <1>6 DEF Response, CreateSession_ResponseReceived, CreateSucceeds, CreateFails,
                Unparsable, UpdateSession_ResponseReceived, DestroySession_ResponseReceived
  <2>2. ~Trigger("Create", n, TRUE)
    BY <1>0, Announced DEF Announces
  <2> QED BY <1>0, <2>1, <2>2 DEF WithState
<1> QED BY <1>2, <1>3, <1>4, <1>5, <1>6 DEF Next, Other, Turn

LEMMA PlayingStep == SInv /\ Playing /\ [HNext]_hvars => Playing'
<1> SUFFICES ASSUME SInv, Playing, [HNext]_hvars, Running', NEW n \in played'
             PROVE  sessions'[n] # None /\ sessions'[n].state = "InProgress"
  BY DEF Playing
<1> USE DEF SInv, HTypeOK
<1>1. CASE UNCHANGED hvars
  BY <1>1 DEF hvars, vars, Playing, Running
<1>2. CASE HNext
  <2>1. /\ n \in SessionNames /\ sessions'[n] # None
        /\ ~EndAnswered(n)' /\ ~Announces("Create", n)'
        /\ n \in played \/ Announces("Start", n)'
    BY <1>2 DEF HNext, Play
  <2>2. CASE n \in played
    BY <1>2, <2>1, <2>2, HNextNext, HNextStep, StaysCrashed, PlaysOn DEF Playing
  <2>3. CASE n \notin played
    <3>1. PICK m \in SessionNames : StartSession(m)
      BY <1>2, <2>1, <2>3, HNextNext, OnlyStartStarts DEF NotStart, Announces
    <3>2. Announces("Start", n)'
      BY <2>1, <2>3
    <3>3. "Start" \in Delegates /\ FALSE \in BOOLEAN
      BY DEF Delegates
    <3>4. NamedSession(m) /\ RefreshBeacon(sessions, "Start", m)
      BY <3>1, <3>2, <3>3, Announced DEF StartSession, Announces
    <3>5. m = n
      BY <3>2, <3>3, <3>4, Refreshed DEF Announces
    <3>6. sessions' = WithState(n, "InProgress")
      BY <3>1, <3>2, <3>3, <3>5, Announced DEF StartSession, Announces, Running
    <3>7. sessions \in [SessionNames -> Session \cup {None}] /\ sessions[n] \in Session
      BY <2>1, <3>4, <3>5 DEF NamedSession, TypeOK
    <3>8. sessions'[n] = [sessions[n] EXCEPT !.state = "InProgress"]
      BY <2>1, <3>6, <3>7 DEF WithState
    <3> QED BY <2>1, <3>7, <3>8 DEF Session
  <2> QED BY <2>2, <2>3
<1> QED BY <1>1, <1>2

LEMMA StartStep ==
  SInv /\ Playing /\ [HNext]_hvars =>
    [\A n \in SessionNames : Announces("Start", n)' /\ sessions[n] # None => n \notin played]_hvars
<1> SUFFICES ASSUME SInv, Playing, HNext, NEW n \in SessionNames, Announces("Start", n)',
                    n \in played
             PROVE  FALSE
  OBVIOUS
<1> USE DEF SInv, HTypeOK
<1>1. PICK m \in SessionNames : StartSession(m)
  BY HNextNext, OnlyStartStarts DEF NotStart, Announces
<1>2. "Start" \in Delegates /\ FALSE \in BOOLEAN /\ TRUE \in BOOLEAN
  BY DEF Delegates
<1>3. Running /\ sessions[m].state \in Startable /\ RefreshBeacon(sessions, "Start", m)
  BY <1>1, <1>2, Announced DEF StartSession, Called, Announces
<1>4. m = n
  BY <1>2, <1>3, Refreshed DEF Announces
<1> QED BY <1>3, <1>4 DEF Playing, Startable

\* A match that was started is not started again unless it has ended or a late answer
\* to a creation has put its session back to Pending.
THEOREM AlwaysStartedOnce == HSpec => StartedOnce
<1>1. HInit => Playing
  BY DEF HInit, Init, Playing
<1> QED BY <1>1, SInitInv, SNextInv, PlayingStep, StartStep, PTL DEF HSpec, StartedOnce

-----------------------------------------------------------------------------
(* The last creation does not get stuck *)

\* The session created last is being created.
LastCreating == /\ createName # None /\ NamedSession(createName)
                /\ sessions[createName].state = "Creating"
Expected     == Registering # {} \/ resume.todo = "destroy"

\* When the last session is being created after a step, it was before, or the step
\* sent its registration.
LEMMA CreatingBefore ==
  ASSUME TypeOK, NameKnown, Creates \/ Game, UNCHANGED dedicated, Running', LastCreating'
  PROVE  \/ Registering' # {}
         \/ LastCreating /\ Registering' = Registering /\ UNCHANGED resume
<1> USE TypeFacts
<1>3. TypeOK'
  BY NextStep, StepType DEF Next, Other
<1>0. /\ sessions \in [SessionNames -> Session \cup {None}]
      /\ sessions' \in [SessionNames -> Session \cup {None}]
      /\ "Create" \in Delegates /\ "End" \in Delegates /\ crashed' # "owner"
  BY <1>3, NoneAssumption DEF TypeOK, Delegates, Running, Places
<1>1. CASE Creates
  <2>1. PICK n \in SessionNames, settings \in SettingsChoices : CreateSession(n, settings)
    BY <1>1 DEF Creates
  <2>2. CASE CreateExisting(n)
    BY <2>2 DEF CreateExisting, LastCreating, NamedSession, Registering
  <2>3. CASE CreateLAN(n, settings)
    <3>1. RefreshBeacon([sessions EXCEPT ![n] = NewSession(settings)], "Create", n)
      BY <2>3 DEF CreateLAN
    <3>2. notified' # None
      BY <1>0, <3>1, Refreshed
    <3>3. NewSession(settings) \in Session
      BY SessionsTypes, SettingsAssumption
    <3>4. sessions'[n] = [NewSession(settings) EXCEPT !.state = "Pending"] \/ sessions'[n] = None
      BY <1>0, <2>3, <3>2, <3>3 DEF CreateLAN, Without
    <3>5. sessions'[n] # None => sessions'[n].state = "Pending"
      BY <3>4 DEF NewSession
    <3> QED BY <2>3, <3>5 DEF CreateLAN, LastCreating, NamedSession
  <2>4. CASE CreateInternet(n, settings)
    <3>1. PICK i \in Ids :
            /\ http[i] = None
            /\ http' = [http EXCEPT ![i] = [op |-> "register", reply |-> "pending"]]
      BY <2>4 DEF CreateInternet, Send
    <3>2. Registering' = Registering \cup {i}
      BY <3>1, SendMoves
    <3> QED BY <3>2
  <2> QED BY <2>1, <2>2, <2>3, <2>4 DEF CreateSession
<1>2. CASE Game
  <2>1. Registering' = Registering
    <3>1. UNCHANGED http \/ Send("update") \/ Send("unregister")
      BY <1>2 DEF Game, StartSession, UpdateSession, EndSession, DestroySession, Destroy,
                  JoinSession, ChangeSpace, ChangePlayer
    <3> QED BY <3>1, SendMoves DEF Send, Registering
  <2>2. UNCHANGED <<createName, resume>>
    BY <1>2 DEF Game, StartSession, UpdateSession, EndSession, DestroySession, Destroy,
                JoinSession, ChangeSpace, ChangePlayer
  <2>3. createName \in SessionNames
    BY <2>2 DEF LastCreating, TypeOK
  <2>4. PICK m \in SessionNames :
          \/ StartSession(m)
          \/ \E settings \in SettingsChoices : UpdateSession(m, settings)
          \/ EndSession(m)
          \/ DestroySession(m)
          \/ \E settings \in SettingsChoices, owner \in {"other", "unset"}, space, valid \in BOOLEAN :
               JoinSession(m, settings, owner, space, valid)
          \/ ChangeSpace(m)
          \/ ChangePlayer(m)
    BY <1>2 DEF Game
  <2>5. ASSUME m # createName
        PROVE  sessions'[createName] = sessions[createName]
    BY <1>0, <2>3, <2>4, <2>5 DEF StartSession, UpdateSession, EndSession, DestroySession,
              Destroy, JoinSession, ChangeSpace, ChangePlayer, WithState, Without
  <2>6. ASSUME m = createName
        PROVE  sessions[m] # None /\ sessions[m].state = "Creating"
    <3>1. sessions'[m] # None /\ sessions'[m].state = "Creating"
      BY <2>2, <2>6 DEF LastCreating, NamedSession
    <3>2. sessions[m] \in Session \cup {None}
      BY <1>0
    <3>3. CASE StartSession(m) \/ EndSession(m)
      <4>1. sessions' = sessions \/ sessions' = WithState(m, "InProgress")
              \/ sessions' = WithState(m, "Ended")
        BY <3>3 DEF StartSession, EndSession
      <4>2. ASSUME NEW state, sessions' = WithState(m, state), sessions[m] \in Session
            PROVE  sessions'[m].state = state
        BY <1>0, <4>2 DEF WithState, Session
      <4>3. sessions' = sessions \/ sessions[m] \in Session
        BY <3>2, <3>3 DEF StartSession, EndSession, NamedSession
      <4> QED BY <3>1, <4>1, <4>2, <4>3
    <3>4. ASSUME NEW settings \in SettingsChoices, UpdateSession(m, settings)
          PROVE  sessions[m] # None /\ sessions[m].state = "Creating"
      BY <1>0, <3>1, <3>2, <3>4 DEF UpdateSession, NamedSession, Session
    <3>5. CASE DestroySession(m)
      BY <1>0, <3>1, <3>5 DEF DestroySession, Destroy, Without
    <3>6. ASSUME NEW settings, NEW owner, NEW space, NEW valid,
                 JoinSession(m, settings, owner, space, valid)
          PROVE  sessions[m] # None /\ sessions[m].state = "Creating"
      BY <1>0, <3>1, <3>6 DEF JoinSession
    <3>7. CASE ChangeSpace(m) \/ ChangePlayer(m)
      BY <1>0, <3>1, <3>2, <3>7 DEF ChangeSpace, ChangePlayer, NamedSession, Session
    <3> QED BY <2>4, <3>3, <3>4, <3>5, <3>6, <3>7
  <2> QED BY <2>1, <2>2, <2>5, <2>6 DEF LastCreating, NamedSession
<1> QED BY <1>1, <1>2

LEMMA NotStuckStep ==
  ASSUME ~FaultyServer, TRUE \notin Modes
  PROVE  SInv /\ LastNotStuck /\ [HNext]_hvars => LastNotStuck'
<1> SUFFICES ASSUME SInv, LastNotStuck, [HNext]_hvars, Running', LastCreating'
             PROVE  Expected'
  BY DEF LastNotStuck, LastCreating, Expected, Registering
<1> USE TypeFacts DEF SInv, HTypeOK
<1>0. Running /\ LastCreating => Expected
  BY DEF LastNotStuck, LastCreating, Expected, Registering
<1>1. CASE UNCHANGED hvars
  BY <1>0, <1>1 DEF hvars, vars, LastCreating, Expected, Registering, Running, NamedSession
<1>2. CASE HNext
  <2>0. Running /\ UNCHANGED dedicated /\ ~dedicated
    BY <1>2, HNextStep, StaysCrashed DEF HNext
  <2>1. CASE Creates \/ Game
    BY <1>0, <2>0, <2>1, CreatingBefore DEF Expected
  <2>2. CASE MasterServer
    <3>1. UNCHANGED <<sessions, createName, resume>>
      BY <2>2 DEF MasterServer, Serve, ChangeListing
    <3>2. Registering' = Registering
      BY <2>2, ServedStays DEF MasterServer, ChangeListing, Registering
    <3> QED BY <1>0, <2>0, <3>1, <3>2 DEF LastCreating, Expected, NamedSession
  <2>3. ASSUME NEW i \in Ids, CreateSession_ResponseReceived(i)
        PROVE  Expected'
    <3>1. PICK reply \in Outcomes(i) :
            CreateSucceeds(reply) \/ CreateFails(reply) \/ Unparsable(reply)
      BY <2>3 DEF CreateSession_ResponseReceived
    <3>2. UNCHANGED createName /\ Completes(i, "register")
      BY <2>3 DEF CreateSession_ResponseReceived
    <3>3. CASE CreateSucceeds(reply)
      <4>1. createName \in SessionNames
        BY <3>2 DEF Completes, NameKnown, Registering
      <4>2. sessions[createName] \in Session \cup {None}
        BY <4>1 DEF SessionsType
      <4>3. CASE NamedSession(createName)
        <5>1. sessions' = WithState(createName, "Pending") /\ sessions[createName] \in Session
          BY <3>3, <4>2, <4>3 DEF CreateSucceeds, NamedSession
        <5>2. sessions'[createName].state = "Pending"
          BY <4>1, <5>1 DEF SessionsType, WithState, Session
        <5> QED BY <3>2, <5>2 DEF LastCreating
      <4>4. CASE ~NamedSession(createName)
        BY <3>2, <3>3, <4>4 DEF CreateSucceeds, LastCreating, NamedSession
      <4> QED BY <4>3, <4>4
    <3>4. CASE CreateFails(reply)
      BY <3>4 DEF CreateFails, Expected
    <3>5. ~Unparsable(reply)
      <4>1. http[i] # None /\ http[i].op = "register"
        BY <3>2 DEF Completes
      <4>2. http[i].reply \notin {"http500", "empty"}
        BY <4>1 DEF Replies
      <4> QED BY <4>2 DEF Unparsable, Outcomes
    <3> QED BY <3>1, <3>3, <3>4, <3>5
  <2>4. ASSUME NEW i \in Ids,
               UpdateSession_ResponseReceived(i) \/ DestroySession_ResponseReceived(i)
        PROVE  Expected'
    <3>1. UNCHANGED <<sessions, createName, resume>>
      BY <2>4 DEF UpdateSession_ResponseReceived, DestroySession_ResponseReceived
    <3>2. Registering' = Registering
      <4>1. PICK op \in {"update", "unregister"} : Completes(i, op)
        BY <2>4 DEF UpdateSession_ResponseReceived, DestroySession_ResponseReceived
      <4>2. op # "register" => Registering' = Registering
        BY <4>1, CompletesMoves
      <4> QED BY <4>2
    <3> QED BY <1>0, <2>0, <3>1, <3>2 DEF LastCreating, Expected, NamedSession
  <2>5. CASE StartHeartbeat
    <3>1. UNCHANGED <<sessions, createName, http>> /\ resume.todo # "destroy"
      BY <2>5 DEF StartHeartbeat
    <3> QED BY <1>0, <2>0, <3>1 DEF LastCreating, Expected, NamedSession, Registering
  <2>6. CASE DestroyFailed
    <3>1. createName \in SessionNames
      BY <2>6 DEF DestroyFailed, NameKnown, Nothing
    <3>2. UNCHANGED createName
      BY <2>6 DEF DestroyFailed, Destroy
    <3>3. sessions'[createName] = None
      BY <2>0, <2>6, <3>1 DEF DestroyFailed, Destroy, NamedSession, Without, SessionsType
    <3> QED BY <3>2, <3>3 DEF LastCreating, NamedSession
  <2>7. CASE PerformHeartbeat
    <3>1. UNCHANGED <<sessions, createName, http, resume>>
      BY <2>7 DEF PerformHeartbeat
    <3> QED BY <1>0, <2>0, <3>1 DEF LastCreating, Expected, NamedSession, Registering
  <2> QED BY <1>2, <2>1, <2>2, <2>3, <2>4, <2>5, <2>6, <2>7 DEF HNext, Other, Turn, Response
<1> QED BY <1>1, <1>2

\* In a client, and with a master server that sends no error page, the session created
\* last is being created only as long as its answer or its removal is due.
THEOREM LastNeverStuck ==
  ASSUME ~FaultyServer, TRUE \notin Modes
  PROVE  HSpec => []LastNotStuck
<1>1. HInit => LastNotStuck
  BY DEF HInit, Init, LastNotStuck
<1> QED BY <1>1, SInitInv, SNextInv, NotStuckStep, PTL DEF HSpec
=============================================================================
