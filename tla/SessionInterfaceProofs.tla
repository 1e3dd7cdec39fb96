----------------------- MODULE SessionInterfaceProofs -----------------------
(***************************************************************************)
(* The steps of the session interface, for any number of sessions, any     *)
(* settings and any number of requests to the master server: what the      *)
(* proofs about the named sessions, about the search and about the nodes   *)
(* rest on.                                                                *)
(***************************************************************************)
EXTENDS SessionInterface, FiniteSetTheorems, TLAPS

-----------------------------------------------------------------------------
(* Sessions, requests and broadcasts keep their types *)

SessionsType == sessions \in [SessionNames -> Session \cup {None}]
HttpType     == http \in [Ids -> Request \cup {None}]
NotifiedType == notified \in Notification \cup {None}

\* What RefreshBeacon decides.
BeaconType == /\ beacon \in {"NotUsingLanBeacon", "Hosting", "Searching"}
              /\ NotifiedType
              /\ crashed \in Places \cup {None}

LEMMA TriggerType ==
  ASSUME NEW event \in Delegates, NEW name \in SessionNames \cup {None}, NEW ok \in BOOLEAN,
         Trigger(event, name, ok)
  PROVE  NotifiedType'
<1>1. [event |-> event, name |-> name, ok |-> ok] \in Notification
  BY DEF Notification, Delegates
<1> QED BY <1>1 DEF Trigger, NotifiedType

LEMMA QuietType == Quiet => NotifiedType'
  BY DEF Quiet, NotifiedType

LEMMA RefreshType ==
  ASSUME TypeOK, NEW table, NEW event \in Delegates, NEW name \in SessionNames \cup {None},
         RefreshBeacon(table, event, name)
  PROVE  BeaconType'
<1>1. CASE DereferencesUnset(table)
  BY <1>1, QuietType DEF RefreshBeacon, TypeOK, BeaconType, Places
<1>2. CASE ~DereferencesUnset(table)
  <2>1. PICK r \in UpdateLANStatus(table) : /\ beacon' = r.beacon
                                            /\ Trigger(event, name, r.ok)
                                            /\ UNCHANGED crashed
    BY <1>2 DEF RefreshBeacon
  <2>2. r.beacon \in {"NotUsingLanBeacon", "Hosting", "Searching"} /\ r.ok \in BOOLEAN
    <3>1. beacon \in {"NotUsingLanBeacon", "Hosting", "Searching"}
      BY DEF TypeOK
    <3>2. \/ r = [beacon |-> "Hosting", ok |-> TRUE]
          \/ r = [beacon |-> "NotUsingLanBeacon", ok |-> FALSE]
          \/ r = [beacon |-> "NotUsingLanBeacon", ok |-> TRUE]
          \/ r = [beacon |-> beacon, ok |-> TRUE]
      BY <2>1 DEF UpdateLANStatus
    <3>3. CASE r = [beacon |-> "Hosting", ok |-> TRUE]
      BY <3>3
    <3>4. CASE r = [beacon |-> "NotUsingLanBeacon", ok |-> FALSE]
      BY <3>4
    <3>5. CASE r = [beacon |-> "NotUsingLanBeacon", ok |-> TRUE]
      BY <3>5
    <3>6. CASE r = [beacon |-> beacon, ok |-> TRUE]
      BY <3>1, <3>6
    <3> QED BY <3>2, <3>3, <3>4, <3>5, <3>6
  <2>3. NotifiedType'
    BY <2>1, <2>2, TriggerType
  <2> QED BY <2>1, <2>2, <2>3 DEF BeaconType, TypeOK
<1> QED BY <1>1, <1>2

LEMMA SessionsTypes ==
  ASSUME SessionsType, NEW n \in SessionNames
  PROVE  /\ \A s \in Session \cup {None} :
              [sessions EXCEPT ![n] = s] \in [SessionNames -> Session \cup {None}]
         /\ Without(n) \in [SessionNames -> Session \cup {None}]
         /\ \A state \in States : NamedSession(n) =>
              WithState(n, state) \in [SessionNames -> Session \cup {None}]
         /\ \A settings \in Settings :
              /\ NewSession(settings) \in Session
              /\ NamedSession(n) => [sessions EXCEPT ![n].settings = settings]
                                      \in [SessionNames -> Session \cup {None}]
         /\ NamedSession(n) => [sessions EXCEPT ![n].space = ~@]
                                 \in [SessionNames -> Session \cup {None}]
         /\ \A owner \in {"self", "gone"} :
              NamedSession(n) => [sessions EXCEPT ![n].owner = owner]
                                   \in [SessionNames -> Session \cup {None}]
<1>1. sessions \in [SessionNames -> Session \cup {None}]
  BY DEF SessionsType
<1>2. NamedSession(n) => sessions[n] \in Session
  BY <1>1 DEF NamedSession
<1>3. \A s \in Session \cup {None} :
        [sessions EXCEPT ![n] = s] \in [SessionNames -> Session \cup {None}]
  BY <1>1
<1>4. ASSUME NEW state \in States, NamedSession(n)
      PROVE  WithState(n, state) \in [SessionNames -> Session \cup {None}]
  <2>1. [sessions[n] EXCEPT !.state = state] \in Session
    BY <1>2, <1>4 DEF Session
  <2> QED BY <1>3, <2>1 DEF WithState
<1>5. ASSUME NEW settings \in Settings
      PROVE  NewSession(settings) \in Session
  BY DEF NewSession, Session, States
<1>6. ASSUME NEW settings \in Settings, NamedSession(n)
      PROVE  [sessions EXCEPT ![n].settings = settings] \in [SessionNames -> Session \cup {None}]
  <2>1. [sessions[n] EXCEPT !.settings = settings] \in Session
    BY <1>2, <1>6 DEF Session
  <2> QED BY <1>3, <2>1
<1>7. ASSUME NamedSession(n)
      PROVE  [sessions EXCEPT ![n].space = ~@] \in [SessionNames -> Session \cup {None}]
  <2>1. [sessions[n] EXCEPT !.space = ~@] \in Session
    BY <1>2, <1>7 DEF Session
  <2> QED BY <1>3, <2>1
<1>8. ASSUME NEW owner \in {"self", "gone"}, NamedSession(n)
      PROVE  [sessions EXCEPT ![n].owner = owner] \in [SessionNames -> Session \cup {None}]
  <2>1. [sessions[n] EXCEPT !.owner = owner] \in Session
    BY <1>2, <1>8 DEF Session
  <2> QED BY <1>3, <2>1
<1> QED BY <1>3, <1>4, <1>5, <1>6, <1>7, <1>8 DEF Without

LEMMA SendType ==
  ASSUME HttpType, NEW op \in {"register", "update", "unregister"}, Send(op)
  PROVE  HttpType'
<1>1. [op |-> op, reply |-> "pending"] \in Request
  BY DEF Request
<1> QED BY <1>1 DEF Send, HttpType

\* What the steps of the interface have to show for the types to be right after them.
LEMMA TypeParts ==
  ASSUME SessionsType', HttpType', BeaconType', UNCHANGED dedicated, dedicated \in Modes,
         createName' \in SessionNames \cup {None}, timer' \in Intervals \cup {0},
         resume' \in Resumes, listed' \in BOOLEAN
  PROVE  TypeOK'
  BY DEF SessionsType, HttpType, BeaconType, NotifiedType, TypeOK

LEMMA TypeFacts ==
  ASSUME TypeOK
  PROVE  /\ SessionsType /\ HttpType /\ BeaconType /\ dedicated \in Modes
         /\ createName \in SessionNames \cup {None} /\ timer \in Intervals \cup {0}
         /\ resume \in Resumes /\ listed \in BOOLEAN
  BY DEF SessionsType, HttpType, BeaconType, NotifiedType, TypeOK

\* CreateSession.
LEMMA CreateType ==
  ASSUME TypeOK, NEW n \in SessionNames, NEW settings \in Settings,
         CreateSession(n, settings), UNCHANGED dedicated
  PROVE  TypeOK'
<1> USE TypeFacts
<1>0. TRUE \in BOOLEAN /\ FALSE \in BOOLEAN /\ "Create" \in Delegates
  BY DEF Delegates
<1>1. CASE CreateExisting(n)
  <2>1. NotifiedType'
    BY <1>0, <1>1, TriggerType DEF CreateExisting
  <2>2. UNCHANGED <<sessions, createName, beacon, http, timer, resume, listed, crashed>>
    BY <1>1 DEF CreateExisting
  <2>3. BeaconType'
    BY <2>1, <2>2 DEF BeaconType
  <2> QED BY <2>2, <2>3, TypeParts DEF SessionsType, HttpType
<1>2. CASE CreateLAN(n, settings)
  <2>1. /\ createName' = n /\ UNCHANGED <<http, timer, resume, listed>>
        /\ RefreshBeacon([sessions EXCEPT ![n] = NewSession(settings)], "Create", n)
        /\ \/ sessions' = [[sessions EXCEPT ![n] = NewSession(settings)]
                             EXCEPT ![n].state = "Pending"]
           \/ sessions' = Without(n)
           \/ sessions' = [sessions EXCEPT ![n] = NewSession(settings)]
    BY <1>2 DEF CreateLAN
  <2>2. BeaconType'
    BY <1>0, <2>1, RefreshType
  <2>3. NewSession(settings) \in Session
    BY SessionsTypes
  <2>4. [NewSession(settings) EXCEPT !.state = "Pending"] \in Session
    BY <2>3 DEF Session, States
  <2>5. [[sessions EXCEPT ![n] = NewSession(settings)] EXCEPT ![n].state = "Pending"]
          = [sessions EXCEPT ![n] = [NewSession(settings) EXCEPT !.state = "Pending"]]
    BY DEF SessionsType
  <2>6. \A s \in Session : [sessions EXCEPT ![n] = s] \in [SessionNames -> Session \cup {None}]
    BY SessionsTypes
  <2>7. Without(n) \in [SessionNames -> Session \cup {None}]
    BY SessionsTypes
  <2>8. SessionsType'
    BY <2>1, <2>3, <2>4, <2>5, <2>6, <2>7 DEF SessionsType
  <2> QED BY <2>1, <2>2, <2>8, TypeParts DEF HttpType
<1>3. CASE CreateInternet(n, settings)
  <2>1. /\ createName' = n /\ UNCHANGED <<beacon, timer, resume, listed, crashed>>
        /\ sessions' = [sessions EXCEPT ![n] = NewSession(settings)]
        /\ Send("register") /\ Quiet
    BY <1>3 DEF CreateInternet
  <2>2. SessionsType' /\ HttpType' /\ NotifiedType'
    BY <2>1, SessionsTypes, SendType, QuietType DEF SessionsType
  <2> QED BY <2>1, <2>2, TypeParts DEF BeaconType
<1> QED BY <1>1, <1>2, <1>3 DEF CreateSession

\* StartSession and EndSession.
LEMMA MatchType ==
  ASSUME TypeOK, NEW n \in SessionNames, StartSession(n) \/ EndSession(n), UNCHANGED dedicated
  PROVE  TypeOK'
<1> USE TypeFacts
<1>0. FALSE \in BOOLEAN /\ "Start" \in Delegates /\ "End" \in Delegates
  BY DEF Delegates
<1>1. UNCHANGED <<createName, http, timer, resume, listed>>
  BY DEF StartSession, EndSession
<1>2. \/ sessions' = sessions
      \/ NamedSession(n) /\ \E state \in States : sessions' = WithState(n, state)
  BY DEF StartSession, EndSession, States
<1>3. \/ \E table : RefreshBeacon(table, "Start", n) \/ RefreshBeacon(table, "End", n)
      \/ /\ Trigger("Start", n, FALSE) \/ Trigger("End", n, FALSE)
         /\ UNCHANGED <<beacon, crashed>>
  BY DEF StartSession, EndSession
<1>4. BeaconType'
  BY <1>0, <1>3, RefreshType, TriggerType DEF BeaconType
<1>5. \A state \in States : NamedSession(n) =>
        WithState(n, state) \in [SessionNames -> Session \cup {None}]
  BY SessionsTypes
<1>6. SessionsType'
  BY <1>2, <1>5 DEF SessionsType
<1> QED BY <1>1, <1>4, <1>6, TypeParts DEF HttpType

\* DestroySession, and the handler of a refused registration.
LEMMA DestroyType ==
  ASSUME TypeOK, NEW n \in SessionNames, Destroy(n), resume' \in Resumes, UNCHANGED dedicated
  PROVE  TypeOK'
<1> USE TypeFacts
<1>0. FALSE \in BOOLEAN /\ "Destroy" \in Delegates
  BY DEF Delegates
<1>1. UNCHANGED <<createName, timer, listed>>
  BY DEF Destroy
<1>2. SessionsType'
  BY SessionsTypes DEF SessionsType, Destroy
<1>3. HttpType'
  BY SendType DEF HttpType, Destroy
<1>4. \/ \E table : RefreshBeacon(table, "Destroy", n)
      \/ (Trigger("Destroy", n, FALSE) \/ Quiet) /\ UNCHANGED <<beacon, crashed>>
  BY DEF Destroy
<1>5. BeaconType'
  BY <1>0, <1>4, RefreshType, TriggerType, QuietType DEF BeaconType
<1> QED BY <1>1, <1>2, <1>3, <1>5, TypeParts

\* The other calls of the game.
LEMMA CallType ==
  ASSUME TypeOK, NEW n \in SessionNames, UNCHANGED dedicated,
         \/ \E settings \in Settings : UpdateSession(n, settings)
         \/ \E settings \in Settings, owner \in {"other", "unset"}, space, valid \in BOOLEAN :
              JoinSession(n, settings, owner, space, valid)
         \/ ChangeSpace(n)
         \/ ChangePlayer(n)
  PROVE  TypeOK'
<1> USE TypeFacts
<1>0. UNCHANGED <<createName, beacon, timer, resume, listed, crashed>>
  BY DEF UpdateSession, JoinSession, ChangeSpace, ChangePlayer
<1>1. ASSUME NEW settings \in Settings, UpdateSession(n, settings)
      PROVE  SessionsType' /\ HttpType' /\ NotifiedType'
  <2>1. /\ NamedSession(n) /\ sessions' = [sessions EXCEPT ![n].settings = settings]
        /\ Send("update") /\ Quiet
    BY <1>1 DEF UpdateSession
  <2> QED BY <2>1, SessionsTypes, SendType, QuietType DEF SessionsType
<1>2. ASSUME NEW settings \in Settings, NEW owner \in {"other", "unset"},
             NEW space \in BOOLEAN, NEW valid \in BOOLEAN,
             JoinSession(n, settings, owner, space, valid)
      PROVE  SessionsType' /\ HttpType' /\ NotifiedType'
  <2> DEFINE s == [state |-> "Pending", owner |-> owner, space |-> space,
                   settings |-> [settings EXCEPT !.advertise = FALSE]]
  <2>2. [settings EXCEPT !.advertise = FALSE] \in Settings
    BY DEF Settings
  <2>3. s \in Session
    BY <2>2 DEF Session, States
  <2>4. sessions' = [sessions EXCEPT ![n] = s] \/ sessions' = sessions
    BY <1>2 DEF JoinSession
  <2> HIDE DEF s
  <2>5. SessionsType'
    BY <2>3, <2>4, SessionsTypes DEF SessionsType
  <2>6. "Join" \in Delegates /\ (~NamedSession(n) /\ valid) \in BOOLEAN
    BY DEF Delegates
  <2>7. NotifiedType' /\ http' = http
    BY <1>2, <2>6, TriggerType DEF JoinSession
  <2> QED BY <2>5, <2>7 DEF HttpType
<1>3. ASSUME ChangeSpace(n)
      PROVE  SessionsType' /\ HttpType' /\ NotifiedType'
  <2>1. /\ NamedSession(n) /\ sessions' = [sessions EXCEPT ![n].space = ~@]
        /\ UNCHANGED http /\ Quiet
    BY <1>3 DEF ChangeSpace
  <2>2. NamedSession(n) => [sessions EXCEPT ![n].space = ~@]
                             \in [SessionNames -> Session \cup {None}]
    BY SessionsTypes
  <2>3. SessionsType'
    BY <2>1, <2>2 DEF SessionsType
  <2>4. NotifiedType'
    BY <2>1, QuietType
  <2> QED BY <2>1, <2>3, <2>4 DEF HttpType
<1>4. ASSUME ChangePlayer(n)
      PROVE  SessionsType' /\ HttpType' /\ NotifiedType'
  <2>1. /\ NamedSession(n) /\ UNCHANGED http /\ Quiet
        /\ sessions' = [sessions EXCEPT ![n].owner = "gone"]
             \/ sessions' = [sessions EXCEPT ![n].owner = "self"]
    BY <1>4 DEF ChangePlayer
  <2>2. \A owner \in {"self", "gone"} :
          NamedSession(n) => [sessions EXCEPT ![n].owner = owner]
                               \in [SessionNames -> Session \cup {None}]
    BY SessionsTypes
  <2>3. SessionsType'
    BY <2>1, <2>2 DEF SessionsType
  <2>4. NotifiedType'
    BY <2>1, QuietType
  <2> QED BY <2>1, <2>3, <2>4 DEF HttpType
<1>5. SessionsType' /\ HttpType' /\ NotifiedType'
  BY <1>1, <1>2, <1>3, <1>4
<1> QED BY <1>0, <1>5, TypeParts DEF BeaconType

\* Only a registration or an update can be answered with the error page, which a
\* faultless server never sends, and neither is answered with an empty page.
LEMMA Served ==
  ASSUME TypeOK, NEW i \in Ids, Serve(i)
  PROVE  /\ http[i] \in Request
         /\ \E reply \in {"added", "updated", "error", "http500", "empty"} :
              /\ http' = [http EXCEPT ![i].reply = reply]
              /\ listed' = (listed \/ reply = "added")
              /\ reply = "http500" => http[i].op # "unregister" /\ FaultyServer
              /\ http[i].op # "unregister" => reply # "empty"
<1>1. http[i] \in Request
  BY TypeFacts DEF Serve, HttpType
<1>2. http[i].op \in {"register", "update", "unregister"}
  BY <1>1 DEF Request
<1>3. CASE http[i].op = "unregister"
  BY <1>1, <1>3 DEF Serve
<1>4. CASE http[i].op = "update"
  BY <1>1, <1>4 DEF Serve, ErrorPage
<1>5. CASE http[i].op = "register"
  BY <1>1, <1>5 DEF Serve, ErrorPage
<1> QED BY <1>2, <1>3, <1>4, <1>5

\* The master server serves a request, or its list changes otherwise.
LEMMA ServerType ==
  ASSUME TypeOK, MasterServer, UNCHANGED dedicated
  PROVE  TypeOK'
<1> USE TypeFacts
<1>1. UNCHANGED <<sessions, createName, beacon, timer, resume, crashed>> /\ Quiet
  BY DEF MasterServer, Serve, ChangeListing
<1>2. HttpType' /\ listed' \in BOOLEAN
  <2>1. CASE ChangeListing
    BY <2>1 DEF ChangeListing, HttpType
  <2>2. ASSUME NEW i \in Ids, Serve(i)
        PROVE  HttpType' /\ listed' \in BOOLEAN
    <3>1. http[i] \in Request
      BY <2>2, Served
    <3>2. PICK reply \in {"added", "updated", "error", "http500", "empty"} :
            /\ http' = [http EXCEPT ![i].reply = reply]
            /\ listed' = (listed \/ reply = "added")
      BY <2>2, Served
    <3>3. [http[i] EXCEPT !.reply = reply] \in Request
      BY <3>1 DEF Request
    <3>4. HttpType'
      BY <3>2, <3>3 DEF HttpType
    <3>5. (listed \/ reply = "added") \in BOOLEAN
      OBVIOUS
    <3> QED BY <3>2, <3>4, <3>5
  <2> QED BY <2>1, <2>2 DEF MasterServer
<1>3. NotifiedType'
  BY <1>1, QuietType
<1> QED BY <1>1, <1>2, <1>3, TypeParts DEF SessionsType, BeaconType

\* A registration is in flight, or its handler has not returned: some session was
\* created.
Registering == {i \in Ids : http[i] # None /\ http[i].op = "register"}
NameKnown   == resume # Nothing \/ Registering # {} => createName \in SessionNames

\* A request is over: the handlers of the three responses.
LEMMA ResponseType ==
  ASSUME TypeOK, NameKnown, NEW i \in Ids, Response(i), UNCHANGED dedicated
  PROVE  TypeOK'
<1> USE TypeFacts
<1>0. /\ TRUE \in BOOLEAN /\ FALSE \in BOOLEAN /\ "Create" \in Delegates /\ "Update" \in Delegates
      /\ "Destroy" \in Delegates
  BY DEF Delegates
<1>1. HttpType'
  BY DEF Response, CreateSession_ResponseReceived, UpdateSession_ResponseReceived,
         DestroySession_ResponseReceived, Completes, HttpType
<1>2. UNCHANGED <<createName, beacon, timer, listed, crashed>>
  BY DEF Response, CreateSession_ResponseReceived, UpdateSession_ResponseReceived,
         DestroySession_ResponseReceived
<1>3. SessionsType' /\ resume' \in Resumes /\ NotifiedType'
  <2>1. CASE CreateSession_ResponseReceived(i)
    <3>1. createName \in SessionNames
      BY <2>1 DEF CreateSession_ResponseReceived, Completes, Registering, NameKnown
    <3>2. PICK reply \in Outcomes(i) :
            CreateSucceeds(reply) \/ CreateFails(reply) \/ Unparsable(reply)
      BY <2>1 DEF CreateSession_ResponseReceived
    <3>3. CASE CreateSucceeds(reply)
      <4>1. NamedSession(createName) =>
              WithState(createName, "Pending") \in [SessionNames -> Session \cup {None}]
        BY <3>1, SessionsTypes DEF States
      <4>2. SessionsType'
        BY <3>3, <4>1 DEF CreateSucceeds, SessionsType
      <4>3. resume' \in Resumes
        BY <3>3 DEF CreateSucceeds, Resumes, Intervals
      <4>4. NotifiedType'
        BY <1>0, <3>3, TriggerType DEF CreateSucceeds
      <4> QED BY <4>2, <4>3, <4>4
    <3>4. CASE CreateFails(reply)
      <4>1. resume' \in Resumes /\ UNCHANGED sessions
        BY <3>4 DEF CreateFails, Resumes
      <4>2. NotifiedType'
        BY <1>0, <3>4, TriggerType DEF CreateFails
      <4> QED BY <4>1, <4>2 DEF SessionsType
    <3>5. CASE Unparsable(reply)
      BY <3>5, QuietType DEF Unparsable, SessionsType
    <3> QED BY <3>2, <3>3, <3>4, <3>5
  <2>2. CASE UpdateSession_ResponseReceived(i)
    <3>1. PICK reply : Trigger("Update", createName, reply = "updated") \/ Quiet
      BY <2>2 DEF UpdateSession_ResponseReceived, Unparsable
    <3>2. (reply = "updated") \in BOOLEAN
      OBVIOUS
    <3>3. NotifiedType'
      BY <1>0, <3>1, <3>2, TriggerType, QuietType
    <3> QED BY <2>2, <3>3 DEF UpdateSession_ResponseReceived, SessionsType
  <2>3. CASE DestroySession_ResponseReceived(i)
    <3>1. Trigger("Destroy", createName, FALSE) \/ Quiet
      BY <2>3 DEF DestroySession_ResponseReceived
    <3>2. NotifiedType'
      BY <1>0, <3>1, TriggerType, QuietType
    <3> QED BY <2>3, <3>2 DEF DestroySession_ResponseReceived, SessionsType
  <2> QED BY <2>1, <2>2, <2>3 DEF Response
<1> QED BY <1>1, <1>2, <1>3, TypeParts DEF BeaconType

\* What the handlers do after their broadcast, and the timer.
LEMMA TurnType ==
  ASSUME TypeOK, NameKnown, StartHeartbeat \/ DestroyFailed \/ PerformHeartbeat,
         UNCHANGED dedicated
  PROVE  TypeOK'
<1> USE TypeFacts
<1>0. Nothing \in Resumes
  BY DEF Resumes
<1>1. CASE StartHeartbeat
  <2>1. timer' \in Intervals \cup {0}
    BY <1>1 DEF StartHeartbeat, Resumes, Nothing
  <2>2. NotifiedType'
    BY <1>1, QuietType DEF StartHeartbeat
  <2>3. resume' \in Resumes
    BY <1>0, <1>1 DEF StartHeartbeat
  <2>4. UNCHANGED <<sessions, createName, beacon, http, listed, crashed>>
    BY <1>1 DEF StartHeartbeat
  <2> QED BY <2>1, <2>2, <2>3, <2>4, TypeParts DEF SessionsType, HttpType, BeaconType
<1>2. CASE DestroyFailed
  <2>1. resume # Nothing
    BY <1>2 DEF DestroyFailed, Nothing
  <2>2. createName \in SessionNames /\ Destroy(createName) /\ resume' \in Resumes
    BY <1>0, <1>2, <2>1 DEF DestroyFailed, NameKnown
  <2> QED BY <2>2, DestroyType
<1>3. CASE PerformHeartbeat
  <2>1. NotifiedType' /\ crashed' \in Places \cup {None}
    BY <1>3, QuietType DEF Places, PerformHeartbeat
  <2>2. UNCHANGED <<sessions, createName, beacon, http, timer, resume, listed>>
    BY <1>3 DEF PerformHeartbeat
  <2> QED BY <2>1, <2>2, TypeParts DEF SessionsType, HttpType, BeaconType
<1> QED BY <1>1, <1>2, <1>3

-----------------------------------------------------------------------------
(* The steps of the interface, whatever settings the game chooses *)

AnyCreate == \E n \in SessionNames, settings \in Settings : CreateSession(n, settings)

AnyGame ==
  \E n \in SessionNames :
    \/ StartSession(n)
    \/ \E settings \in Settings : UpdateSession(n, settings)
    \/ EndSession(n)
    \/ DestroySession(n)
    \/ \E settings \in Settings, owner \in {"other", "unset"}, space, valid \in BOOLEAN :
         JoinSession(n, settings, owner, space, valid)
    \/ ChangeSpace(n)
    \/ ChangePlayer(n)

Step == (AnyCreate \/ AnyGame \/ MasterServer \/ Turn) /\ UNCHANGED dedicated

LEMMA GameStep == Game => AnyGame
  BY SettingsAssumption DEF Game, AnyGame

LEMMA NextStep == Next => Step
  BY SettingsAssumption, GameStep DEF Next, Other, Creates, AnyCreate, Step

LEMMA StepType ==
  ASSUME TypeOK, NameKnown, Step
  PROVE  TypeOK'
<1>1. CASE AnyCreate
  BY <1>1, CreateType DEF Step, AnyCreate
<1>2. CASE AnyGame
  BY <1>2, MatchType, CallType, DestroyType, TypeFacts DEF Step, AnyGame, DestroySession
<1>3. CASE MasterServer
  BY <1>3, ServerType DEF Step
<1>4. CASE Turn
  BY <1>4, ResponseType, TurnType DEF Step, Turn
<1> QED BY <1>1, <1>2, <1>3, <1>4 DEF Step

-----------------------------------------------------------------------------
(* Requests and what is known of them *)

Replies == \A i \in Ids :
             /\ http[i] # None /\ http[i].reply = "http500"
                  => http[i].op # "unregister" /\ FaultyServer
             /\ http[i] # None /\ http[i].op # "unregister" => http[i].reply # "empty"

\* A step sends one request, has one served, completes one or leaves them alone.
LEMMA HttpMoves ==
  ASSUME TypeOK, Step
  PROVE  \/ UNCHANGED http
         \/ \E i \in Ids, op \in {"register", "update", "unregister"} :
              /\ http[i] = None
              /\ http' = [http EXCEPT ![i] = [op |-> op, reply |-> "pending"]]
              /\ op = "register" => createName' \in SessionNames
         \/ \E i \in Ids : Serve(i)
         \/ \E i \in Ids : http[i] # None /\ http' = [http EXCEPT ![i] = None]
<1>1. CASE AnyCreate
  <2>1. PICK n \in SessionNames, settings \in Settings : CreateSession(n, settings)
    BY <1>1 DEF AnyCreate
  <2>2. CASE CreateInternet(n, settings)
    BY <2>2 DEF CreateInternet, Send
  <2> QED BY <2>1, <2>2 DEF CreateSession, CreateExisting, CreateLAN
<1>2. CASE AnyGame
  <2>1. \/ UNCHANGED http
        \/ Send("update")
        \/ Send("unregister")
    BY <1>2 DEF AnyGame, StartSession, UpdateSession, EndSession, DestroySession, Destroy,
                JoinSession, ChangeSpace, ChangePlayer
  <2> QED BY <2>1 DEF Send
<1>3. CASE MasterServer
  BY <1>3 DEF MasterServer, ChangeListing
<1>4. CASE Turn
  <2>1. \/ UNCHANGED http
        \/ Send("unregister")
        \/ \E i \in Ids : Response(i)
    BY <1>4 DEF Turn, StartHeartbeat, DestroyFailed, PerformHeartbeat, Destroy
  <2>2. ASSUME NEW i \in Ids, Response(i)
        PROVE  http[i] # None /\ http' = [http EXCEPT ![i] = None]
    BY <2>2 DEF Response, CreateSession_ResponseReceived, UpdateSession_ResponseReceived,
                DestroySession_ResponseReceived, Completes
  <2> QED BY <2>1, <2>2 DEF Send
<1> QED BY <1>1, <1>2, <1>3, <1>4 DEF Step

LEMMA RepliesStep ==
  ASSUME TypeOK, Replies, Step
  PROVE  Replies'
<1>0. http \in [Ids -> Request \cup {None}]
  BY DEF TypeOK
<1>1. CASE UNCHANGED http
  BY <1>1 DEF Replies
<1>2. ASSUME NEW i \in Ids, NEW op, http[i] = None,
             http' = [http EXCEPT ![i] = [op |-> op, reply |-> "pending"]]
      PROVE  Replies'
  BY <1>0, <1>2 DEF Replies
<1>3. ASSUME NEW i \in Ids, Serve(i)
      PROVE  Replies'
  <2>1. PICK reply \in {"added", "updated", "error", "http500", "empty"} :
          /\ http' = [http EXCEPT ![i].reply = reply]
          /\ reply = "http500" => http[i].op # "unregister" /\ FaultyServer
          /\ http[i].op # "unregister" => reply # "empty"
    BY <1>3, Served
  <2>2. http[i] \in Request
    BY <1>3, Served
  <2>3. http'[i].op = http[i].op /\ http'[i].reply = reply
    BY <1>0, <2>1, <2>2 DEF Request
  <2>4. \A j \in Ids \ {i} : http'[j] = http[j]
    BY <1>0, <2>1
  <2> QED BY <2>1, <2>3, <2>4 DEF Replies
<1>4. ASSUME NEW i \in Ids, http[i] # None, http' = [http EXCEPT ![i] = None]
      PROVE  Replies'
  BY <1>0, <1>4 DEF Replies
<1> QED BY <1>1, <1>2, <1>3, <1>4, HttpMoves

\* Serving a request completes none.
LEMMA ServedKeeps ==
  ASSUME TypeOK, NEW i \in Ids, Serve(i)
  PROVE  \A j \in Ids : http[j] # None => http'[j] # None
<1>0. http \in [Ids -> Request \cup {None}]
  BY DEF TypeOK
<1>1. PICK reply \in {"added", "updated", "error", "http500", "empty"} :
        http' = [http EXCEPT ![i].reply = reply]
  BY Served
<1>2. http[i] \in Request
  BY Served
<1>3. [http[i] EXCEPT !.reply = reply] \in Request
  BY <1>2 DEF Request
<1> QED BY <1>0, <1>1, <1>3, NoneAssumption

\* A request keeps its operation while it is served.
LEMMA ServedStays ==
  ASSUME TypeOK, NEW i \in Ids, Serve(i)
  PROVE  Registering' = Registering
<1>0. http \in [Ids -> Request \cup {None}]
  BY DEF TypeOK
<1>1. PICK reply \in {"added", "updated", "error", "http500", "empty"} :
        http' = [http EXCEPT ![i].reply = reply]
  BY Served
<1>2. http[i] \in Request /\ http[i] # None
  BY Served DEF Serve
<1>3. http'[i].op = http[i].op /\ http'[i] # None
  <2>1. http'[i] = [http[i] EXCEPT !.reply = reply]
    BY <1>0, <1>1
  <2>2. [http[i] EXCEPT !.reply = reply] \in Request
    BY <1>2 DEF Request
  <2> QED BY <1>2, <2>1, <2>2, NoneAssumption DEF Request
<1>4. \A j \in Ids \ {i} : http'[j] = http[j]
  BY <1>0, <1>1
<1> QED BY <1>2, <1>3, <1>4 DEF Registering

LEMMA NameStep ==
  ASSUME TypeOK, NameKnown, Step
  PROVE  NameKnown'
<1>1. createName' = createName \/ createName' \in SessionNames
  BY DEF Step, AnyCreate, CreateSession, CreateExisting, CreateLAN, CreateInternet, AnyGame,
         StartSession, UpdateSession, EndSession, DestroySession, Destroy, JoinSession,
         ChangeSpace, ChangePlayer, MasterServer, Serve, ChangeListing, Turn, Response,
         CreateSession_ResponseReceived, UpdateSession_ResponseReceived,
         DestroySession_ResponseReceived, StartHeartbeat, DestroyFailed, PerformHeartbeat
<1>2. CASE createName \in SessionNames
  BY <1>1, <1>2 DEF NameKnown
<1>3. CASE createName \notin SessionNames
  <2>1. resume = Nothing /\ Registering = {}
    BY <1>3 DEF NameKnown
  <2>2. \A i \in Ids : ~CreateSession_ResponseReceived(i)
    BY <2>1 DEF Registering, CreateSession_ResponseReceived, Completes
  <2>3. resume' = Nothing
    BY <2>1, <2>2 DEF Step, AnyCreate, CreateSession, CreateExisting, CreateLAN, CreateInternet,
         AnyGame, StartSession, UpdateSession, EndSession, DestroySession, Destroy,
         JoinSession, ChangeSpace, ChangePlayer, MasterServer, Serve, ChangeListing, Turn, Response,
         UpdateSession_ResponseReceived, DestroySession_ResponseReceived, StartHeartbeat,
         DestroyFailed, PerformHeartbeat
  <2>4. Registering' # {} => createName' \in SessionNames
    <3>0. http \in [Ids -> Request \cup {None}]
      BY DEF TypeOK
    <3>1. CASE UNCHANGED http
      BY <2>1, <3>1 DEF Registering
    <3>2. ASSUME NEW i \in Ids, NEW op, http[i] = None, op # "register",
                 http' = [http EXCEPT ![i] = [op |-> op, reply |-> "pending"]]
          PROVE  Registering' = {}
      BY <2>1, <3>0, <3>2 DEF Registering
    <3>3. ASSUME NEW i \in Ids, http' = [http EXCEPT ![i] = None]
          PROVE  Registering' = {}
      BY <2>1, <3>0, <3>3 DEF Registering
    <3> QED BY <2>1, <3>1, <3>2, <3>3, HttpMoves, ServedStays
  <2> QED BY <2>3, <2>4 DEF NameKnown
<1> QED BY <1>2, <1>3

-----------------------------------------------------------------------------
(* What a call broadcasts *)

LEMMA Announced ==
  ASSUME NEW event \in Delegates, NEW name \in SessionNames \cup {None}, NEW ok \in BOOLEAN,
         Trigger(event, name, ok)
  PROVE  /\ notified' # None /\ notified'.event = event
         /\ notified'.name = name /\ notified'.ok = ok
<1>1. [event |-> event, name |-> name, ok |-> ok] \in Notification
  BY DEF Notification, Delegates
<1> QED BY <1>1, NoneAssumption DEF Trigger

\* UpdateLANStatus ends with the broadcast it was called for, or ends the process.
LEMMA Refreshed ==
  ASSUME NEW table, NEW event \in Delegates, NEW name \in SessionNames \cup {None},
         RefreshBeacon(table, event, name)
  PROVE  \/ notified' = None /\ crashed' = "owner" /\ UNCHANGED beacon
         \/ /\ notified' # None /\ notified'.event = event /\ notified'.name = name
            /\ UNCHANGED crashed
            /\ \E r \in UpdateLANStatus(table) : beacon' = r.beacon /\ notified'.ok = r.ok
<1>1. CASE DereferencesUnset(table)
  BY <1>1 DEF RefreshBeacon, Quiet
<1>2. CASE ~DereferencesUnset(table)
  <2>1. PICK r \in UpdateLANStatus(table) : /\ beacon' = r.beacon
                                            /\ Trigger(event, name, r.ok)
                                            /\ UNCHANGED crashed
    BY <1>2 DEF RefreshBeacon
  <2>2. r.ok \in BOOLEAN
    <3>1. PICK b, ok : r = [beacon |-> b, ok |-> ok] /\ ok \in BOOLEAN
      BY <2>1 DEF UpdateLANStatus
    <3>2. r.ok = ok
      BY <3>1
    <3> QED BY <3>1, <3>2
  <2> QED BY <2>1, <2>2, Announced
<1> QED BY <1>1, <1>2

\* A crash is for good.
LEMMA StaysCrashed ==
  ASSUME Step, Running'
  PROVE  Running
BY DEF Step, AnyCreate, CreateSession, AnyGame, StartSession, UpdateSession, EndSession,
       DestroySession, JoinSession, ChangeSpace, ChangePlayer, Called, MasterServer, Serve, ChangeListing,
       Turn, Response, CreateSession_ResponseReceived, UpdateSession_ResponseReceived,
       DestroySession_ResponseReceived, Completes, StartHeartbeat, DestroyFailed,
       PerformHeartbeat, Running

-----------------------------------------------------------------------------
(* The beacon and the search *)

\* Refreshing the beacon neither starts nor stops a search.
LEMMA RefreshKeeps ==
  ASSUME NEW table, NEW event \in Delegates, NEW name \in SessionNames \cup {None},
         RefreshBeacon(table, event, name)
  PROVE  beacon' = "Searching" <=> beacon = "Searching"
<1>1. CASE UNCHANGED beacon
  BY <1>1
<1>2. CASE \E r \in UpdateLANStatus(table) : beacon' = r.beacon
  <2>1. PICK r \in UpdateLANStatus(table) : beacon' = r.beacon
    BY <1>2
  <2>2. CASE beacon = "Searching"
    <3>1. r = [beacon |-> beacon, ok |-> TRUE]
      BY <2>1, <2>2 DEF UpdateLANStatus
    <3> QED BY <2>1, <2>2, <3>1
  <2>3. CASE beacon # "Searching"
    <3>1. r.beacon \in {"Hosting", "NotUsingLanBeacon", beacon}
      BY <2>1, <2>3 DEF UpdateLANStatus
    <3> QED BY <2>1, <2>3, <3>1
  <2> QED BY <2>2, <2>3
<1> QED BY <1>1, <1>2, Refreshed

\* Nor does any other step of the named sessions.
LEMMA SearchKept ==
  ASSUME TypeOK, NameKnown, Step
  PROVE  beacon' = "Searching" <=> beacon = "Searching"
<1> USE TypeFacts
<1>0. {"Create", "Start", "End", "Destroy"} \subseteq Delegates
  BY DEF Delegates
<1>1. ASSUME NEW n \in SessionNames, Destroy(n)
      PROVE  beacon' = "Searching" <=> beacon = "Searching"
  BY <1>0, <1>1, RefreshKeeps DEF Destroy
<1>2. CASE AnyCreate
  BY <1>0, <1>2, RefreshKeeps DEF AnyCreate, CreateSession, CreateExisting, CreateLAN,
                                  CreateInternet
<1>3. CASE AnyGame
  BY <1>0, <1>1, <1>3, RefreshKeeps DEF AnyGame, StartSession, UpdateSession, EndSession,
                                        DestroySession, JoinSession, ChangeSpace, ChangePlayer
<1>4. CASE MasterServer
  BY <1>4 DEF MasterServer, Serve, ChangeListing
<1>5. CASE DestroyFailed
  <2>1. createName \in SessionNames
    BY <1>5 DEF DestroyFailed, NameKnown, Nothing
  <2> QED BY <1>1, <1>5, <2>1 DEF DestroyFailed
<1>6. CASE Turn /\ ~DestroyFailed
  BY <1>6 DEF Turn, Response, CreateSession_ResponseReceived, UpdateSession_ResponseReceived,
              DestroySession_ResponseReceived, StartHeartbeat, PerformHeartbeat
<1> QED BY <1>2, <1>3, <1>4, <1>5, <1>6 DEF Step

-----------------------------------------------------------------------------
(* Calls that are answered before they return, and answers to requests *)

\* Unless it ends the process, StartSession or EndSession broadcasts its own event.
LEMMA MatchAnswers ==
  ASSUME NEW n \in SessionNames, Running'
  PROVE  /\ StartSession(n) => notified' # None /\ notified'.event = "Start"
         /\ EndSession(n)   => notified' # None /\ notified'.event = "End"
<1>1. "Start" \in Delegates /\ "End" \in Delegates /\ FALSE \in BOOLEAN /\ crashed' # "owner"
  BY NoneAssumption DEF Delegates, Running, Places
<1> QED BY <1>1, Announced, Refreshed DEF StartSession, EndSession

\* CreateSession broadcasts its own event or sends its request.
LEMMA CreateAnswers ==
  ASSUME NEW n \in SessionNames, NEW settings \in Settings, CreateSession(n, settings), Running'
  PROVE  (notified' # None /\ notified'.event = "Create") \/ Send("register")
<1>1. "Create" \in Delegates /\ FALSE \in BOOLEAN /\ crashed' # "owner"
  BY NoneAssumption DEF Delegates, Running, Places
<1> QED BY <1>1, Announced, Refreshed DEF CreateSession, CreateExisting, CreateLAN, CreateInternet

\* A request that has been sent is there.
LEMMA SendAdds ==
  ASSUME HttpType, NEW op \in {"register", "update", "unregister"}, Send(op)
  PROVE  \E i \in Ids : http'[i] # None /\ http'[i].op = op
<1>1. PICK i \in Ids : http' = [http EXCEPT ![i] = [op |-> op, reply |-> "pending"]]
  BY DEF Send
<1>2. http'[i] = [op |-> op, reply |-> "pending"] /\ [op |-> op, reply |-> "pending"] \in Request
  BY <1>1 DEF HttpType, Request
<1>3. [op |-> op, reply |-> "pending"] # None /\ http'[i].op = op
  BY <1>2, NoneAssumption
<1> QED BY <1>2, <1>3

LEMMA RequestMoves ==
  ASSUME Step
  PROVE  \/ UNCHANGED http
         \/ \E op \in {"register", "update", "unregister"} : Send(op)
         \/ \E i \in Ids : Serve(i) \/ Response(i)
<1>1. CASE AnyCreate
  BY <1>1 DEF AnyCreate, CreateSession, CreateExisting, CreateLAN, CreateInternet
<1>2. CASE AnyGame
  BY <1>2 DEF AnyGame, StartSession, UpdateSession, EndSession, DestroySession, Destroy,
              JoinSession, ChangeSpace, ChangePlayer
<1>3. CASE MasterServer
  BY <1>3 DEF MasterServer, ChangeListing
<1>4. CASE Turn
  BY <1>4 DEF Turn, StartHeartbeat, DestroyFailed, PerformHeartbeat, Destroy
<1> QED BY <1>1, <1>2, <1>3, <1>4 DEF Step

\* The handler of a response to a registration or an update broadcasts the event of the
\* request, unless what came back is the error page.
LEMMA ResponseAnswers ==
  ASSUME TypeOK, NameKnown, Replies, NEW i \in Ids, Response(i)
  PROVE  /\ http[i] # None
         /\ http' = [http EXCEPT ![i] = None]
         /\ http[i].op = "register" =>
              \/ notified' # None /\ notified'.event = "Create"
              \/ notified' = None /\ http[i].reply = "http500"
         /\ http[i].op = "update" =>
              \/ notified' # None /\ notified'.event = "Update"
              \/ notified' = None /\ http[i].reply = "http500"
<1> USE TypeFacts
<1>0. "Create" \in Delegates /\ "Update" \in Delegates /\ TRUE \in BOOLEAN /\ FALSE \in BOOLEAN
  BY DEF Delegates
<1>1. CASE CreateSession_ResponseReceived(i)
  <2>1. Completes(i, "register")
    BY <1>1 DEF CreateSession_ResponseReceived
  <2>2. PICK reply \in Outcomes(i) :
          CreateSucceeds(reply) \/ CreateFails(reply) \/ Unparsable(reply)
    BY <1>1 DEF CreateSession_ResponseReceived
  <2>3. CASE CreateSucceeds(reply) \/ CreateFails(reply)
    BY <1>0, <2>1, <2>3, Announced DEF CreateSucceeds, CreateFails, Completes
  <2>4. CASE Unparsable(reply)
    <3>1. http[i].reply = reply /\ notified' = None
      BY <2>4 DEF Unparsable, Outcomes, Quiet
    <3>2. reply = "http500"
      BY <2>1, <2>4, <3>1 DEF Unparsable, Replies, Completes
    <3> QED BY <2>1, <3>1, <3>2 DEF Completes
  <2> QED BY <2>2, <2>3, <2>4
<1>2. CASE UpdateSession_ResponseReceived(i)
  <2>1. Completes(i, "update")
    BY <1>2 DEF UpdateSession_ResponseReceived
  <2>2. PICK reply \in Outcomes(i) :
          Trigger("Update", createName, reply = "updated") \/ Unparsable(reply)
    BY <1>2 DEF UpdateSession_ResponseReceived
  <2>3. CASE Trigger("Update", createName, reply = "updated")
    <3>1. (reply = "updated") \in BOOLEAN
      OBVIOUS
    <3>2. notified' # None /\ notified'.event = "Update"
      BY <1>0, <2>3, <3>1, Announced
    <3> QED BY <2>1, <3>2 DEF Completes
  <2>4. CASE Unparsable(reply)
    <3>1. http[i].reply = reply /\ notified' = None
      BY <2>4 DEF Unparsable, Outcomes, Quiet
    <3>2. reply = "http500"
      BY <2>1, <2>4, <3>1 DEF Unparsable, Replies, Completes
    <3> QED BY <2>1, <3>1, <3>2 DEF Completes
  <2> QED BY <2>2, <2>3, <2>4
<1>3. CASE DestroySession_ResponseReceived(i)
  BY <1>3 DEF DestroySession_ResponseReceived, Completes
<1> QED BY <1>1, <1>2, <1>3 DEF Response

\* What becomes of a request in a step.
LEMMA RequestStep ==
  ASSUME TypeOK, NameKnown, Replies, Step, NEW i \in Ids, http[i] # None
  PROVE  \/ http'[i] # None /\ http'[i].op = http[i].op
         \/ /\ http[i].op = "register" => \/ notified' # None /\ notified'.event = "Create"
                                          \/ /\ notified' = None /\ http[i].reply = "http500"
                                             /\ http'[i] = None
            /\ http[i].op = "update" => \/ notified' # None /\ notified'.event = "Update"
                                        \/ /\ notified' = None /\ http[i].reply = "http500"
                                           /\ http'[i] = None
<1>0. http \in [Ids -> Request \cup {None}] /\ HttpType
  BY DEF TypeOK, HttpType
<1>1. CASE UNCHANGED http
  BY <1>1
<1>2. CASE \E op \in {"register", "update", "unregister"} : Send(op)
  <2>1. PICK j \in Ids : http[j] = None /\ \E q : http' = [http EXCEPT ![j] = q]
    BY <1>2 DEF Send
  <2> QED BY <1>0, <2>1
<1>3. ASSUME NEW j \in Ids, Serve(j)
      PROVE  http'[i] # None /\ http'[i].op = http[i].op
  <2>1. PICK reply \in {"added", "updated", "error", "http500", "empty"} :
          http' = [http EXCEPT ![j].reply = reply]
    BY <1>3, Served
  <2>2. http[j] \in Request
    BY <1>3, Served
  <2>3. CASE i = j
    <3>1. http'[i] = [http[i] EXCEPT !.reply = reply]
      BY <1>0, <2>1, <2>3
    <3>2. [http[i] EXCEPT !.reply = reply] \in Request
      BY <2>2, <2>3 DEF Request
    <3> QED BY <2>2, <2>3, <3>1, <3>2, NoneAssumption DEF Request
  <2>4. CASE i # j
    BY <1>0, <2>1, <2>4
  <2> QED BY <2>3, <2>4
<1>4. ASSUME NEW j \in Ids, Response(j)
      PROVE  \/ http'[i] # None /\ http'[i].op = http[i].op
             \/ j = i /\ http'[i] = None
  <2>1. http' = [http EXCEPT ![j] = None]
    BY <1>4, ResponseAnswers
  <2> QED BY <1>0, <2>1
<1>5. CASE Response(i)
  BY <1>0, <1>5, ResponseAnswers
<1> QED BY <1>1, <1>2, <1>3, <1>4, <1>5, RequestMoves
=============================================================================
