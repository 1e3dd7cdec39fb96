-------------------------- MODULE SessionInterface --------------------------
(***************************************************************************)
(* FOnlineSessionPython: the named sessions of one game process, the LAN   *)
(* beacon that advertises them, the HTTP requests to the master server and *)
(* the heartbeat timer.                                                    *)
(*                                                                         *)
(* Everything runs on the game thread.  The game calls the interface at    *)
(* any time, also from inside a delegate that the interface broadcasts;    *)
(* responses and timers come between those calls, in any order.  An action *)
(* runs one entry point to its end, except that the handler of a           *)
(* registration response stops at its broadcast: what it does after the    *)
(* broadcast is kept in resume, since the game may call in between.        *)
(*                                                                         *)
(* Responses carry no session name: each handler speaks of whichever       *)
(* session CreateSession was last called for, CreateSessionName.           *)
(*                                                                         *)
(* Times are in hundredths of a second, the unit of the smallest heartbeat *)
(* interval the code allows.                                               *)
(***************************************************************************)
EXTENDS Integers, FiniteSets

CONSTANTS
  SessionNames,          \* names the game gives its sessions
  SettingsChoices,       \* the settings it creates and updates them with
  Calls,                 \* the methods the game calls
  Ids,                   \* bounds the HTTP requests in flight
  Modes,                 \* may the process be a dedicated server (TRUE), a client (FALSE)?
  FaultyServer,          \* may the master server answer with status 500?
  TimeBetweenHeartbeats, \* the master server's, in seconds
  None                   \* no session, no request, no name, nothing to do

States == {"Creating", "Pending", "InProgress", "Ended"}

\* presence is bAllowJoinViaPresence or bAllowJoinViaPresenceFriendsOnly.
Settings == [lan : BOOLEAN, advertise : BOOLEAN,
             joinInProgress : BOOLEAN, presence : BOOLEAN]

ASSUME CallsAssumption    == Calls \subseteq {"Create", "Start", "Update", "End", "Destroy",
                                              "Join", "ChangeSpace", "ChangePlayer"}
ASSUME SettingsAssumption == SettingsChoices \subseteq Settings
ASSUME ModeAssumption     == Modes \subseteq BOOLEAN /\ FaultyServer \in BOOLEAN
ASSUME PeriodAssumption   == TimeBetweenHeartbeats \in Nat
ASSUME IdsAssumption      == IsFiniteSet(Ids)

\* space: is there an open public connection?  owner: OwningUserId is that of the local
\* player with the session's HostingPlayerNum, was so until that player logged out, is
\* somebody else's, or was never set.
Session == [state : States, settings : Settings, space : BOOLEAN,
            owner : {"self", "gone", "other", "unset"}]

Request == [op : {"register", "update", "unregister"},
            reply : {"pending", "added", "updated", "error", "http500", "empty"}]

VARIABLES
  dedicated,  \* IsRunningDedicatedServer, fixed when the process starts
  sessions,   \* Sessions: name -> session or None
  createName, \* CreateSessionName
  beacon,     \* state of LANSessionManager's beacon
  http,       \* requests to the master server that are not yet completed
  timer,      \* interval of PerformHeartbeat_Handle, 0 when it is not set
  resume,     \* what a response handler has still to do after its broadcast
  notified,   \* the delegate that the last step broadcast, None if it did not
  listed,     \* does the master server list this process (external)
  crashed     \* where the process dereferenced a null pointer, None if nowhere

vars == <<dedicated, sessions, createName, beacon, http, timer, resume, notified, listed, crashed>>

Delegates == {"Create", "Start", "Update", "End", "Destroy", "Join",
              "Find", "CancelFind", "FindFriend"}

Notification == [event : Delegates, name : SessionNames \cup {None}, ok : BOOLEAN]

\* Where a null pointer can be dereferenced.
Places == {"heartbeat", "owner", "search"}

ASSUME NoneAssumption ==
  None \notin Session \cup Request \cup Notification \cup SessionNames \cup Places

Clamp(x, low, high) == IF x < low THEN low ELSE IF x > high THEN high ELSE x

\* The interval asked for: a response without the field heartbeat reads as 0.
Interval(heartbeat) == Clamp(100 * heartbeat - 100, 1, 1000000)
Intervals == {Interval(TimeBetweenHeartbeats), Interval(0)}

\* After its broadcast a handler has nothing left to do, destroys the session or
\* starts the timer.
Nothing == [todo |-> "nothing", interval |-> 0]
Resumes == {Nothing, [todo |-> "destroy", interval |-> 0]}
             \cup [todo : {"heartbeat"}, interval : Intervals]

TypeOK ==
  /\ dedicated \in Modes
  /\ sessions \in [SessionNames -> Session \cup {None}]
  /\ createName \in SessionNames \cup {None}
  /\ beacon \in {"NotUsingLanBeacon", "Hosting", "Searching"}
  /\ http \in [Ids -> Request \cup {None}]
  /\ timer \in Intervals \cup {0}
  /\ resume \in Resumes
  /\ notified \in Notification \cup {None}
  /\ listed \in BOOLEAN
  /\ crashed \in Places \cup {None}

Init ==
  /\ dedicated \in Modes
  /\ sessions = [n \in SessionNames |-> None]
  /\ createName = None
  /\ beacon = "NotUsingLanBeacon"
  /\ http = [i \in Ids |-> None]
  /\ timer = 0
  /\ resume = Nothing
  /\ notified = None
  /\ listed \in BOOLEAN   \* an earlier process on this endpoint may have registered
  /\ crashed = None

-----------------------------------------------------------------------------
(* The LAN beacon *)

NamedSession(n) == sessions[n] # None

IsHost(s) == dedicated \/ s.owner = "self"

NeedsToAdvertise(s) ==
  /\ s.settings.advertise
  /\ IsHost(s)
  /\ \/ /\ s.settings.lan
        /\ s.state # "InProgress" \/ (s.settings.joinInProgress /\ s.space)
     \/ s.settings.presence

Live(table) == {n \in SessionNames : table[n] # None}

\* IsHost dereferences OwningUserId, which JoinSession leaves unset for a session
\* found through the master server.
DereferencesUnset(table) ==
  ~dedicated /\ \E n \in Live(table) :
                  table[n].settings.advertise /\ table[n].owner = "unset"

\* Mutant: the beacon is refreshed before the change, not after it.
AdvertisedBefore(table) == \E n \in Live(sessions) : NeedsToAdvertise(sessions[n])

Advertised(table) == \E n \in Live(table) : NeedsToAdvertise(table[n])

\* Mutant: the beacon is stopped whatever it is used for.
UpdateLANStatusStops(table) ==
  IF Advertised(table) THEN {[beacon |-> "Hosting", ok |-> TRUE]}
  ELSE {[beacon |-> "NotUsingLanBeacon", ok |-> TRUE]}

\* The outcomes of UpdateLANStatus when the sessions are those in table: Host may
\* fail to open its socket.
UpdateLANStatus(table) ==
  IF Advertised(table)
  THEN IF beacon = "NotUsingLanBeacon"
       THEN {[beacon |-> "Hosting", ok |-> TRUE], [beacon |-> "NotUsingLanBeacon", ok |-> FALSE]}
       ELSE {[beacon |-> beacon, ok |-> TRUE]}
  ELSE {[beacon |-> IF beacon = "Searching" THEN beacon ELSE "NotUsingLanBeacon", ok |-> TRUE]}

-----------------------------------------------------------------------------
(* Helpers *)

Running == crashed = None

\* The game calls a method.
Called(method) == Running /\ method \in Calls

Trigger(event, name, ok) == notified' = [event |-> event, name |-> name, ok |-> ok]
Quiet == notified' = None

WithState(n, state) == [sessions EXCEPT ![n].state = state]
Without(n)          == [sessions EXCEPT ![n] = None]

Send(op) == \E i \in Ids : /\ http[i] = None
                           /\ http' = [http EXCEPT ![i] = [op |-> op, reply |-> "pending"]]

\* UpdateLANStatus on table ends the call with a broadcast, or ends the process.
RefreshBeacon(table, event, name) ==
  IF DereferencesUnset(table)
  THEN /\ crashed' = "owner"
       /\ Quiet
       /\ UNCHANGED beacon
  ELSE \E r \in UpdateLANStatus(table) :
         /\ beacon' = r.beacon
         /\ Trigger(event, name, r.ok)
         /\ UNCHANGED crashed

-----------------------------------------------------------------------------
(* Calls of the game *)

\* Mutant: the new session keeps the state the constructor gave it.
NewSessionStateless(settings) ==
  [state |-> "NoSession", settings |-> settings, space |-> TRUE, owner |-> "self"]

\* Whether there is space is not looked at before the match starts; until then
\* ChangeSpace can have adjusted it.  OwningUserId is that of the hosting player; that
\* nobody was logged in is the case of a player who logs out at once.
NewSession(settings) ==
  [state |-> "Creating", settings |-> settings, space |-> TRUE, owner |-> "self"]

CreateExisting(n) ==
  /\ NamedSession(n)
  /\ Trigger("Create", n, FALSE)
  /\ UNCHANGED <<sessions, createName, beacon, http, timer, resume, listed, crashed>>

\* A LAN session is announced by the beacon; when that fails it is removed.
CreateLAN(n, settings) ==
  /\ ~NamedSession(n) /\ settings.lan
  /\ createName' = n
  /\ LET created == [sessions EXCEPT ![n] = NewSession(settings)]
     IN  /\ RefreshBeacon(created, "Create", n)
         /\ \/ /\ notified' # None /\ notified'.ok
               /\ sessions' = [created EXCEPT ![n].state = "Pending"]
            \/ /\ notified' # None /\ ~notified'.ok
               /\ sessions' = Without(n)
            \/ notified' = None /\ sessions' = created
  /\ UNCHANGED <<http, timer, resume, listed>>

\* Any other session is registered with the master server.
CreateInternet(n, settings) ==
  /\ ~NamedSession(n) /\ ~settings.lan
  /\ createName' = n
  /\ sessions' = [sessions EXCEPT ![n] = NewSession(settings)]
  /\ Send("register")
  /\ Quiet
  /\ UNCHANGED <<beacon, timer, resume, listed, crashed>>

CreateSession(n, settings) ==
  Called("Create") /\ (CreateExisting(n) \/ CreateLAN(n, settings) \/ CreateInternet(n, settings))

\* Mutant: a match may be started that is not over.
NotCreating == {"Pending", "InProgress", "Ended"}

\* States in which a match may be started.
Startable == {"Pending", "Ended"}

\* The beacon is refreshed before the state changes.
StartSession(n) ==
  /\ Called("Start")
  /\ IF NamedSession(n) /\ sessions[n].state \in Startable
     THEN /\ RefreshBeacon(sessions, "Start", n)
          /\ sessions' = IF crashed' = None THEN WithState(n, "InProgress") ELSE sessions
     ELSE /\ Trigger("Start", n, FALSE)
          /\ UNCHANGED <<sessions, beacon, crashed>>
  /\ UNCHANGED <<createName, http, timer, resume, listed>>

\* The settings change here; the beacon is not refreshed.
UpdateSession(n, settings) ==
  /\ Called("Update")
  /\ NamedSession(n)
  /\ sessions' = [sessions EXCEPT ![n].settings = settings]
  /\ Send("update")
  /\ Quiet
  /\ UNCHANGED <<createName, beacon, timer, resume, listed, crashed>>

\* Whatever its state was, the session is Ended afterwards.
EndSession(n) ==
  /\ Called("End")
  /\ sessions' = IF NamedSession(n) THEN WithState(n, "Ended") ELSE sessions
  /\ IF NamedSession(n) /\ sessions[n].state = "InProgress"
     THEN RefreshBeacon(sessions', "End", n)
     ELSE /\ Trigger("End", n, FALSE)
          /\ UNCHANGED <<beacon, crashed>>
  /\ UNCHANGED <<createName, http, timer, resume, listed>>

\* A dedicated server asks the master server to forget it and keeps the session;
\* any other process drops the session and tells nobody.
Destroy(n) ==
  /\ IF ~NamedSession(n)
     THEN /\ Trigger("Destroy", n, FALSE)
          /\ UNCHANGED <<sessions, beacon, http, crashed>>
     ELSE IF dedicated
     THEN /\ Send("unregister")
          /\ Quiet
          /\ UNCHANGED <<sessions, beacon, crashed>>
     ELSE /\ sessions' = Without(n)
          /\ RefreshBeacon(sessions', "Destroy", n)
          /\ UNCHANGED http
  /\ UNCHANGED <<createName, timer, listed>>

DestroySession(n) == Called("Destroy") /\ Destroy(n) /\ UNCHANGED resume

\* owner is unset in results of the master server and somebody else in LAN results;
\* valid: does the search result carry a session info?
JoinSession(n, settings, owner, space, valid) ==
  /\ Called("Join")
  /\ LET joins == ~NamedSession(n) /\ valid
     IN  /\ sessions' = IF joins
                        THEN [sessions EXCEPT ![n] =
                               [state |-> "Pending", owner |-> owner, space |-> space,
                                settings |-> [settings EXCEPT !.advertise = FALSE]]]
                        ELSE sessions
         /\ Trigger("Join", n, joins)
  /\ UNCHANGED <<createName, beacon, http, timer, resume, listed, crashed>>

\* RegisterPlayers takes the last open public connection or UnregisterPlayers frees
\* one (PlayerSlots has the counts).  Neither refreshes the beacon.
ChangeSpace(n) ==
  /\ Called("ChangeSpace")
  /\ NamedSession(n)
  /\ sessions' = [sessions EXCEPT ![n].space = ~@]
  /\ Quiet
  /\ UNCHANGED <<createName, beacon, http, timer, resume, listed, crashed>>

\* The player that hosts the session logs out, or in again with the same id.  IsHost
\* asks the identity interface who is logged in; nothing tells the beacon.
ChangePlayer(n) ==
  /\ Called("ChangePlayer")
  /\ NamedSession(n) /\ sessions[n].owner \in {"self", "gone"}
  /\ sessions' = [sessions EXCEPT ![n].owner = IF @ = "self" THEN "gone" ELSE "self"]
  /\ Quiet
  /\ UNCHANGED <<createName, beacon, http, timer, resume, listed, crashed>>

-----------------------------------------------------------------------------
(* The master server, as one game process sees it *)

ErrorPage == IF FaultyServer THEN {"http500"} ELSE {}

\* The server handles a request.  A listed endpoint that registers is only updated,
\* and the answer to that has no field heartbeat; unregister_server never removes.
Serve(i) ==
  /\ http[i] # None /\ http[i].reply = "pending"
  /\ \E reply \in
        CASE http[i].op = "unregister" -> {"empty"}
          [] http[i].op = "update"     ->
               ErrorPage \cup IF listed THEN {"updated"} ELSE {"error"}
          [] http[i].op = "register"   ->
               IF listed THEN {"updated"} ELSE ErrorPage \cup {"added", "error"} :
       /\ http' = [http EXCEPT ![i].reply = reply]
       /\ listed' = (listed \/ reply = "added")
  /\ Quiet
  /\ UNCHANGED <<sessions, createName, beacon, timer, resume, crashed>>

\* The server evicts the entry or restarts and forgets it; or it serves, late, a
\* registration that nobody waits for any more, of this process or of an earlier one.
ChangeListing ==
  /\ listed' = ~listed
  /\ Quiet
  /\ UNCHANGED <<sessions, createName, beacon, http, timer, resume, crashed>>

-----------------------------------------------------------------------------
(* Responses and timers *)

\* A request completes: with its reply, or without any response.
Outcomes(i) == {http[i].reply, "lost"} \ {"pending"}

Completes(i, op) ==
  /\ Running /\ resume = Nothing
  /\ http[i] # None /\ http[i].op = op
  /\ http' = [http EXCEPT ![i] = None]

\* Mutant: the handler returns early when the session is gone.
CreateSucceedsIfNamed(reply) ==
  /\ reply \in {"added", "updated"}
  /\ IF NamedSession(createName)
     THEN sessions' = WithState(createName, "Pending") /\ Trigger("Create", createName, TRUE)
     ELSE Quiet /\ UNCHANGED sessions
  /\ resume' = [todo |-> "heartbeat", interval |-> Interval(TimeBetweenHeartbeats)]

\* The master server accepted the registration.
CreateSucceeds(reply) ==
  /\ reply \in {"added", "updated"}
  /\ sessions' = IF NamedSession(createName) THEN WithState(createName, "Pending") ELSE sessions
  /\ Trigger("Create", createName, TRUE)
  /\ resume' = [todo |-> "heartbeat",
                interval |-> Interval(IF reply = "added" THEN TimeBetweenHeartbeats ELSE 0)]

\* Mutant: a refusal is only logged.
CreateFailsQuietly(reply) ==
  reply \in {"error", "lost"} /\ Quiet /\ UNCHANGED <<sessions, resume>>

\* It refused, or did not answer.
CreateFails(reply) ==
  /\ reply \in {"error", "lost"}
  /\ Trigger("Create", createName, FALSE)
  /\ resume' = [todo |-> "destroy", interval |-> 0]
  /\ UNCHANGED sessions

\* The body is no JSON: the handler does nothing at all.
Unparsable(reply) ==
  /\ reply \in {"http500", "empty"}
  /\ Quiet
  /\ UNCHANGED <<sessions, resume>>

CreateSession_ResponseReceived(i) ==
  /\ Completes(i, "register")
  /\ \E reply \in Outcomes(i) :
       CreateSucceeds(reply) \/ CreateFails(reply) \/ Unparsable(reply)
  /\ UNCHANGED <<createName, beacon, timer, listed, crashed>>

\* A body that is no JSON is ignored here, too.
UpdateSession_ResponseReceived(i) ==
  /\ Completes(i, "update")
  /\ \E reply \in Outcomes(i) :
       \/ reply # "http500" /\ Trigger("Update", createName, reply = "updated")
       \/ Unparsable(reply)
  /\ UNCHANGED <<sessions, createName, beacon, timer, resume, listed, crashed>>

DestroySession_ResponseReceived(i) ==
  /\ Completes(i, "unregister")
  /\ \E reply \in Outcomes(i) :
       IF reply = "lost" THEN Trigger("Destroy", createName, FALSE) ELSE Quiet
  /\ UNCHANGED <<sessions, createName, beacon, timer, resume, listed, crashed>>

\* The delegates have returned to CreateSession_ResponseReceived.
StartHeartbeat ==
  /\ Running
  /\ resume.todo = "heartbeat"
  /\ timer' = resume.interval
  /\ resume' = Nothing
  /\ Quiet
  /\ UNCHANGED <<sessions, createName, beacon, http, listed, crashed>>

DestroyFailed ==
  /\ Running
  /\ resume.todo = "destroy"
  /\ resume' = Nothing
  /\ Destroy(createName)

\* The handler looks the session up and uses what it gets.
PerformHeartbeat ==
  /\ Running /\ resume = Nothing
  /\ timer # 0
  /\ crashed' = IF NamedSession(createName) THEN None ELSE "heartbeat"
  /\ Quiet
  /\ UNCHANGED <<sessions, createName, beacon, http, timer, resume, listed>>

-----------------------------------------------------------------------------
Response(i) ==
  \/ CreateSession_ResponseReceived(i)
  \/ UpdateSession_ResponseReceived(i)
  \/ DestroySession_ResponseReceived(i)

\* Calls of the game other than CreateSession.
Game ==
  \E n \in SessionNames :
    \/ StartSession(n)
    \/ \E settings \in SettingsChoices : UpdateSession(n, settings)
    \/ EndSession(n)
    \/ DestroySession(n)
    \/ \E settings \in SettingsChoices, owner \in {"other", "unset"}, space, valid \in BOOLEAN :
         JoinSession(n, settings, owner, space, valid)
    \/ ChangeSpace(n)
    \/ ChangePlayer(n)

MasterServer == (\E i \in Ids : Serve(i)) \/ ChangeListing

\* What happens on the game thread when no call of the game and no broadcast runs,
\* and what a handler does after its broadcast.
Turn ==
  \/ \E i \in Ids : Response(i)
  \/ StartHeartbeat
  \/ DestroyFailed
  \/ PerformHeartbeat

Other == Game \/ MasterServer \/ Turn

Creates == \E n \in SessionNames, settings \in SettingsChoices : CreateSession(n, settings)

Next == (Creates \/ Other) /\ UNCHANGED dedicated

Spec == Init /\ [][Next]_vars
=============================================================================
