--------------------------- MODULE SessionHistory ---------------------------
(***************************************************************************)
(* The session interface with history variables, and its properties.       *)
(***************************************************************************)
EXTENDS SessionInterface

VARIABLES
  open,   \* calls of CreateSession not answered by a broadcast nor by an error page
  played  \* sessions whose match is on: started, and neither ended nor reset since

hvars == <<vars, open, played>>

HTypeOK ==
  /\ TypeOK
  /\ open \in Int
  /\ played \in SUBSET SessionNames

HInit == Init /\ open = 0 /\ played = {}

Announces(event, n) ==
  notified # None /\ notified.event = event /\ notified.name = n /\ notified.ok

\* EndSession has been called; that the beacon could not be put on the air again
\* makes its answer a failure, the match is over all the same.
EndAnswered(n) == notified # None /\ notified.event = "End" /\ notified.name = n

CreateAnnounced == notified # None /\ notified.event = "Create"

\* An error page in answer to a registration arrives and the handler ignores it.
ErrorPageIgnored ==
  /\ ~CreateAnnounced'
  /\ \E i \in Ids : /\ http[i] # None /\ http[i].op = "register"
                    /\ http[i].reply = "http500" /\ http'[i] = None

Count(calls) ==
  open' = open + calls - (IF CreateAnnounced' \/ ErrorPageIgnored THEN 1 ELSE 0)

Play ==
  played' = {n \in SessionNames :
               /\ sessions'[n] # None
               /\ ~EndAnswered(n)' /\ ~Announces("Create", n)'
               /\ n \in played \/ Announces("Start", n)'}

HNext ==
  /\ UNCHANGED dedicated
  /\ \/ Creates /\ Count(1)
     \/ Other   /\ Count(0)
  /\ Play

HSpec == HInit /\ [][HNext]_hvars

-----------------------------------------------------------------------------
(* Properties *)

\* Every call of CreateSession is answered by exactly one broadcast of
\* OnCreateSessionComplete, unless the master server sends an error page that does
\* not parse: the calls without an answer are those whose request to the master
\* server is still in flight, however creations overlap, fail, are destroyed
\* meanwhile or clash with an existing session.
CreateAnsweredOnce ==
  Running => open = Cardinality({i \in Ids : http[i] # None /\ http[i].op = "register"})

\* The session created last is not stuck in creation: as long as it is being created,
\* a request is in flight or its removal is under way, although the answer may be
\* lost, the answer to an earlier creation may be taken for its own, and the game may
\* end, destroy and create it again before any answer comes.
LastNotStuck ==
  Running /\ createName # None =>
    (NamedSession(createName) /\ sessions[createName].state = "Creating" =>
       \/ \E i \in Ids : http[i] # None /\ http[i].op = "register"
       \/ resume.todo = "destroy")

\* Once the creation of a LAN session, the end of a match or the removal of a
\* session has been announced as successful, the beacon is on the air exactly if
\* some session is to be advertised, whatever other sessions exist and however
\* their settings, states and open slots changed without a refresh since.
BeaconInStep ==
  notified # None /\ notified.ok
    /\ notified.event \in {"Create", "End", "Destroy"} /\ resume = Nothing
    => ((beacon = "Hosting") <=>
          \E n \in Live(sessions) : NeedsToAdvertise(sessions[n]))

\* "If this lan match has join in progress disabled, shut down the beacon": when
\* the start of a match has been announced and no session is to be advertised, the
\* beacon is off.
StartClosesBeacon ==
  \A n \in SessionNames :
    Announces("Start", n) /\ (\A m \in Live(sessions) : ~NeedsToAdvertise(sessions[m]))
      => beacon # "Hosting"

\* "Can't start a match multiple times": a match that was started is not started
\* again, unless it has ended or a late answer to a creation has put it back to
\* Pending - although EndSession forces the state of sessions that it refuses to
\* end.
StartedOnce ==
  [][\A n \in SessionNames : Announces("Start", n)' /\ sessions[n] # None => n \notin played]_hvars

\* "The session info is no longer needed": nothing uses the info of a session that
\* has been removed.
InfoNotUsedAfterRemoval == crashed # "heartbeat"
=============================================================================
