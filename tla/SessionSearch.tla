--------------------------- MODULE SessionSearch ---------------------------
(***************************************************************************)
(* FOnlineSessionPython: the search for sessions, on the LAN or through    *)
(* the master server, next to the named sessions with which it shares the  *)
(* LAN beacon.                                                             *)
(*                                                                         *)
(* One search at a time: CurrentSessionSearch.  The handler of a listing   *)
(* broadcasts its result, forgets the search and broadcasts once more; as  *)
(* the game may call in from the first broadcast, the rest of the handler  *)
(* is kept in again.                                                       *)
(***************************************************************************)
EXTENDS SessionInterface

VARIABLES
  search,  \* CurrentSessionSearch: the kind and SearchState of the search, or None
  find,    \* requests for the server list that are not yet completed
  again    \* has FindSessions_ResponseReceived still its second broadcast to make?

svars == <<search, find, again>>
allvars == <<vars, svars>>

Search == [lan : BOOLEAN, state : {"NotStarted", "InProgress", "Failed"}]

ASSUME SearchAssumption == None \notin Search

STypeOK ==
  /\ TypeOK
  /\ search \in Search \cup {None}
  /\ find \in [Ids -> {"none", "pending", "listing", "error", "http500"}]
  /\ again \in BOOLEAN

SInit ==
  /\ Init
  /\ search = None
  /\ find = [i \in Ids |-> "none"]
  /\ again = FALSE

Searching == search # None /\ search.lan /\ search.state = "InProgress"
Asked     == {i \in Ids : find[i] # "none"}

\* Nothing but the search itself changes.
OnlySearch == UNCHANGED <<sessions, createName, http, timer, resume, listed>>

\* FinalizeLANSearch stops the search, then the beacon advertises again if it is to.
HandBack(event, ok) ==
  IF DereferencesUnset(sessions)
  THEN /\ crashed' = "owner"
       /\ beacon' = "NotUsingLanBeacon"
       /\ Quiet
  ELSE /\ beacon' \in IF Advertised(sessions) THEN {"Hosting", "NotUsingLanBeacon"}
                      ELSE {"NotUsingLanBeacon"}
       /\ Trigger(event, None, ok)
       /\ UNCHANGED crashed

-----------------------------------------------------------------------------
(* Calls of the game *)

\* While one search is current another is ignored, as if it had been started.
FindIgnored ==
  /\ search # None
  /\ Quiet
  /\ OnlySearch
  /\ UNCHANGED <<beacon, crashed, svars>>

\* Searching takes the beacon away from hosting.  When the query cannot be sent, the
\* beacon is handed back; the failed search stays the current one.
FindLAN ==
  /\ search = None
  /\ \/ /\ beacon' = "Searching"
        /\ search' = [lan |-> TRUE, state |-> "InProgress"]
        /\ Quiet
        /\ UNCHANGED crashed
     \/ /\ search' = [lan |-> TRUE, state |-> "Failed"]
        /\ HandBack("Find", FALSE)
  /\ OnlySearch
  /\ UNCHANGED <<find, again>>

FindInternet ==
  /\ search = None
  /\ search' = [lan |-> FALSE, state |-> "NotStarted"]
  /\ \E i \in Ids \ Asked : find' = [find EXCEPT ![i] = "pending"]
  /\ Quiet
  /\ OnlySearch
  /\ UNCHANGED <<beacon, crashed, again>>

FindSessions(lan) ==
  /\ Running
  /\ \/ FindIgnored
     \/ lan /\ FindLAN
     \/ ~lan /\ FindInternet

\* Mutant: any search can be cancelled.
CancelAnySearch ==
  /\ Running
  /\ search' = None
  /\ Trigger("CancelFind", None, TRUE)
  /\ OnlySearch
  /\ UNCHANGED <<beacon, crashed, find, again>>

\* Only a LAN search can be cancelled; the answer is a success either way.
CancelFindSessions ==
  /\ Running
  /\ IF Searching
     THEN /\ HandBack("CancelFind", TRUE)
          /\ search' = None
     ELSE /\ Trigger("CancelFind", None, TRUE)
          /\ UNCHANGED <<beacon, crashed, search>>
  /\ OnlySearch
  /\ UNCHANGED <<find, again>>

\* Not supported: the answer is a failure at once.
FindFriendSession ==
  /\ Running
  /\ Trigger("FindFriend", None, FALSE)
  /\ OnlySearch
  /\ UNCHANGED <<beacon, crashed, svars>>

-----------------------------------------------------------------------------
(* Answers *)

ServeListing(i) ==
  /\ find[i] = "pending"
  /\ \E reply \in {"listing"} \cup (IF FaultyServer THEN {"error", "http500"} ELSE {}) :
       find' = [find EXCEPT ![i] = reply]
  /\ Quiet
  /\ OnlySearch
  /\ UNCHANGED <<beacon, crashed, search, again>>

\* No response: the listeners are told of a success, the search stays current.
FindUnanswered ==
  /\ Trigger("Find", None, TRUE)
  /\ UNCHANGED <<search, again, crashed>>

\* A listing with entries is read into the results of the current search.
FindAnswered(reply) ==
  /\ reply \in {"listing", "error"}
  /\ \/ /\ reply = "listing" /\ search = None
        /\ crashed' = "search"
        /\ Quiet
        /\ UNCHANGED again
     \/ /\ reply = "listing" => search # None
        /\ Trigger("Find", None, reply = "listing")
        /\ again' = TRUE
        /\ UNCHANGED crashed
  /\ UNCHANGED search

\* Mutant: an error page is only logged.
FindUnparsableQuietly(reply) ==
  /\ reply = "http500"
  /\ search' = None
  /\ Quiet
  /\ UNCHANGED <<again, crashed>>

\* It ends the search as a failure.
FindUnparsable(reply) ==
  /\ reply = "http500"
  /\ search' = None
  /\ Trigger("Find", None, FALSE)
  /\ UNCHANGED <<again, crashed>>

FindSessions_ResponseReceived(i) ==
  /\ Running /\ resume = Nothing /\ ~again
  /\ i \in Asked
  /\ find' = [find EXCEPT ![i] = "none"]
  /\ \/ FindUnanswered
     \/ FindAnswered(find[i])
     \/ FindUnparsable(find[i])
  /\ OnlySearch
  /\ UNCHANGED beacon

\* Whatever the answer was, the handler ends with the broadcast of a failure.
FindEnds ==
  /\ Running /\ again
  /\ search' = None
  /\ again' = FALSE
  /\ Trigger("Find", None, FALSE)
  /\ OnlySearch
  /\ UNCHANGED <<beacon, crashed, find>>

\* The time for answers from the LAN is over.
OnLANSearchTimeout ==
  /\ Running /\ resume = Nothing /\ ~again
  /\ beacon = "Searching"
  /\ HandBack("Find", TRUE)
  /\ search' = None
  /\ OnlySearch
  /\ UNCHANGED <<find, again>>

-----------------------------------------------------------------------------
SearchCall == (\E lan \in BOOLEAN : FindSessions(lan)) \/ CancelFindSessions \/ FindFriendSession

SearchTurn == (\E i \in Ids : FindSessions_ResponseReceived(i)) \/ FindEnds \/ OnLANSearchTimeout

SNext ==
  /\ UNCHANGED dedicated
  /\ \/ (Creates \/ Game \/ MasterServer) /\ UNCHANGED svars
     \/ Turn /\ ~again /\ UNCHANGED svars
     \/ SearchCall \/ SearchTurn
     \/ \E i \in Ids : ServeListing(i)

SSpec == SInit /\ [][SNext]_allvars

-----------------------------------------------------------------------------
(* Properties *)

\* The beacon searches exactly as long as a LAN search is the current one, although
\* sessions that are created, started, ended, updated and destroyed meanwhile
\* refresh the same beacon, and a search may fail, be cancelled or time out.
SearchHoldsBeacon == Running => (beacon = "Searching" <=> Searching)

\* When the server list arrives there is a search to put it in, and it is the one
\* that asked: at most one request is ever in flight, cancelling a search or
\* searching the LAN never takes the current search away from a request.
AnswerHasSearch ==
  /\ Cardinality(Asked) <= 1
  /\ Asked # {} \/ again => search # None /\ ~search.lan
=============================================================================
