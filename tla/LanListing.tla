----------------------------- MODULE LanListing -----------------------------
(***************************************************************************)
(* What a player who searches the LAN learns of a session: the settings    *)
(* its host keeps, the packet the host answers a query with, and the       *)
(* search result the client reads from it.                                 *)
(*                                                                         *)
(* The beacon of the host is on the air, for this or for another of its    *)
(* sessions.  Queries and answers are datagrams: lost, late, duplicated,   *)
(* and an answer may arrive with its end missing.                          *)
(* The client accepts an answer while it searches, if the answer carries   *)
(* the nonce of its search (external: FLANSession).                        *)
(***************************************************************************)
EXTENDS Integers, FiniteSets, Sequences

CONSTANTS
  Keys,        \* names of settings
  Data,        \* their values
  Ads,         \* advertisement types, from DontAdvertise = 0 on
  MaxSettings, \* how many settings fit into a packet
  MaxOpen,     \* bounds the open connections
  MaxChanges,  \* bounds the changes of the host
  MaxSearches, \* bounds the searches of the client
  MaxInFlight, \* bounds the answers on their way
  MaxResults,  \* bounds the results of a search
  None         \* not there

ViaOnlineService == 2

ASSUME KeysAssumption  == IsFiniteSet(Keys)
ASSUME NoneAssumption  == None \notin Data
ASSUME AdsAssumption   == Ads \subseteq 0 .. 3
ASSUME BoundAssumption ==
  {MaxSettings, MaxOpen, MaxChanges, MaxSearches, MaxInFlight, MaxResults} \subseteq Nat

Setting == [data : Data, ad : Ads \cup {ViaOnlineService}]

\* visible stands for bShouldAdvertise || bIsLANMatch.
Session == [settings : [Keys -> Setting \cup {None}], state : {"Pending", "InProgress"},
            visible : BOOLEAN, joinInProgress : BOOLEAN, open : 0 .. MaxOpen]

Listed == [Keys -> Data \cup {None}]

\* of and round are history: the session, and the number of the search, that the
\* answer is about.
Answer == [nonce : 0 .. MaxSearches, open : 0 .. MaxOpen, data : Listed,
           of : Session, round : 0 .. MaxSearches]

\* whole is history: did all of the answer arrive?
Result == [open : 0 .. MaxOpen, data : Listed, whole : BOOLEAN,
           of : Session, round : 0 .. MaxSearches]

VARIABLES
  session,   \* the host's session
  query,     \* the query on its way, None if there is none
  packets,   \* answers on their way
  nonce,     \* LanNonce of the client
  searching, \* does it search?
  results,   \* SearchResults of its last search, one for each answer accepted
  public,    \* history: keys the host's game chose to advertise
  round,     \* history: how often the client has searched
  changes    \* bounds the changes of the host

vars == <<session, query, packets, nonce, searching, results, public, round, changes>>

ListingTypeOK ==
  /\ session \in Session
  /\ query \in [nonce : 1 .. MaxSearches, round : 1 .. MaxSearches] \cup {None}
  /\ packets \subseteq Answer
  /\ nonce \in 0 .. MaxSearches
  /\ searching \in BOOLEAN
  /\ results \in Seq(Result)
  /\ public \subseteq Keys
  /\ round \in 0 .. MaxSearches
  /\ changes \in 0 .. MaxChanges

Init ==
  /\ session \in {s \in Session : /\ s.settings = [k \in Keys |-> None]
                                  /\ s.state = "Pending" /\ s.open = MaxOpen}
  /\ query = None
  /\ packets = {}
  /\ nonce = 0
  /\ searching = FALSE
  /\ results = <<>>
  /\ public = {}
  /\ round = 0
  /\ changes = 0

-----------------------------------------------------------------------------
(* The host *)

Change(to) ==
  /\ changes < MaxChanges
  /\ changes' = changes + 1
  /\ session' = to
  /\ UNCHANGED <<query, packets, nonce, searching, results, round>>

\* The game updates the session with settings of its own making.
UpdateSession(k, d, ad) ==
  /\ Change([session EXCEPT !.settings[k] = [data |-> d, ad |-> ad]])
  /\ public' = IF ad >= ViaOnlineService THEN public \cup {k} ELSE public

\* Mutant: a setting that the node changes is advertised from then on.
UpdateNodePublishes(k, d) ==
  /\ Change([session EXCEPT !.settings[k] = [data |-> d, ad |-> ViaOnlineService]])
  /\ public' = IF session.settings[k] = None THEN public \cup {k} ELSE public

\* The Blueprint node changes the data of a setting, or adds an advertised one.
UpdateNode(k, d) ==
  IF session.settings[k] = None
  THEN UpdateSession(k, d, ViaOnlineService)
  ELSE Change([session EXCEPT !.settings[k].data = d]) /\ UNCHANGED public

\* Mutant: a connection is taken from a full session.
PlayOverbooked ==
  /\ Change([session EXCEPT !.open = @ - 1])
  /\ UNCHANGED public

\* Players register and leave, the match starts and ends.
Play ==
  /\ \/ \E open \in 0 .. MaxOpen :
          open # session.open /\ Change([session EXCEPT !.open = open])
     \/ Change([session EXCEPT !.state = IF @ = "Pending" THEN "InProgress" ELSE "Pending"])
  /\ UNCHANGED public

IsSessionJoinable(s) ==
  /\ s.visible
  /\ s.state # "InProgress" \/ s.joinInProgress
  /\ s.open > 0

\* The settings that AppendSessionSettingsToPacket appends.
Appended(s) == {k \in Keys : s.settings[k] # None /\ s.settings[k].ad >= ViaOnlineService}

\* The number of advertised settings precedes them.
AppendSessionToPacket(s, q) ==
  [nonce |-> q.nonce, open |-> s.open, of |-> s, round |-> q.round,
   data  |-> [k \in Keys |-> IF k \in Appended(s) THEN s.settings[k].data ELSE None]]

Overflow(s) == Cardinality(Appended(s)) > MaxSettings

\* A packet that does not fit is not sent.
OnValidQueryPacketReceived ==
  /\ query # None /\ Cardinality(packets) < MaxInFlight
  /\ query' \in {query, None}   \* the query may arrive twice
  /\ packets' = IF IsSessionJoinable(session) /\ ~Overflow(session)
                THEN packets \cup {AppendSessionToPacket(session, query)} ELSE packets
  /\ UNCHANGED <<session, nonce, searching, results, public, round, changes>>

-----------------------------------------------------------------------------
(* The client *)

\* Mutant: the nonce of the first search is used for every search.
FindLANSessionSameNonce ==
  /\ ~searching /\ round < MaxSearches
  /\ round' = round + 1
  /\ nonce' = 1
  /\ query' = [nonce |-> nonce', round |-> round']
  /\ searching' = TRUE
  /\ results' = <<>>
  /\ UNCHANGED <<session, packets, public, changes>>

FindLANSession ==
  /\ ~searching /\ round < MaxSearches
  /\ round' = round + 1
  /\ nonce' = round'            \* GenerateNonce: none that was used before
  /\ query' = [nonce |-> nonce', round |-> round']
  /\ searching' = TRUE
  /\ results' = <<>>
  /\ UNCHANGED <<session, packets, public, changes>>

\* The settings that a packet has, those that arrive, and none.
Sent(p)         == {k \in Keys : p.data[k] # None}
Read(p, arrive) == [k \in Keys |-> IF k \in arrive THEN p.data[k] ELSE None]
NoSettings      == [k \in Keys |-> None]

\* Mutant: what was read before the bytes ran out is kept.
ReadSettingsKeepsRead(p, arrive) == Read(p, arrive)

\* The loop reads as many settings as the packet says it has; a packet that runs out
\* of bytes before is treated as broken.
ReadSettingsFromPacket(p, arrive) ==
  IF arrive = Sent(p) THEN Read(p, arrive) ELSE NoSettings

\* head: did the fields before the settings arrive?  A field that did not keeps the
\* default of a new session, and nothing after it is there.
ReadSessionFromPacket(p, head, arrive) ==
  [open  |-> IF head THEN p.open ELSE 0,
   data  |-> ReadSettingsFromPacket(p, IF head THEN arrive ELSE {}),
   whole |-> head /\ arrive = Sent(p), of |-> p.of, round |-> p.round]

\* The result is in the list before it is read, and stays there broken or not.
OnValidResponsePacketReceived(p, head, arrive) ==
  /\ p \in packets /\ Len(results) < MaxResults
  /\ packets' \in {packets, packets \ {p}}
  /\ searching /\ p.nonce = nonce
  /\ results' = Append(results, ReadSessionFromPacket(p, head, arrive))
  /\ UNCHANGED <<session, query, nonce, searching, public, round, changes>>

\* The search times out or is cancelled; the game keeps the results.
SearchEnds ==
  /\ searching
  /\ searching' = FALSE
  /\ UNCHANGED <<session, query, packets, nonce, results, public, round, changes>>

Lose ==
  /\ \/ query # None /\ query' = None /\ UNCHANGED packets
     \/ \E p \in packets : packets' = packets \ {p} /\ UNCHANGED query
  /\ UNCHANGED <<session, nonce, searching, results, public, round, changes>>

Next ==
  \/ \E k \in Keys, d \in Data, ad \in Ads : UpdateSession(k, d, ad)
  \/ \E k \in Keys, d \in Data : UpdateNode(k, d)
  \/ Play
  \/ OnValidQueryPacketReceived
  \/ FindLANSession
  \/ \E p \in packets, head \in BOOLEAN : \E arrive \in SUBSET Sent(p) :
        OnValidResponsePacketReceived(p, head, arrive)
  \/ SearchEnds
  \/ Lose

Spec == Init /\ [][Next]_vars

-----------------------------------------------------------------------------
(* Properties *)

\* A search result is the truth of the moment the host answered, although the host may
\* change and fill up while the answer is on its way: the session could be joined then,
\* and of its advertised settings the result has all, with their values, or none.  It
\* has none, or hides that connections are open, only if the answer arrived with its
\* end missing: a session too large for a packet is not cut short by its host.
ResultsTrue ==
  \A i \in DOMAIN results :
    LET r         == results[i]
        Public(k) == r.of.settings[k] # None /\ r.of.settings[k].ad \in {2, 3}
    IN  /\ r.of.open > 0 /\ r.of.visible
        /\ r.of.state = "InProgress" => r.of.joinInProgress
        /\ r.open = r.of.open \/ (r.open = 0 /\ ~r.whole)
        /\ \/ \A k \in Keys :
                r.data[k] = IF Public(k) THEN r.of.settings[k].data ELSE None
           \/ ~r.whole /\ \A k \in Keys : r.data[k] = None
        /\ Cardinality({k \in Keys : Public(k)}) <= MaxSettings

\* A late answer to an earlier search is not taken for one of the present search.
ResultsOfThisSearch == \A i \in DOMAIN results : results[i].round = round

\* A setting that the host's game kept to itself is never on the air, not even after
\* the Blueprint node has changed it, and no search result shows it.
NothingPrivate ==
  /\ \A p \in packets, k \in Keys : p.data[k] # None => k \in public
  /\ \A i \in DOMAIN results, k \in Keys : results[i].data[k] # None => k \in public
=============================================================================
