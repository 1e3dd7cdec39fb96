----------------------------- MODULE MCSession -----------------------------
(* The session interface on a few names and kinds of settings. *)
EXTENDS SessionHistory, TLC

LanOpen   == [lan |-> TRUE,  advertise |-> TRUE, joinInProgress |-> TRUE,  presence |-> FALSE]
LanClosed == [lan |-> TRUE,  advertise |-> TRUE, joinInProgress |-> FALSE, presence |-> FALSE]
Online    == [lan |-> FALSE, advertise |-> TRUE, joinInProgress |-> TRUE,  presence |-> FALSE]
Party     == [lan |-> FALSE, advertise |-> TRUE, joinInProgress |-> TRUE,  presence |-> TRUE]

AllKinds     == {LanOpen, Party}
LanAndOnline == {LanClosed, Online}
OnlineOnly   == {Online}

RequestSymmetry == Permutations(Ids)
=============================================================================
