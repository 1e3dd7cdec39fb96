---------------------------- MODULE MCLanListing ----------------------------
(* A session with few settings; which of them, and with which value, is alike. *)
EXTENDS LanListing, TLC

ListingSymmetry == Permutations(Keys) \cup Permutations(Data)
=============================================================================
