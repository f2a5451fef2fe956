------------------------------- MODULE MCFeed -------------------------------
(* Instances of Feed for TLC; the two streams are checked apart.           *)
EXTENDS Feed
=============================================================================
