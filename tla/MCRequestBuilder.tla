-------------------------- MODULE MCRequestBuilder --------------------------
(***************************************************************************)
(* An instance of RequestBuilder for TLC.                                  *)
(***************************************************************************)
EXTENDS RequestBuilder

SomeDates == -3 .. 9
SomeSizes == -1 .. 5
=============================================================================
