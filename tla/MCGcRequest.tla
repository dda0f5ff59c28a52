---------------------------- MODULE MCGcRequest ----------------------------
(* Two requesters, and a blocking, a lite-blocking and an asynchronous     *)
(* reason under the numbers GCReason gives them.                           *)
EXTENDS GcRequest
=============================================================================
