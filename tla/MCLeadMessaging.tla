--------------------------- MODULE MCLeadMessaging ---------------------------
(* A small instance of LeadMessaging for TLC.  Dispatchers are interchangeable,
   but the run checks liveness, for which a symmetry set would not be sound. *)
EXTENDS LeadMessaging, TLC
=============================================================================
