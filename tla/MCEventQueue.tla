---------------------------- MODULE MCEventQueue ----------------------------
(* Small instances of the event queue for TLC.                             *)
EXTENDS EventQueue

\* Two subscribers of different Go types, and two of the same type.
TwoTypes == <<"posthog", "webhook">>
OneType == <<"webhook", "webhook">>
=============================================================================
