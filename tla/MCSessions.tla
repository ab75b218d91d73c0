----------------------------- MODULE MCSessions -----------------------------
(***************************************************************************)
(* What a session of one connection is concerned with, side by side: the   *)
(* reading of pages, the theme's way to its subscribers, and streams.      *)
(* They share no state: a behaviour is one of the component chosen at its  *)
(* start, and the others keep their initial state, in which none of their  *)
(* fair actions is enabled.                                                *)
(***************************************************************************)
EXTENDS PageRendezvous, ThemeSync, Streams

VARIABLE part

vars == <<part, rvars, syncVars, streamVars>>

Init ==
  /\ part \in {"page", "theme", "streams"}
  /\ RendezvousInit /\ ThemeSyncInit /\ StreamsInit

Next ==
  \/ part = "page" /\ RendezvousNext /\ UNCHANGED <<part, syncVars, streamVars>>
  \/ part = "theme" /\ ThemeSyncNext /\ UNCHANGED <<part, rvars, streamVars>>
  \/ part = "streams" /\ StreamsNext /\ UNCHANGED <<part, rvars, syncVars>>

Spec ==
  /\ Init /\ [][Next]_vars
  /\ RendezvousFairness /\ ThemeSyncFairness /\ StreamsFairness
=============================================================================
