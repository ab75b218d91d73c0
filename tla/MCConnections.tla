--------------------------- MODULE MCConnections ---------------------------
(***************************************************************************)
(* The components that live on connections and threads of one host, side   *)
(* by side: the theme's way to its subscribers, the mesh of peers, the     *)
(* ownership of the bus, subprocesses and streams.                         *)
(* They share no state, so that an interleaving of two of them shows       *)
(* nothing that one alone does not: a behaviour is one of the component    *)
(* that was chosen at its start, and the others keep their initial state,  *)
(* in which none of their fair actions is enabled.                         *)
(***************************************************************************)
EXTENDS ThemeSync, PeerMesh, BusDaemon, ChildRun, Streams

CONSTANTS h1, h2

VARIABLE part

vars == <<part, syncVars, peerVars, daemonVars, childVars, streamVars>>

(* Two hosts that dial each other.                                         *)
MutualDials == {<<h1, h2>>, <<h2, h1>>}

Init ==
  /\ part \in {"theme", "peers", "daemon", "child", "streams"}
  /\ ThemeSyncInit /\ PeerMeshInit /\ BusDaemonInit /\ ChildRunInit /\ StreamsInit

Next ==
  \/ /\ part = "theme" /\ ThemeSyncNext
     /\ UNCHANGED <<part, peerVars, daemonVars, childVars, streamVars>>
  \/ /\ part = "peers" /\ PeerMeshNext
     /\ UNCHANGED <<part, syncVars, daemonVars, childVars, streamVars>>
  \/ /\ part = "daemon" /\ BusDaemonNext
     /\ UNCHANGED <<part, syncVars, peerVars, childVars, streamVars>>
  \/ /\ part = "child" /\ ChildRunNext
     /\ UNCHANGED <<part, syncVars, peerVars, daemonVars, streamVars>>
  \/ /\ part = "streams" /\ StreamsNext
     /\ UNCHANGED <<part, syncVars, peerVars, daemonVars, childVars>>

Spec ==
  /\ Init /\ [][Next]_vars
  /\ ThemeSyncFairness /\ PeerMeshFairness
  /\ BusDaemonFairness /\ ChildRunFairness /\ StreamsFairness

(* The type invariants of the five components.                              *)
ConnectionTypesOK ==
  /\ ThemeSyncTypeOK /\ PeerMeshTypeOK
  /\ BusDaemonTypeOK /\ ChildRunTypeOK /\ StreamsTypeOK
=============================================================================
