------------------------------ MODULE PeerMesh ------------------------------
(***************************************************************************)
(* Federation of the event buses of several hosts: src/src/peer.rs, and    *)
(* the pub, peer_hello and peer_pub requests of src/src/session.rs.  A     *)
(* host keeps a table of links by which it forwards what is published on   *)
(* its bus; it dials the peers it was given, again and again, and accepts  *)
(* the peers that dial it, so that two hosts may be joined both ways.      *)
(*                                                                         *)
(* A connection is named by its two ends, <<dialler, acceptor>>.  Frames   *)
(* of one direction arrive in order; those not read when it breaks are     *)
(* lost.  All hosts have the same token and each a name of its own.        *)
(***************************************************************************)
EXTENDS Naturals, Sequences, FiniteSets

CONSTANTS
  Host,
  Dials,      \* pairs <<d, a>>: d was told to keep a link to a
  MaxEvents,  \* bound of the model: events published
  MaxBreaks   \* bound of the model: connections lost

ASSUME PeerMeshAssumption ==
  Dials \subseteq Host \X Host /\ MaxEvents \in Nat /\ MaxBreaks \in Nat

VARIABLES
  links,      \* each host's table: records of id, peer name and connection
  lastLink,   \* each host's link counter
  dialler,    \* the thread of each dial: "none", "down", "hello", "up" or "ending"
  acceptor,   \* the session at the other end: "none", "open" or "linked"
  frames,     \* frames in flight on each connection, by the host they go to
  ending,     \* links whose sessions have yet to notice the end of their connection
  forwarding, \* each host's broadcasts under way: an event and the links left
  delivered,  \* how often each event reached each host's bus
  events, breaks

peerVars == <<links, lastLink, dialler, acceptor, frames, ending, forwarding,
              delivered, events, breaks>>

Hello == [kind |-> "hello"]
Reply == [kind |-> "reply"]
Pub(e) == [kind |-> "pub", event |-> e]
Other(c, h) == IF h = c[1] THEN c[2] ELSE c[1]
NoLink == 0
Event == 1 .. MaxEvents

-----------------------------------------------------------------------------
PeerMeshInit ==
  /\ links = [h \in Host |-> {}] /\ lastLink = [h \in Host |-> 0]
  /\ dialler = [c \in Dials |-> [pc |-> "none", link |-> NoLink]]
  /\ acceptor = [c \in Dials |-> [pc |-> "none", link |-> NoLink]]
  /\ frames = [c \in Dials |-> [h \in {c[1], c[2]} |-> <<>>]]
  /\ ending = [h \in Host |-> {}]
  /\ forwarding = [h \in Host |-> {}]
  /\ delivered = [h \in Host |-> [e \in Event |-> 0]]
  /\ events = 0 /\ breaks = 0

SendFrame(c, h, f) == frames' = [frames EXCEPT ![c][h] = Append(@, f)]
TakeFrame(c, h) == frames' = [frames EXCEPT ![c][h] = Tail(@)]
Arriving(c, h, kind) == frames[c][h] # <<>> /\ Head(frames[c][h]).kind = kind

(* register_link replaces a link of the same name. *)
Others(h, peer) == {l \in links[h] : l.peer # peer}

RegisterLink(h, c) ==
  /\ lastLink' = [lastLink EXCEPT ![h] = @ + 1]
  /\ links' = [links EXCEPT ![h] =
       Others(h, Other(c, h)) \cup {[id |-> lastLink[h] + 1, peer |-> Other(c, h), conn |-> c]}]

(* The configuration or a peer_connect request names a peer: dial starts   *)
(* the thread that keeps the link.                                         *)
StartDialling(c) ==
  /\ dialler[c].pc = "none"
  /\ dialler' = [dialler EXCEPT ![c].pc = "down"]
  /\ UNCHANGED <<links, lastLink, acceptor, frames, ending, forwarding, delivered, events, breaks>>

(* try_dial connects and introduces itself. *)
Dial(c) ==
  /\ dialler[c].pc = "down"
  /\ dialler' = [dialler EXCEPT ![c].pc = "hello"]
  /\ acceptor' = [acceptor EXCEPT ![c] = [pc |-> "open", link |-> NoLink]]
  /\ frames' = [frames EXCEPT ![c] = [h \in {c[1], c[2]} |-> IF h = c[2] THEN <<Hello>> ELSE <<>>]]
  /\ UNCHANGED <<links, lastLink, ending, forwarding, delivered, events, breaks>>

(* peer_hello: the link is in the table before the reply is sent. *)
AcceptHello(c) ==
  /\ acceptor[c].pc = "open" /\ Arriving(c, c[2], "hello")
  /\ RegisterLink(c[2], c) /\ TakeFrame(c, c[2])
  /\ acceptor' = [acceptor EXCEPT ![c] = [pc |-> "replying", link |-> lastLink'[c[2]]]]
  /\ UNCHANGED <<dialler, ending, forwarding, delivered, events, breaks>>

ReplyHello(c) ==
  /\ acceptor[c].pc = "replying"
  /\ SendFrame(c, c[1], Reply)
  /\ acceptor' = [acceptor EXCEPT ![c].pc = "linked"]
  /\ UNCHANGED <<links, lastLink, dialler, ending, forwarding, delivered, events, breaks>>

(* The first frame back must be the reply; a forwarded event that came     *)
(* before it makes the dialler give up and dial again.                     *)
DialAnswered(c) ==
  /\ dialler[c].pc = "hello" /\ Arriving(c, c[1], "reply")
  /\ RegisterLink(c[1], c) /\ TakeFrame(c, c[1])
  /\ dialler' = [dialler EXCEPT ![c] = [pc |-> "up", link |-> lastLink'[c[1]]]]
  /\ UNCHANGED <<acceptor, ending, forwarding, delivered, events, breaks>>

(* Both ends forget the connection; the acceptor's session notices later.  *)
Hangup(c) ==
  /\ frames' = [frames EXCEPT ![c] = [h \in {c[1], c[2]} |-> <<>>]]
  /\ ending' = [ending EXCEPT ![c[2]] = @ \cup ({acceptor[c].link} \ {NoLink})]
  /\ acceptor' = [acceptor EXCEPT ![c] = [pc |-> "none", link |-> NoLink]]
  /\ dialler' = [dialler EXCEPT ![c].pc = IF @ = "up" THEN "ending" ELSE "down"]

DialRejected(c) ==
  /\ dialler[c].pc = "hello" /\ Arriving(c, c[1], "pub")
  /\ Hangup(c)
  /\ UNCHANGED <<links, lastLink, forwarding, delivered, events, breaks>>

Break(c) ==
  /\ breaks < MaxBreaks /\ dialler[c].pc \in {"hello", "up"}
  /\ breaks' = breaks + 1
  /\ Hangup(c)
  /\ UNCHANGED <<links, lastLink, forwarding, delivered, events>>

(* Mutant: the link is removed by the peer's name. *)
NamedAs(h, id) == {l \in links[h] : \E c \in Dials : c[2] = h /\ l.peer = c[1]}
Identified(h, id) == {l \in links[h] : l.id = id}
Unregistered(h, id) == [links EXCEPT ![h] = @ \ Identified(h, id)]

(* The dialling thread removes its link before it dials again. *)
DialEnds(c) ==
  /\ dialler[c].pc = "ending"
  /\ links' = Unregistered(c[1], dialler[c].link)
  /\ dialler' = [dialler EXCEPT ![c] = [pc |-> "down", link |-> NoLink]]
  /\ UNCHANGED <<lastLink, acceptor, frames, ending, forwarding, delivered, events, breaks>>

(* Session::drop removes the link of an inbound session, which may come    *)
(* after the peer has dialled again.                                       *)
SessionEnds(h) == \E id \in ending[h] :
  /\ links' = Unregistered(h, id)
  /\ ending' = [ending EXCEPT ![h] = @ \ {id}]
  /\ UNCHANGED <<lastLink, dialler, acceptor, frames, forwarding, delivered, events, breaks>>

DeliverOn(h, e) == delivered' = [delivered EXCEPT ![h][e] = IF @ < 2 THEN @ + 1 ELSE @]

(* pub: delivered here, then forwarded on the links of this moment. *)
PublishEvent(h) ==
  /\ events < MaxEvents
  /\ events' = events + 1
  /\ DeliverOn(h, events + 1)
  /\ forwarding' = [forwarding EXCEPT ![h] = @ \cup {[event |-> events + 1, to |-> links[h]]}]
  /\ UNCHANGED <<links, lastLink, dialler, acceptor, frames, ending, breaks>>

(* The connection of a link is still there. *)
LiveLinks(h, l) == IF h = l.conn[1] THEN dialler[l.conn] = [pc |-> "up", link |-> l.id]
              ELSE acceptor[l.conn].link = l.id

Forward(h) == \E b \in forwarding[h] :
  /\ IF b.to = {} THEN forwarding' = [forwarding EXCEPT ![h] = @ \ {b}] /\ UNCHANGED frames
     ELSE \E l \in b.to :
       /\ IF LiveLinks(h, l) THEN SendFrame(l.conn, Other(l.conn, h), Pub(b.event)) ELSE UNCHANGED frames
       /\ forwarding' = [forwarding EXCEPT ![h] = (@ \ {b}) \cup {[b EXCEPT !.to = @ \ {l}]}]
  /\ UNCHANGED <<links, lastLink, dialler, acceptor, ending, delivered, events, breaks>>

(* Mutant: a federated event is published like a local one. *)
Reforwarded(h, e) == [forwarding EXCEPT ![h] = @ \cup {[event |-> e, to |-> links[h]]}]
NotForwarded(h, e) == forwarding

(* peer_pub: delivered on this bus and not forwarded. *)
PeerPub(c, h) ==
  /\ h = c[1] => dialler[c].pc = "up"
  /\ h = c[2] => acceptor[c].pc = "linked"
  /\ Arriving(c, h, "pub")
  /\ LET e == Head(frames[c][h]).event IN
     DeliverOn(h, e) /\ forwarding' = NotForwarded(h, e)
  /\ TakeFrame(c, h)
  /\ UNCHANGED <<links, lastLink, dialler, acceptor, ending, events, breaks>>

PeerProgress(c) ==
  \/ Dial(c) \/ AcceptHello(c) \/ ReplyHello(c) \/ DialAnswered(c) \/ DialRejected(c)
  \/ DialEnds(c) \/ \E h \in {c[1], c[2]} : PeerPub(c, h)

PeerMeshNext ==
  \/ \E c \in Dials : StartDialling(c) \/ PeerProgress(c) \/ Break(c)
  \/ \E h \in Host : SessionEnds(h) \/ PublishEvent(h) \/ Forward(h)

(* Threads take the steps they have; frames arrive.  Nobody must publish,  *)
(* and no connection must break.                                           *)
PeerMeshFairness ==
  /\ \A c \in Dials : WF_peerVars(PeerProgress(c))
  /\ \A h \in Host : WF_peerVars(SessionEnds(h)) /\ WF_peerVars(Forward(h))

PeerMeshSpec == PeerMeshInit /\ [][PeerMeshNext]_peerVars /\ PeerMeshFairness

-----------------------------------------------------------------------------
PeerMeshTypeOK ==
  /\ \A h \in Host : \A l \in links[h] : l.id \in 1 .. lastLink[h] /\ l.conn \in Dials
  /\ \A c \in Dials : /\ dialler[c].pc \in {"none", "down", "hello", "up", "ending"}
                      /\ acceptor[c].pc \in {"none", "open", "replying", "linked"}

(* session.rs:609-610: an event does not loop around the mesh.  It reaches *)
(* each bus at most once, also between two hosts that dial each other and  *)
(* while a link is being replaced by a newer one.                          *)
EventArrivesOnce == \A h \in Host, e \in Event : delivered[h][e] <= 1

(* peer.rs:180: a dialled link is kept up.  Whatever broke, or was refused *)
(* because an event overtook the handshake, both ends come back to a link  *)
(* that works, and a session that ends late does not take it away.         *)
PeersRelink == <>[](\A c \in Dials : dialler[c].pc # "none" => \A h \in {c[1], c[2]} :
  \E l \in links[h] : l.peer = Other(c, h) /\ LiveLinks(h, l))
=============================================================================
