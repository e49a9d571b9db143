---------------------------- MODULE RemoteAccess ----------------------------
(***************************************************************************)
(* How a paired device reaches the node from elsewhere: the signaling      *)
(* client (src/webrtc/nodeSignalingClient.ts), the peer connection of each *)
(* session (src/webrtc/nodePeer.ts) and, on one of them, the data channel  *)
(* of ChannelServer.                                                       *)
(*                                                                         *)
(* A session is a short rendezvous; the peer it negotiates outlives it in  *)
(* activePeers.  The device, the ICE stack and the control plane are the   *)
(* environment: their events come in any order that they can.              *)
(***************************************************************************)
EXTENDS ChannelServer

CONSTANTS
  Sessions,     \* rendezvous ids
  Served,       \* the session whose channel is followed
  MaxSessions   \* MAX_SESSIONS

ASSUME ServedAssumption == Served \in Sessions

VARIABLES
  sessions,   \* none, pending or gone
  accepting,  \* the sessions whose session:accept is not acknowledged yet
  peer,       \* the state of each session's peer connection
  active,     \* activePeers
  lapsed,     \* the peers that were disconnected after their rendezvous
  socket,     \* the signaling socket is connected
  clientStopped   \* `stopped`: stop() has been called

accessVars == <<sessions, accepting, peer, active, lapsed, socket, clientStopped>>
remoteVars == <<channelVars, accessVars>>

PeerStates == {"none", "new", "connecting", "connected", "disconnected", "closed"}
Open(s) == peer[s] \notin {"none", "closed"}
Pending == {s \in Sessions : sessions[s] = "pending"}

RemoteTypeOK ==
  /\ ChannelTypeOK
  /\ sessions \in [Sessions -> {"none", "pending", "gone"}]
  /\ peer \in [Sessions -> PeerStates]
  /\ accepting \subseteq Sessions /\ active \subseteq Sessions /\ lapsed \subseteq Sessions
  /\ socket \in BOOLEAN /\ clientStopped \in BOOLEAN

RemoteInit ==
  /\ ChannelInit
  /\ sessions = [s \in Sessions |-> "none"]
  /\ peer = [s \in Sessions |-> "none"]
  /\ accepting = {} /\ active = {} /\ lapsed = {}
  /\ socket = TRUE /\ clientStopped = FALSE

-----------------------------------------------------------------------------
\* NodePeer.close() of the peers in S, and of the channel of one of them.
ClosePeers(S) ==
  /\ peer' = [s \in Sessions |-> IF s \in S /\ Open(s) THEN "closed" ELSE peer[s]]
  /\ IF Served \in S /\ server = "open" THEN Close ELSE UNCHANGED channelVars

\* closeSession(), for any reason but a rendezvous that has done its work.
CloseSession(s) ==
  /\ s \in Pending
  /\ sessions' = [sessions EXCEPT ![s] = "gone"]
  /\ accepting' = accepting \ {s}
  /\ active' = active \ {s}
  /\ ClosePeers({s})
  /\ UNCHANGED <<lapsed, socket, clientStopped>>

\* acceptIncoming().
AcceptIncoming(s) ==
  /\ socket /\ ~clientStopped /\ sessions[s] = "none" /\ Cardinality(Pending) < MaxSessions
  /\ sessions' = [sessions EXCEPT ![s] = "pending"]
  /\ accepting' = accepting \cup {s}
  /\ UNCHANGED <<channelVars, peer, active, lapsed, socket, clientStopped>>

AcceptSettles(s) ==
  /\ s \in accepting
  /\ \/ socket /\ accepting' = accepting \ {s}
               /\ UNCHANGED <<channelVars, sessions, peer, active, lapsed, socket, clientStopped>>
     \/ CloseSession(s)

\* acceptOffer(): the node always answers; an invalid offer ends the session.
AcceptOffer(s) ==
  /\ socket /\ s \in Pending /\ peer[s] = "none"
  /\ \/ peer' = [peer EXCEPT ![s] = "new"]
        /\ UNCHANGED <<channelVars, sessions, accepting, active, lapsed, socket, clientStopped>>
     \/ CloseSession(s)

\* The relay of the answer or of a candidate fails, the timer of the session
\* fires, or the control plane ends it: expired, rejected, to be restarted.
SessionEnds(s) == CloseSession(s)

\* Fault: the peer of a rendezvous that has done its work is not kept.
Kept_Nowhere(s) == active

Kept(s) == active \cup {s}

\* session:closed, reason "connected".
Negotiated(s) ==
  /\ socket /\ s \in Pending
  /\ IF peer[s] = "connected"
     THEN /\ sessions' = [sessions EXCEPT ![s] = "gone"]
          /\ accepting' = accepting \ {s}
          /\ active' = Kept(s)
          /\ UNCHANGED <<channelVars, peer, lapsed, socket, clientStopped>>
     ELSE CloseSession(s)

-----------------------------------------------------------------------------
(* The peer connection: onConnectionState and onStateChange *)

Follows(from, to) ==
  \/ from = "new" /\ to = "connecting"
  \/ from \in {"connecting", "disconnected"} /\ to = "connected"
  \/ from = "connected" /\ to = "disconnected"

PeerChanges(s, to) ==
  /\ Follows(peer[s], to)
  /\ peer' = [peer EXCEPT ![s] = to]
  /\ active' = IF to = "connected" THEN active ELSE active \ {s}
  /\ lapsed' = IF s \in active /\ to # "connected" THEN lapsed \cup {s} ELSE lapsed
  /\ UNCHANGED <<channelVars, sessions, accepting, socket, clientStopped>>

\* The connection fails, is closed by the device, or was not there in time:
\* the peer closes, and with it a session that is still pending.
PeerGone(s) ==
  /\ Open(s)
  /\ sessions' = [sessions EXCEPT ![s] = "gone"]
  /\ accepting' = accepting \ {s}
  /\ active' = active \ {s}
  /\ ClosePeers({s})
  /\ UNCHANGED <<lapsed, socket, clientStopped>>

ConnectTimeout(s) == peer[s] \in {"new", "connecting"} /\ PeerGone(s)

\* adoptChannel(): one channel per connection.
AdoptChannel ==
  /\ peer[Served] = "connected"
  /\ OpenServer
  /\ UNCHANGED accessVars

ChannelCloses == server = "open" /\ Close /\ UNCHANGED accessVars

Socket ==
  /\ ~clientStopped
  /\ socket' = ~socket
  /\ UNCHANGED <<channelVars, sessions, accepting, peer, active, lapsed, clientStopped>>

Stopped == Pending \cup active

\* stop(): every session, and every peer that is still known.
Stop ==
  /\ ~clientStopped
  /\ clientStopped' = TRUE /\ socket' = FALSE
  /\ sessions' = [s \in Sessions |-> IF s \in Pending THEN "gone" ELSE sessions[s]]
  /\ accepting' = {} /\ active' = {}
  /\ ClosePeers(Stopped)
  /\ UNCHANGED lapsed

-----------------------------------------------------------------------------
FrameArrives == peer[Served] = "connected" /\ Frame /\ UNCHANGED accessVars
RequestStep(n) == RunStep(n) /\ UNCHANGED accessVars
Deadline == ProofTimeout /\ UNCHANGED accessVars

RemoteNext ==
  \/ \E s \in Sessions :
       \/ AcceptIncoming(s) \/ AcceptSettles(s) \/ AcceptOffer(s) \/ SessionEnds(s)
       \/ Negotiated(s) \/ PeerGone(s) \/ ConnectTimeout(s)
       \/ \E to \in PeerStates : PeerChanges(s, to)
  \/ AdoptChannel \/ ChannelCloses \/ FrameArrives \/ Deadline
  \/ \E n \in Runs : RequestStep(n)
  \/ Socket \/ Stop

RemoteSpec == RemoteInit /\ [][RemoteNext]_remoteVars

\* Requests in service go on.
RemoteFairness == \A n \in Runs : WF_remoteVars(RequestStep(n))

FairRemoteSpec == RemoteSpec /\ RemoteFairness

-----------------------------------------------------------------------------
(* Properties *)

\* Every open connection is known: to its session while that is pending, then
\* to activePeers, unless it has been disconnected since.
PeersAreKnown ==
  \A s \in Sessions : Open(s) => s \in Pending \cup active \cup lapsed

=============================================================================
