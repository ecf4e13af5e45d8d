----------------------------- MODULE HubClients -----------------------------
(***************************************************************************)
(* The WebSocket hub and its connections (internal/api/websocket.go): one  *)
(* goroutine serves registration, removal and broadcast in turn, and       *)
(* writes to the clients one after the other with a deadline; each         *)
(* connection has a goroutine that reads until the connection fails.       *)
(***************************************************************************)
EXTENDS Naturals, FiniteSets

CONSTANTS
  Conns,       \* connections
  BroadcastCap \* capacity of the broadcast channel

ASSUME HubClientsAssumption == BroadcastCap \in Nat

VARIABLES
  peer,      \* connection -> the other end: "absent", "reading", "stalled", "gone"
  handler,   \* connection -> "none", "registering", "reading", "leaving", "done"
  clients,   \* WSHub.clients
  closed,    \* connections the hub has closed
  writing,   \* clients the broadcast in progress still has to write to
  messages   \* messages in the broadcast channel

hubVars == <<peer, handler, clients, closed, writing, messages>>

HubInit ==
  /\ peer = [c \in Conns |-> "absent"]
  /\ handler = [c \in Conns |-> "none"]
  /\ clients = {} /\ closed = {} /\ writing = {}
  /\ messages = 0

\* The hub is at its select.
AtSelect == writing = {}

-----------------------------------------------------------------------------
(* The connections.                                                        *)

\* Upgrade succeeds; the handler sends on the unbuffered register channel.
Connect(c) ==
  /\ peer[c] = "absent"
  /\ peer' = [peer EXCEPT ![c] = "reading"]
  /\ handler' = [handler EXCEPT ![c] = "registering"]
  /\ UNCHANGED <<clients, closed, writing, messages>>

\* The peer stops reading, reads again, or goes away.
PeerChanges(c) ==
  /\ peer[c] \in {"reading", "stalled"}
  /\ peer' = [peer EXCEPT ![c] = IF @ = "reading" THEN "stalled" ELSE "reading"]
  /\ UNCHANGED <<handler, clients, closed, writing, messages>>

PeerLeaves(c) ==
  /\ peer[c] \in {"reading", "stalled"}
  /\ peer' = [peer EXCEPT ![c] = "gone"]
  /\ UNCHANGED <<handler, clients, closed, writing, messages>>

\* ReadMessage fails, since the peer left or the hub closed the connection;
\* the reader sends on the unregister channel.
ReadFails(c) ==
  /\ handler[c] = "reading"
  /\ peer[c] = "gone" \/ c \in closed
  /\ handler' = [handler EXCEPT ![c] = "leaving"]
  /\ UNCHANGED <<peer, clients, closed, writing, messages>>

-----------------------------------------------------------------------------
(* The hub's goroutine.                                                    *)

\* The reader was started before the registration and may be gone already.
RegisterLate(c) ==
  /\ AtSelect /\ handler[c] = "registering"
  /\ handler' = [handler EXCEPT ![c] = IF peer[c] = "gone" THEN "done" ELSE "reading"]
  /\ clients' = clients \cup {c}
  /\ UNCHANGED <<peer, closed, writing, messages>>

\* case <-h.register; the handler goes on to start its reader.
Register(c) ==
  /\ AtSelect /\ handler[c] = "registering"
  /\ handler' = [handler EXCEPT ![c] = "reading"]
  /\ clients' = clients \cup {c}
  /\ UNCHANGED <<peer, closed, writing, messages>>

\* case <-h.unregister.
Unregister(c) ==
  /\ AtSelect /\ handler[c] = "leaving"
  /\ handler' = [handler EXCEPT ![c] = "done"]
  /\ IF c \in clients
     THEN clients' = clients \ {c} /\ closed' = closed \cup {c}
     ELSE UNCHANGED <<clients, closed>>
  /\ UNCHANGED <<peer, writing, messages>>

\* WSHub.Broadcast, from a push: dropped when the channel is full.
BroadcastMessage ==
  /\ messages < BroadcastCap
  /\ messages' = messages + 1
  /\ UNCHANGED <<peer, handler, clients, closed, writing>>

\* case <-h.broadcast: the message is encoded and the loop over the clients
\* begins; a message that cannot be encoded is skipped.
TakeMessage ==
  /\ AtSelect /\ messages > 0
  /\ messages' = messages - 1
  /\ writing' \in {clients, {}}
  /\ UNCHANGED <<peer, handler, clients, closed>>

\* Without a write deadline a stalled client is waited for.
WriteMessageNoDeadline(c) ==
  /\ c \in writing /\ peer[c] # "stalled"
  /\ writing' = writing \ {c}
  /\ IF peer[c] = "gone"
     THEN clients' = clients \ {c} /\ closed' = closed \cup {c}
     ELSE UNCHANGED <<clients, closed>>
  /\ UNCHANGED <<peer, handler, messages>>

\* WriteMessage to one client, in map order.  To a peer that left or stalled
\* it may succeed (buffered) or fail, at the deadline at the latest; then the
\* client is closed and removed.
WriteMessage(c) ==
  /\ c \in writing
  /\ writing' = writing \ {c}
  /\ \/ UNCHANGED <<clients, closed>>
     \/ peer[c] # "reading" /\ clients' = clients \ {c} /\ closed' = closed \cup {c}
  /\ UNCHANGED <<peer, handler, messages>>

HubNext ==
  \/ \E c \in Conns :
       \/ Connect(c) \/ PeerChanges(c) \/ PeerLeaves(c) \/ ReadFails(c)
       \/ Register(c) \/ Unregister(c) \/ WriteMessage(c)
  \/ BroadcastMessage \/ TakeMessage

HubSpec == HubInit /\ [][HubNext]_hubVars

-----------------------------------------------------------------------------
(* Properties.                                                             *)

(* Type invariant; a connection in the map is one the hub has not closed,  *)
(* and one it dropped from the map is closed.                              *)
HubTypeOK ==
  /\ peer \in [Conns -> {"absent", "reading", "stalled", "gone"}]
  /\ handler \in [Conns -> {"none", "registering", "reading", "leaving", "done"}]
  /\ writing \subseteq clients
  /\ messages \in 0..BroadcastCap
  /\ \A c \in Conns :
       /\ handler[c] \in {"reading", "leaving", "done"} => (c \in clients <=> c \notin closed)
       /\ handler[c] = "done" => c \in closed

(* No connection leaks: one whose peer left is closed and forgotten, also  *)
(* if no message is ever broadcast again, and whoever notices first, the   *)
(* hub's write or the reader.                                              *)
GoneIsClosed == \A c \in Conns : (peer[c] = "gone") ~> (c \in closed /\ handler[c] = "done")

(* New clients get in: registration waits for the hub, which one stalled   *)
(* client holds up no longer than the write deadline.                      *)
HandlerReturns ==
  \A c \in Conns : (handler[c] = "registering") ~> (handler[c] # "registering")
=============================================================================
