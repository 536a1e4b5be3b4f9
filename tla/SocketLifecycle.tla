--------------------------- MODULE SocketLifecycle ---------------------------
(***************************************************************************)
(* The WebSocket connections of one user, from ticket to disconnect, on the *)
(* instances of the backend: ws_ticket_service.py, _run_websocket of        *)
(* main.py, the registries of ws_manager.py and the revocation events of    *)
(* auth_control.py.  The user's sessions are those of SessionLife.          *)
(*                                                                          *)
(* A socket is known by id(websocket), which a later connection can get     *)
(* again.  A control event is handled at once by the instance that served   *)
(* the revocation, and by the others if Redis pub/sub delivers it.          *)
(***************************************************************************)
EXTENDS SessionLife, Naturals, FiniteSets

CONSTANTS
    Sockets, Instances, Tickets,
    MaxConnections,  \* max_websocket_connections_per_user
    None

\* What a handshake has consumed, and where.
Handshake == [ticket : Tickets, session : Sessions, instance : Instances]

ASSUME SocketConstants ==
    MaxConnections \in Nat /\ None \notin Sessions \cup Tickets /\ None \notin Handshake

VARIABLES
    ticket,       \* Redis ticket records: the session, None when absent
    issued,       \* tickets ever issued; values are random and never repeat
    phase,        \* where the handler of each socket is
    ticketed,     \* the ticket, session and instance of each socket
    connections,  \* _connections of the user, all instances
    registered,   \* _session_connections
    closing,      \* _closing_sockets
    closed,       \* sockets on which close() was called
    control       \* control events on their way to an instance

lifecycleVars == <<life, ticket, issued, phase, ticketed, connections, registered, closing, closed, control>>

registries == <<connections, registered, closing, closed>>

Everyone == "user"

SocketInit ==
    /\ LifeInit
    /\ ticket = [t \in Tickets |-> None]
    /\ issued = {}
    /\ phase = [w \in Sockets |-> "none"]
    /\ ticketed = [w \in Sockets |-> None]
    /\ connections = {} /\ registered = {} /\ closing = {} /\ closed = {}
    /\ control = {}

Local(i) == {w \in Sockets : ticketed[w] # None /\ ticketed[w].instance = i}

-----------------------------------------------------------------------------
(* Sessions *)

Login(s) ==
    /\ Open(s)
    /\ UNCHANGED <<ticket, issued, phase, ticketed, registries, control>>

\* A session ends by expiry: nobody is told.
SessionExpires(s) ==
    /\ End({s})
    /\ UNCHANGED <<ticket, issued, phase, ticketed, registries, control>>

\* logout, revoke_session and a replay: the revocation commits, then the control
\* event of the session is dispatched.
RevokeSession(s) ==
    /\ End({s})
    /\ control' = control \cup {<<s, i>> : i \in Instances}
    /\ UNCHANGED <<ticket, issued, phase, ticketed, registries>>

\* logout_all, change_password and deactivation: one event for the user.
RevokeUser ==
    /\ \E s \in Sessions : life[s] = "live"
    /\ End({s \in Sessions : life[s] = "live"})
    /\ control' = control \cup {<<Everyone, i>> : i \in Instances}
    /\ UNCHANGED <<ticket, issued, phase, ticketed, registries>>

-----------------------------------------------------------------------------
(* Handshake *)

\* WebSocketTicketService.issue, for an authenticated request.
IssueTicket(t, s) ==
    /\ life[s] = "live"
    /\ t \notin issued
    /\ issued' = issued \cup {t}
    /\ ticket' = [ticket EXCEPT ![t] = s]
    /\ UNCHANGED <<life, phase, ticketed, registries, control>>

TicketExpires(t) ==
    /\ ticket[t] # None
    /\ ticket' = [ticket EXCEPT ![t] = None]
    /\ UNCHANGED <<life, issued, phase, ticketed, registries, control>>

\* WebSocketTicketService.consume: GETDEL.
ConsumeTicket(w, i, t) ==
    /\ phase[w] = "none"
    /\ ticket[t] # None
    /\ ticket' = [ticket EXCEPT ![t] = None]
    /\ phase' = [phase EXCEPT ![w] = "consumed"]
    /\ ticketed' = [ticketed EXCEPT ![w] = [ticket |-> t, session |-> ticket[t], instance |-> i]]
    /\ UNCHANGED <<life, issued, registries, control>>

\* The handler has ended; its id is free again.
Drop(w) ==
    /\ phase' = [phase EXCEPT ![w] = "none"]
    /\ ticketed' = [ticketed EXCEPT ![w] = None]

\* get_session_access_context
Authenticate(w) ==
    /\ phase[w] = "consumed"
    /\ life[ticketed[w].session] = "live"
    /\ phase' = [phase EXCEPT ![w] = "authenticated"]
    /\ UNCHANGED <<life, ticket, issued, ticketed, registries, control>>

AuthenticationFails(w) ==
    /\ phase[w] = "consumed"
    /\ life[ticketed[w].session] = "ended"
    /\ Drop(w)
    /\ UNCHANGED <<life, ticket, issued, registries, control>>

Quota(w) == Cardinality(connections \cap Local(ticketed[w].instance)) < MaxConnections

\* connect, under _connection_lock: the slot is taken before the first await.
Reserve(w) ==
    /\ phase[w] = "authenticated"
    /\ Quota(w)
    /\ connections' = connections \cup {w}
    /\ phase' = [phase EXCEPT ![w] = "connecting"]
    /\ closed' = closed \ {w}
    /\ UNCHANGED <<life, ticket, issued, ticketed, registered, closing, control>>

QuotaExceeded(w) ==
    /\ phase[w] = "authenticated"
    /\ ~Quota(w)
    /\ Drop(w)
    /\ UNCHANGED <<life, ticket, issued, registries, control>>

\* accept, presence, bindings and subscriptions have succeeded.
ConnectDone(w) ==
    /\ phase[w] = "connecting"
    /\ registered' = registered \cup {w}
    /\ phase' = [phase EXCEPT ![w] = "open"]
    /\ UNCHANGED <<life, ticket, issued, ticketed, connections, closing, closed, control>>

\* Mutant of ConnectFails: the slot is not given back.
ConnectFailsLeaking(w) ==
    /\ phase[w] = "connecting"
    /\ Drop(w)
    /\ UNCHANGED <<life, ticket, issued, registries, control>>

\* One of them raised.
ConnectFails(w) ==
    /\ phase[w] = "connecting"
    /\ connections' = connections \ {w}
    /\ Drop(w)
    /\ UNCHANGED <<life, ticket, issued, registered, closing, closed, control>>

-----------------------------------------------------------------------------
(* The open socket *)

\* run_socket returns: the client left or the socket was closed.  disconnect
\* clears every registry.
DisconnectSocket(w) ==
    /\ phase[w] = "open"
    /\ connections' = connections \ {w}
    /\ registered' = registered \ {w}
    /\ closing' = closing \ {w}
    /\ Drop(w)
    /\ UNCHANGED <<life, ticket, issued, closed, control>>

\* Mutant of AuthExpires: a socket marked as closing is left alone.
AuthExpiresUnmarked(w) ==
    /\ phase[w] = "open"
    /\ w \notin closed
    /\ w \notin closing
    /\ closed' = closed \cup {w}
    /\ UNCHANGED <<life, ticket, issued, phase, ticketed, connections, registered, closing, control>>

\* _close_when_auth_expires
AuthExpires(w) ==
    /\ phase[w] = "open"
    /\ w \notin closed
    /\ closed' = closed \cup {w}
    /\ UNCHANGED <<life, ticket, issued, phase, ticketed, connections, registered, closing, control>>

\* disconnect_session looks in _session_connections, disconnect_user in
\* _connections; a socket already marked is skipped.
Matching(e, i) ==
    {w \in Local(i) : IF e = Everyone THEN w \in connections ELSE w \in registered /\ ticketed[w].session = e}

handle_auth_control_event(e, i) ==
    LET new == Matching(e, i) \ closing IN
    /\ <<e, i>> \in control
    /\ control' = control \ {<<e, i>>}
    /\ closing' = closing \cup new
    /\ closed' = closed \cup new
    /\ UNCHANGED <<life, ticket, issued, phase, ticketed, connections, registered>>

\* Redis is down or the subscriber was reconnecting: one instance always has
\* the event, the one that served the request.
ControlLost(e, i) ==
    /\ <<e, i>> \in control
    /\ \E j \in Instances \ {i} : <<e, j>> \in control
    /\ control' = control \ {<<e, i>>}
    /\ UNCHANGED <<life, ticket, issued, phase, ticketed, registries>>

SocketNext ==
    \/ RevokeUser
    \/ \E s \in Sessions :
        Login(s) \/ SessionExpires(s) \/ RevokeSession(s) \/ \E t \in Tickets : IssueTicket(t, s)
    \/ \E t \in Tickets : TicketExpires(t)
    \/ \E w \in Sockets :
        \/ \E i \in Instances, t \in Tickets : ConsumeTicket(w, i, t)
        \/ Authenticate(w) \/ AuthenticationFails(w) \/ Reserve(w) \/ QuotaExceeded(w)
        \/ ConnectDone(w) \/ ConnectFails(w) \/ DisconnectSocket(w) \/ AuthExpires(w)
    \/ \E e \in Sessions \cup {Everyone}, i \in Instances :
        handle_auth_control_event(e, i) \/ ControlLost(e, i)

SocketSpec == SocketInit /\ [][SocketNext]_lifecycleVars

\* A step of the socket that does not wait for its client: the handler
\* proceeds, the timer fires, a closed socket makes run_socket return.  At most
\* one of them is enabled at a time.
SocketStep(w) ==
    \/ Authenticate(w) \/ AuthenticationFails(w) \/ Reserve(w) \/ QuotaExceeded(w)
    \/ ConnectDone(w) \/ ConnectFails(w) \/ AuthExpires(w)
    \/ w \in closed /\ DisconnectSocket(w)

-----------------------------------------------------------------------------
(* Properties. *)

\* ws_ticket_service.py, "concurrent/repeated handshakes cannot both succeed", and
\* ws_manager.py: a ticket brings in one socket; through failures, closings,
\* disconnects and simultaneous handshakes, exactly the sockets being served hold
\* a slot, never more of them than the quota, and exactly the open ones are
\* findable by session.
RegistriesExact ==
    /\ \A w \in Sockets : ticketed[w] # None =>
         /\ ticket[ticketed[w].ticket] = None
         /\ \A v \in Sockets \ {w} : ticketed[v] # None => ticketed[v].ticket # ticketed[w].ticket
    /\ connections = {w \in Sockets : phase[w] \in {"connecting", "open"}}
    /\ registered = {w \in Sockets : phase[w] = "open"}
    /\ \A i \in Instances : Cardinality(connections \cap Local(i)) <= MaxConnections

\* ws_manager.py: whatever control events are lost, missed or skipped, the
\* expiry timers disconnect every socket of a session that has ended.
EndedSessionsDisconnect ==
    \A s \in Sessions :
        life[s] = "ended" ~> \A w \in Sockets : ~(phase[w] = "open" /\ ticketed[w].session = s)
=============================================================================
