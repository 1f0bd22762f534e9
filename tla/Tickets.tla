------------------------------ MODULE Tickets -------------------------------
(***************************************************************************)
(* The one-time tickets of the live map's sockets: WebSocketTicketView     *)
(* puts the user's key into the cache for 30 seconds, TicketAuthMiddleware *)
(* looks the ticket and the user up, deletes the ticket, and lets the      *)
(* socket in as that user.                                                 *)
(***************************************************************************)
EXTENDS Accounts

CONSTANT Ticket

ASSUME TicketConstantsOK == None \notin Ticket

VARIABLES ticket,   \* the cache: the user's key, None before and Gone after
          redeem,   \* the handshake that each thread serves
          admitted  \* history: the sockets let in by each ticket

ticketVars == <<ticket, redeem, admitted>>

TicketInit ==
  /\ ticket = [t \in Ticket |-> None]
  /\ redeem = [h \in Handler |-> None]
  /\ admitted = [t \in Ticket |-> 0]

\* WebSocketTicketView.post, by an account that may log in; each uuid is issued once.
IssueTicket(t, u) ==
  /\ "ticket" \in mix.calls
  /\ ticket[t] = None
  /\ Exists(u) /\ users[u].active
  /\ ticket' = [ticket EXCEPT ![t] = u]
  /\ UNCHANGED <<vars, redeem, admitted>>

\* cache.get and User.objects.get.  A ticket of a user deleted since stays as it is and
\* the socket is anonymous; a deletion between the two calls might as well come first.
LookUpTicket(h, t) ==
  /\ redeem[h] = None
  /\ ticket[t] \in User /\ Exists(ticket[t])
  /\ redeem' = [redeem EXCEPT ![h] = t]
  /\ UNCHANGED <<vars, ticket, admitted>>

\* cache.delete, and the user goes into the scope.
AdmitKeeping(h) ==
  /\ redeem[h] # None
  /\ redeem' = [redeem EXCEPT ![h] = None]
  /\ admitted' = [admitted EXCEPT ![redeem[h]] = @ + 1]
  /\ UNCHANGED <<vars, ticket>>
Admit(h) ==
  /\ redeem[h] # None
  /\ ticket' = [ticket EXCEPT ![redeem[h]] = Gone]
  /\ redeem' = [redeem EXCEPT ![h] = None]
  /\ admitted' = [admitted EXCEPT ![redeem[h]] = @ + 1]
  /\ UNCHANGED vars

\* 30 seconds pass.
TicketExpires(t) ==
  /\ ticket[t] \in User
  /\ ticket' = [ticket EXCEPT ![t] = Gone]
  /\ UNCHANGED <<vars, redeem, admitted>>

HandshakeFails(h) ==
  /\ redeem[h] # None
  /\ redeem' = [redeem EXCEPT ![h] = None]
  /\ UNCHANGED <<vars, ticket, admitted>>

TicketStep ==
  \/ \E t \in Ticket, u \in User : IssueTicket(t, u)
  \/ \E h \in Handler, t \in Ticket : LookUpTicket(h, t)
  \/ \E h \in Handler : Admit(h) \/ HandshakeFails(h)
  \/ \E t \in Ticket : TicketExpires(t)

-----------------------------------------------------------------------------
TicketTypeOK ==
  /\ ticket \in [Ticket -> User \cup {None, Gone}]
  /\ redeem \in [Handler -> Ticket \cup {None}]
  /\ admitted \in [Ticket -> Nat]

\* A ticket is meant for one socket.  Handshakes that overlap between get and delete all
\* get in, but no more of them than are served at a time, and none after.
TicketsAdmitFew ==
  \A t \in Ticket :
    admitted[t] + Cardinality({h \in Handler : redeem[h] = t}) <= Cardinality(Handler)
=============================================================================
