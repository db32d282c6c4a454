----------------------------- MODULE Transport -----------------------------
(***************************************************************************)
(* The two lowest layers of an RDP connection: tcp.c (one socket, one TLS  *)
(* object, one error flag, all of them globals) and iso.c (the X.224       *)
(* connection request, the negotiation of the security protocol and its    *)
(* retries).  The layers have no thread of their own: the operators below  *)
(* are the bodies of their functions, and Session calls them.              *)
(*                                                                         *)
(* A transmitted byte is not modelled.  A send either succeeds or raises   *)
(* g_network_error; a receive returns a message, the end of the stream or  *)
(* an error.  The servers this client meets speak RDP 5.                   *)
(***************************************************************************)

VARIABLES
    g_sock,                    \* what g_sock stands for: no socket, a live peer, end of stream
    g_ssl,                     \* the TLS object: none, bound to this socket, to an earlier one
    g_network_error,           \* sticky: every send and receive is refused while it is raised
    g_encryption,              \* RDP's own packet encryption is used on this connection
    g_encryption_initial,      \* the value a reset gives it
    neg_proto,                 \* protocol asked for in the connection request
    g_negotiate_rdp_protocol   \* the connection request carries a negotiation request

transportVars == <<g_sock, g_ssl, g_network_error, g_encryption, g_encryption_initial,
                   neg_proto, g_negotiate_rdp_protocol>>

encryptionVars == <<g_encryption, g_encryption_initial>>
negotiationVars == <<neg_proto, g_negotiate_rdp_protocol>>

TransportTypeOK ==
    /\ g_sock \in {"none", "up", "eof"}
    /\ g_ssl \in {"none", "current", "stale"}
    /\ g_network_error \in BOOLEAN
    /\ g_encryption \in BOOLEAN
    /\ g_encryption_initial \in BOOLEAN
    /\ neg_proto \in {"SSL", "RDP"}
    /\ g_negotiate_rdp_protocol \in BOOLEAN

\* Option -e clears both encryption flags before the first connection.
TransportInit ==
    /\ g_sock = "none"
    /\ g_ssl = "none"
    /\ g_network_error = FALSE
    /\ g_encryption \in BOOLEAN
    /\ g_encryption_initial = g_encryption
    /\ neg_proto = "SSL"
    /\ g_negotiate_rdp_protocol = TRUE

-----------------------------------------------------------------------------
(* tcp.c *)

\* The value of g_network_error after one or more calls of tcp_send: a raised
\* flag makes them no-ops, and any of them can fail and raise it (also on a
\* healthy socket that stays full for tcp_can_send's 250 ms).
TcpSend(error) == error \in {g_network_error, TRUE}

\* A message can arrive only through the TLS object of the present socket.
CanReceive == ~g_network_error /\ g_sock = "up" /\ g_ssl # "stale"

\* tcp_recv returns NULL: the flag was already up, the stream ended (which
\* raises nothing), or the read failed.  A TLS object left from an earlier
\* socket can only give one of the last two.
TcpRecvFails ==
    \/ g_network_error /\ UNCHANGED <<g_sock, g_network_error>>
    \/ ~g_network_error /\ g_sock' = "eof" /\ UNCHANGED g_network_error
    \/ ~g_network_error /\ g_network_error' = TRUE /\ UNCHANGED g_sock

\* A new socket makes whatever TLS object is left over an object of another socket.
TcpConnect(connected) ==
    /\ g_sock' = IF connected THEN "up" ELSE "none"
    /\ g_ssl' = IF g_ssl = "none" THEN "none" ELSE "stale"

TcpDisconnect == g_sock' = "none" /\ g_ssl' = "none"

-----------------------------------------------------------------------------
(* iso.c *)

\* Mutation: what the last connection turned off stays off.
IsoResetNothing == UNCHANGED g_encryption

\* iso_reset_state and tcp_reset_state: the streams are freed, the TLS object,
\* the socket and the error flag are left alone.
IsoResetState == g_encryption' = g_encryption_initial

\* iso_connect up to tcp_connect on its first round.
StartNegotiation == neg_proto' = "SSL" /\ g_negotiate_rdp_protocol' = TRUE

\* Does the connection request offer TLS?
OffersTls == g_negotiate_rdp_protocol /\ neg_proto = "SSL"

\* A Connection Confirm without a negotiation response, or one that selects
\* plain RDP security.
PlainConfirm ==
    /\ CanReceive
    /\ UNCHANGED transportVars

\* RDP_NEG_RSP selects TLS and the handshake succeeds.  So does, for
\* tcp_tls_connect, one that the peer shuts down half way (SSL_connect gives 0).
TlsConfirm ==
    /\ CanReceive
    /\ OffersTls
    /\ g_ssl' = "current"
    /\ g_encryption' = FALSE
    /\ g_sock' \in {"up", "eof"}
    /\ UNCHANGED <<g_network_error, g_encryption_initial, negotiationVars>>

\* The TLS handshake fails: the next round asks for plain RDP.
TlsRetry ==
    /\ CanReceive
    /\ OffersTls
    /\ TcpDisconnect
    /\ neg_proto' = "RDP"
    /\ UNCHANGED <<g_network_error, encryptionVars, g_negotiate_rdp_protocol>>

\* RDP_NEG_FAILURE "SSL not allowed" or "no certificate": retry without negotiating.
NegFailureRetry ==
    /\ CanReceive
    /\ OffersTls
    /\ TcpDisconnect
    /\ g_negotiate_rdp_protocol' = FALSE
    /\ UNCHANGED <<g_network_error, encryptionVars, neg_proto>>

\* Every other answer ends the attempt with the socket closed ...
IsoRefused ==
    /\ CanReceive
    /\ TcpDisconnect
    /\ UNCHANGED <<g_network_error, encryptionVars, negotiationVars>>

\* ... but a receive that returns NULL ends it with the socket left open.
IsoRecvFails ==
    /\ TcpRecvFails
    /\ UNCHANGED <<g_ssl, encryptionVars, negotiationVars>>

\* iso_disconnect: a Disconnect Request, whose sending leaves g_network_error
\* at "error", then the socket and the TLS object go.
IsoDisconnect(error) ==
    /\ TcpSend(error)
    /\ TcpDisconnect
    /\ UNCHANGED <<encryptionVars, negotiationVars>>
=============================================================================
