------------------------------ MODULE Session ------------------------------
(***************************************************************************)
(* The life of one run of rdesktop, from the first connection to the exit  *)
(* code: the connection loop of main(), rdp_connect and the layers it      *)
(* brings up (sec_connect, mcs_connect_finalize, iso_connect, tcp_connect),*)
(* rdp_main_loop with the PDUs that change connection state, session       *)
(* redirection, automatic reconnection after a network error or a resize   *)
(* of the screen, and the user closing the window.                         *)
(*                                                                         *)
(* The program is one thread, so each action below is a stretch of it      *)
(* between two points where it waits for somebody else: the server, the    *)
(* user, or the clock.  "pc" names the waiting point.  The server is the   *)
(* environment; srv is what it has done on the present connection.         *)
(***************************************************************************)
EXTENDS Integers, Transport

CONSTANTS
    Hosts,      \* the servers a redirection may name
    Reasons,    \* the disconnect reasons a server may give
    Timeout     \* RECONNECT_TIMEOUT, in rounds of the reconnection loop

ASSUME HostsAssumption == Hosts # {}
\* handle_disconnect_reason has no reason for a closed window.
ASSUME ReasonsAssumption == Reasons \cap {"NoInfo", "EXRD_WINDOW_CLOSED"} = {}
ASSUME TimeoutAssumption == Timeout \in Nat

VARIABLES
    pc,                      \* where main() waits
    nested,                  \* receives process_demand_active still has to make
    server,                  \* the host to connect to
    g_packet_encryption,     \* FALSE when option -E is given
    g_password,              \* is a password still in memory?
    g_redirect,
    g_redirect_server,
    g_redirect_cookie_len,   \* is it greater than zero?
    g_licence_issued,
    g_licence_error_result,
    g_rdp_shareid,           \* is it non-zero?
    deactivated,
    ext_disc_reason,
    g_reconnect_loop,
    g_pending_resize,
    g_user_quit,
    cookieAge,               \* rounds since g_reconnect_random_ts, up to Timeout + 1
    exitCode

VARIABLES
    srv,                     \* the server's progress on the present connection
    srvEncryption,           \* it encrypts: what g_encryption was in the MCS connect
    closeQueued,             \* a WM_CLOSE waits in the message queue
    toldHost,                \* the host of the last redirection, or the first server
    logonPassword,           \* what the last logon packet carried as password
    everActive,              \* a session has been up
    sound,                   \* packets the sound device still has to acknowledge: none
                             \* ("idle"), some ("queued"), acknowledged by a reset ("cut")
    userClosed, resized      \* the user closed the window, the screen was resized

redirectVars == <<g_redirect, g_redirect_server, g_redirect_cookie_len, toldHost>>
licenceVars == <<g_licence_issued, g_licence_error_result>>
endVars == <<deactivated, ext_disc_reason, exitCode>>
reconnectVars == <<g_reconnect_loop, cookieAge>>
userVars == <<g_pending_resize, g_user_quit, closeQueued, userClosed, resized>>
srvVars == <<srv, srvEncryption>>
logonVars == <<server, g_packet_encryption, g_password, logonPassword, everActive, sound>>

vars == <<transportVars, pc, nested, g_rdp_shareid, redirectVars, licenceVars, endVars,
          reconnectVars, userVars, srvVars, logonVars>>

Never == Timeout + 1
Age == 0..Never
Older(age) == IF age = Never THEN Never ELSE age + 1

Licensing == {"request", "challenge", "result"}
ServerStates == {"idle"} \cup Licensing \cup {"licensed", "active", "deactivated"}

LoopTypeOK ==
    /\ pc \in {"reset", "connect", "negotiate", "mcs", "logon", "main", "disconnect", "failed",
               "sleep", "exit"}
    /\ nested \in 0..4
    /\ exitCode \in Reasons \cup {"none", "EX_OK", "EX_PROTOCOL", "EXRD_UNKNOWN",
                                  "EXRD_WINDOW_CLOSED"}

LogonTypeOK ==
    /\ server \in Hosts
    /\ g_packet_encryption \in BOOLEAN
    /\ g_password \in BOOLEAN
    /\ logonPassword \in {"none", "password", "blob"}
    /\ everActive \in BOOLEAN
    /\ sound \in {"idle", "queued", "cut"}

RedirectTypeOK ==
    /\ g_redirect \in BOOLEAN
    /\ g_redirect_server \in Hosts
    /\ g_redirect_cookie_len \in BOOLEAN
    /\ toldHost \in Hosts

ConnectionTypeOK ==
    /\ g_licence_issued \in BOOLEAN
    /\ g_licence_error_result \in BOOLEAN
    /\ g_rdp_shareid \in BOOLEAN
    /\ srv \in ServerStates
    /\ srvEncryption \in BOOLEAN

EndTypeOK ==
    /\ deactivated \in BOOLEAN
    /\ ext_disc_reason \in Reasons \cup {"NoInfo"}
    /\ g_reconnect_loop \in BOOLEAN
    /\ cookieAge \in Age

UserTypeOK ==
    /\ g_pending_resize \in BOOLEAN
    /\ g_user_quit \in BOOLEAN
    /\ closeQueued \in BOOLEAN
    /\ userClosed \in BOOLEAN
    /\ resized \in BOOLEAN

TypeOK ==
    /\ TransportTypeOK
    /\ LoopTypeOK
    /\ LogonTypeOK
    /\ RedirectTypeOK
    /\ ConnectionTypeOK
    /\ EndTypeOK
    /\ UserTypeOK

Init ==
    /\ TransportInit
    /\ pc = "reset"
    /\ nested = 0
    /\ server \in Hosts
    /\ g_packet_encryption \in BOOLEAN
    /\ g_password \in BOOLEAN
    /\ g_redirect = FALSE
    /\ g_redirect_server = server
    /\ g_redirect_cookie_len = FALSE
    /\ g_licence_issued = FALSE
    /\ g_licence_error_result = FALSE
    /\ g_rdp_shareid = FALSE
    /\ deactivated = FALSE
    /\ ext_disc_reason = "NoInfo"
    /\ g_reconnect_loop = FALSE
    /\ g_pending_resize = FALSE
    /\ g_user_quit = FALSE
    /\ cookieAge = Never
    /\ exitCode = "none"
    /\ srv = "idle"
    /\ srvEncryption = FALSE
    /\ closeQueued = FALSE
    /\ toldHost = server
    /\ logonPassword = "none"
    /\ everActive = FALSE
    /\ sound = "idle"
    /\ userClosed = FALSE
    /\ resized = FALSE

-----------------------------------------------------------------------------
(* main(): one round of the connection loop *)

\* Mutations: a flag survives the reset.
ResetKeepsLicence == g_rdp_shareid' = FALSE /\ UNCHANGED licenceVars /\ IsoResetState
ResetKeepsShare ==
    /\ UNCHANGED g_rdp_shareid
    /\ g_licence_issued' = FALSE /\ g_licence_error_result' = FALSE
    /\ IsoResetState

\* rdp_reset_state, sec_reset_state and the layers below, at the top of every round.
RdpResetState ==
    /\ g_rdp_shareid' = FALSE
    /\ g_licence_issued' = FALSE
    /\ g_licence_error_result' = FALSE
    /\ IsoResetState

\* rdpsnd_reset_state closes an open sound device, which acknowledges what is
\* still queued: on a socket that is closed already, so that the send fails.
CutSound(error) ==
    IF sound = "queued"
    THEN sound' = "cut" /\ TcpSend(error)
    ELSE sound' = "idle" /\ error = g_network_error

\* Mutation: the error of the old connection stays.
FollowRedirectWithError(error) ==
    server' = (IF g_redirect THEN g_redirect_server ELSE server) /\ g_network_error' = error

\* A pending redirection names the new server and drops the error flag.
FollowRedirect(error) ==
    IF g_redirect
    THEN server' = g_redirect_server /\ g_network_error' = FALSE
    ELSE UNCHANGED server /\ g_network_error' = error

\* The top of the loop, down to the call of rdp_connect.
Reset ==
    /\ pc = "reset"
    /\ pc' = "connect"
    /\ RdpResetState
    /\ \E error \in BOOLEAN : CutSound(error) /\ FollowRedirect(error)
    /\ g_redirect' = FALSE
    /\ srv' = "idle" /\ srvEncryption' = FALSE /\ logonPassword' = "none"
    /\ StartNegotiation
    /\ UNCHANGED <<g_sock, g_ssl, g_encryption_initial, nested, g_redirect_server,
                   g_redirect_cookie_len, toldHost, endVars, reconnectVars, userVars,
                   g_packet_encryption, g_password, everActive>>

\* Mutant: no timeout.
RetryForever == g_reconnect_loop

\* Only a lost session is retried, and only while the reconnection cookie is
\* younger than the timeout.
MayRetry == g_reconnect_loop /\ cookieAge <= Timeout

\* rdp_connect returned False.
ConnectFailed ==
    /\ pc = "failed"
    /\ g_network_error' = FALSE
    /\ \/ MayRetry /\ pc' = "sleep" /\ UNCHANGED exitCode
       \/ ~MayRetry /\ pc' = "exit" /\ exitCode' = "EX_PROTOCOL"
    /\ UNCHANGED <<g_sock, g_ssl, encryptionVars, negotiationVars, nested, g_rdp_shareid,
                   redirectVars, licenceVars, deactivated, ext_disc_reason, reconnectVars,
                   userVars, srvVars, logonVars>>

\* sleep(4), then the loop again.
Sleep ==
    /\ pc = "sleep"
    /\ pc' = "reset"
    /\ cookieAge' = Older(cookieAge)
    /\ UNCHANGED <<transportVars, nested, g_rdp_shareid, redirectVars, licenceVars, endVars,
                   g_reconnect_loop, userVars, srvVars, logonVars>>

\* handle_disconnect_reason
DisconnectReason ==
    IF ext_disc_reason # "NoInfo" THEN ext_disc_reason
    ELSE IF deactivated THEN "EX_OK" ELSE "EXRD_UNKNOWN"

\* Mutation: no reason counts as a closed window.
ExitCodeOfSilence ==
    IF g_user_quit \/ ext_disc_reason = "NoInfo" THEN "EXRD_WINDOW_CLOSED" ELSE DisconnectReason

ExitCode == IF g_user_quit THEN "EXRD_WINDOW_CLOSED" ELSE DisconnectReason

\* rdp_main_loop has returned: rdp_disconnect, then one of the four ways on.
\* The error flag counts as it stands after the Disconnect Request was sent.
Disconnect ==
    /\ pc = "disconnect"
    /\ \E error \in BOOLEAN :
        /\ IsoDisconnect(error)
        /\ \/ /\ g_redirect
              /\ pc' = "reset"
              /\ g_network_error' = error
              /\ UNCHANGED <<g_reconnect_loop, g_pending_resize, exitCode>>
           \/ /\ ~g_redirect
              /\ error /\ ~deactivated
              /\ pc' = "reset"
              /\ g_network_error' = FALSE
              /\ g_reconnect_loop' = TRUE
              /\ UNCHANGED <<g_pending_resize, exitCode>>
           \/ /\ ~g_redirect
              /\ ~error \/ deactivated
              /\ g_pending_resize
              /\ pc' = "reset"
              /\ g_network_error' = error
              /\ g_pending_resize' = FALSE
              /\ g_reconnect_loop' = TRUE
              /\ UNCHANGED exitCode
           \/ /\ ~g_redirect
              /\ ~error \/ deactivated
              /\ ~g_pending_resize
              /\ pc' = "exit"
              /\ g_network_error' = error
              /\ exitCode' = ExitCode
              /\ UNCHANGED <<g_reconnect_loop, g_pending_resize>>
    /\ UNCHANGED <<nested, g_rdp_shareid, redirectVars, licenceVars, deactivated, ext_disc_reason,
                   cookieAge, g_user_quit, closeQueued, userClosed, resized, srvVars, logonVars>>

-----------------------------------------------------------------------------
(* rdp_connect: iso_connect, mcs_connect_finalize, sec_connect, logon info *)

\* tcp_connect and the connection request.
Connect ==
    /\ pc = "connect"
    /\ \E connected \in BOOLEAN :
        /\ TcpConnect(connected)
        /\ IF connected
           THEN pc' = "negotiate" /\ TcpSend(g_network_error')
           ELSE pc' = "failed" /\ UNCHANGED g_network_error
    /\ UNCHANGED <<encryptionVars, negotiationVars, nested, g_rdp_shareid, redirectVars,
                   licenceVars, endVars, reconnectVars, userVars, srvVars, logonVars>>

\* The rest of iso_connect: the answer to the connection request, or none.
Negotiate ==
    /\ pc = "negotiate"
    /\ \/ (PlainConfirm \/ TlsConfirm) /\ pc' = "mcs"
       \/ (TlsRetry \/ NegFailureRetry) /\ pc' = "connect"
       \/ (IsoRefused \/ IsoRecvFails) /\ pc' = "failed"
    /\ UNCHANGED <<nested, g_rdp_shareid, redirectVars, licenceVars, endVars, reconnectVars,
                   userVars, srvVars, logonVars>>

\* mcs_connect_finalize succeeds; the key exchange and the logon packet are
\* sent.  The logon packet takes the redirection's blob for its password if
\* g_redirect is set, and clears g_redirect.
McsConnect ==
    /\ pc = "mcs"
    /\ CanReceive
    /\ pc' = "logon"
    /\ TcpSend(g_network_error')
    /\ logonPassword' = IF g_redirect /\ g_redirect_cookie_len THEN "blob"
                        ELSE IF g_password THEN "password" ELSE "none"
    /\ g_redirect' = FALSE
    /\ srv' = "request"
    /\ srvEncryption' = g_encryption
    /\ UNCHANGED <<g_sock, g_ssl, encryptionVars, negotiationVars, nested, g_rdp_shareid,
                   g_redirect_server, g_redirect_cookie_len, toldHost, licenceVars,
                   endVars, reconnectVars, userVars, server, g_packet_encryption, g_password,
                   everActive, sound>>

\* A missing, negative or unexpected answer ends mcs_connect_finalize.
McsFailed ==
    /\ pc = "mcs"
    /\ pc' = "failed"
    /\ IsoDisconnect(g_network_error')
    /\ UNCHANGED <<nested, g_rdp_shareid, redirectVars, licenceVars, endVars, reconnectVars,
                   userVars, srvVars, logonVars>>

-----------------------------------------------------------------------------
(* rdp_loop, called by rdp_connect ("logon") and by rdp_main_loop ("main") *)

\* rdp_connect calls rdp_loop while there is no share id, rdp_main_loop always.
AtLoop == nested = 0 /\ (pc = "main" \/ (pc = "logon" /\ ~g_rdp_shareid))
Received(states) == AtLoop /\ CanReceive /\ srv \in states

\* A licence request or a platform challenge, and the client's answer.
LicenceExchange ==
    /\ Received({"request", "challenge"})
    /\ srv' = IF srv = "request" THEN "challenge" ELSE "result"
    /\ TcpSend(g_network_error')
    /\ UNCHANGED <<g_sock, g_ssl, encryptionVars, negotiationVars, pc, nested, g_rdp_shareid,
                   redirectVars, licenceVars, endVars, reconnectVars, userVars, srvEncryption,
                   logonVars>>

\* A new licence or the error alert "valid client", then any other error alert.
LicenceResult ==
    /\ Received(Licensing)
    /\ srv' = "licensed"
    /\ \/ g_licence_issued' = TRUE /\ UNCHANGED g_licence_error_result
       \/ g_licence_error_result' = TRUE /\ UNCHANGED g_licence_issued
    /\ UNCHANGED <<transportVars, pc, nested, g_rdp_shareid, redirectVars, endVars, reconnectVars,
                   userVars, srvEncryption, logonVars>>

\* process_demand_active up to the first of its four nested receives.
DemandActive ==
    /\ Received({"licensed", "deactivated"})
    /\ srv' = "active"
    /\ g_rdp_shareid' = TRUE
    /\ nested' = 4
    /\ TcpSend(g_network_error')
    /\ UNCHANGED <<g_sock, g_ssl, encryptionVars, negotiationVars, pc, redirectVars, licenceVars,
                   endVars, reconnectVars, userVars, srvEncryption, logonVars>>

RunsUi == pc = "main"

\* ui_select returns 0, which tcp_recv takes for the user quitting: a close
\* message, or (on the X11 front end) a resize of the screen.  Input that it
\* sent to the server before may have raised the error flag.
UiSelectStops ==
    /\ RunsUi /\ ~g_network_error
    /\ TcpSend(g_network_error')
    /\ g_user_quit' = TRUE
    /\ \/ closeQueued /\ closeQueued' = FALSE /\ UNCHANGED <<g_pending_resize, resized>>
       \/ g_pending_resize' = TRUE /\ resized' = TRUE /\ UNCHANGED closeQueued
    /\ UNCHANGED <<g_sock, userClosed>>

\* rdp_connect returns True with a share id: main() enters rdp_main_loop.
Connected ==
    /\ pc = "logon" /\ nested = 0
    /\ g_rdp_shareid
    /\ pc' = "main"
    /\ deactivated' = FALSE
    /\ g_reconnect_loop' = FALSE
    /\ everActive' = TRUE
    /\ sound' = "idle"
    /\ IF g_packet_encryption
       THEN UNCHANGED encryptionVars
       ELSE g_encryption' = FALSE /\ g_encryption_initial' = FALSE
    /\ UNCHANGED <<g_sock, g_ssl, g_network_error, negotiationVars, nested, g_rdp_shareid,
                   g_redirect, g_redirect_server, g_redirect_cookie_len, toldHost, licenceVars,
                   ext_disc_reason, exitCode, cookieAge, userVars, srvVars, server,
                   g_packet_encryption, g_password, logonPassword>>

\* One of the nested receives: whatever it returns is ignored.
NestedReceive ==
    /\ nested > 0
    /\ nested' = nested - 1
    /\ \/ CanReceive /\ TcpSend(g_network_error') /\ UNCHANGED <<g_sock, userVars>>
       \/ TcpRecvFails /\ UNCHANGED userVars
       \/ UiSelectStops
    /\ IF nested = 1 /\ pc = "main"
       THEN deactivated' = FALSE /\ pc' = IF g_pending_resize' THEN "disconnect" ELSE "main"
       ELSE UNCHANGED <<deactivated, pc>>
    /\ UNCHANGED <<g_ssl, encryptionVars, negotiationVars, g_rdp_shareid, redirectVars,
                   licenceVars, ext_disc_reason, exitCode, reconnectVars, srvVars, logonVars>>

\* Deactivate All; rdp_main_loop goes on.
Deactivate ==
    /\ pc = "main" /\ Received({"active"})
    /\ srv' = "deactivated"
    /\ deactivated' = TRUE
    /\ UNCHANGED <<transportVars, pc, nested, g_rdp_shareid, redirectVars, licenceVars,
                   ext_disc_reason, exitCode, reconnectVars, userVars, srvEncryption, logonVars>>

\* A data PDU wipes the password.  A Save Session Info may bring a new
\* reconnection cookie, a disconnect PDU its reason (which rdp_connect keeps
\* in a variable of its own and drops).
DataPdu ==
    /\ Received({"licensed", "active", "deactivated"})
    /\ g_password' = FALSE
    /\ \/ UNCHANGED <<cookieAge, ext_disc_reason>>
       \/ /\ pc = "main" /\ srv = "active"
          /\ cookieAge' = 0
          /\ UNCHANGED ext_disc_reason
       \/ /\ pc = "main"
          /\ \E reason \in Reasons \cup {"NoInfo"} : ext_disc_reason' = reason
          /\ UNCHANGED cookieAge
    /\ UNCHANGED <<transportVars, pc, nested, g_rdp_shareid, redirectVars, licenceVars,
                   deactivated, exitCode, g_reconnect_loop, userVars, srvVars, server,
                   g_packet_encryption, logonPassword, everActive, sound>>

\* Mutation: the "informational" flag is not looked at.
StoreAnyRedirect(host, blob, informational) ==
    /\ g_redirect' = TRUE
    /\ g_redirect_server' = host
    /\ g_redirect_cookie_len' = (blob \/ g_redirect_cookie_len)
    /\ IF informational
       THEN UNCHANGED toldHost
       ELSE toldHost' = host

\* What process_redirect_pdu stores; an informational one must not redirect.
\* A redirection without a blob leaves the length of an earlier one.
StoreRedirect(host, blob, informational) ==
    /\ g_redirect' = ~informational
    /\ g_redirect_server' = host
    /\ g_redirect_cookie_len' = (blob \/ g_redirect_cookie_len)
    /\ IF informational
       THEN UNCHANGED toldHost
       ELSE toldHost' = host

\* A redirection PDU, plain or enhanced.  Out of rdp_connect, main()
\* disconnects at once; out of rdp_main_loop it does so on its normal way.
Redirect ==
    /\ Received({"request", "licensed", "active"})
    /\ \E host \in Hosts, blob, informational \in BOOLEAN :
        /\ StoreRedirect(host, blob, informational)
        /\ \/ ~g_redirect' /\ UNCHANGED <<transportVars, pc>>
           \/ /\ g_redirect' /\ pc = "main"
              /\ pc' = "disconnect"
              /\ UNCHANGED transportVars
           \/ /\ g_redirect' /\ pc = "logon"
              /\ pc' = "reset"
              /\ IsoDisconnect(g_network_error')
    /\ UNCHANGED <<nested, g_rdp_shareid, licenceVars, endVars, reconnectVars, userVars, srvVars,
                   logonVars>>

\* tcp_recv returns NULL and rdp_loop False.
ReceiveFails ==
    /\ AtLoop
    /\ TcpRecvFails
    /\ pc' = IF pc = "main" THEN "disconnect" ELSE "failed"
    /\ UNCHANGED <<g_ssl, encryptionVars, negotiationVars, nested, g_rdp_shareid, redirectVars,
                   licenceVars, endVars, reconnectVars, userVars, srvVars, logonVars>>

\* ui_select goes on: it sends input, and acknowledges sound that was played.
UiEvents ==
    /\ AtLoop /\ RunsUi /\ ~g_network_error
    /\ TcpSend(g_network_error')
    /\ sound' \in {sound, "idle"}
    /\ UNCHANGED <<g_sock, g_ssl, encryptionVars, negotiationVars, pc, nested, g_rdp_shareid,
                   redirectVars, licenceVars, endVars, reconnectVars, userVars, srvVars, server,
                   g_packet_encryption, g_password, logonPassword, everActive>>

\* Sound arrives on its channel and is queued for the device.
SoundArrives ==
    /\ pc = "main" /\ Received({"active"})
    /\ sound' = "queued"
    /\ UNCHANGED <<transportVars, pc, nested, g_rdp_shareid, redirectVars, licenceVars, endVars,
                   reconnectVars, userVars, srvVars, server, g_packet_encryption, g_password,
                   logonPassword, everActive>>

\* ui_select ends the receive of rdp_main_loop.
UserStops ==
    /\ AtLoop
    /\ UiSelectStops
    /\ pc' = "disconnect"
    /\ UNCHANGED <<g_ssl, encryptionVars, negotiationVars, nested, g_rdp_shareid, redirectVars,
                   licenceVars, endVars, reconnectVars, srvVars, logonVars>>

-----------------------------------------------------------------------------
(* The user and the clock *)

\* The user closes the window, whatever the program is doing.
CloseWindow ==
    /\ pc # "exit" /\ ~closeQueued
    /\ closeQueued' = TRUE
    /\ userClosed' = TRUE
    /\ UNCHANGED <<transportVars, pc, nested, g_rdp_shareid, redirectVars, licenceVars, endVars,
                   reconnectVars, g_pending_resize, g_user_quit, resized, srvVars, logonVars>>

\* A session lasts as long as a round of the reconnection loop.
SessionLasts ==
    /\ pc = "main"
    /\ cookieAge' = Older(cookieAge)
    /\ UNCHANGED <<transportVars, pc, nested, g_rdp_shareid, redirectVars, licenceVars, endVars,
                   g_reconnect_loop, userVars, srvVars, logonVars>>

Exited == pc = "exit" /\ UNCHANGED vars

-----------------------------------------------------------------------------
Loop == Reset \/ ConnectFailed \/ Sleep \/ Disconnect
Establish == Connect \/ Negotiate \/ McsConnect \/ McsFailed
RunSession == LicenceExchange \/ LicenceResult \/ DemandActive \/ NestedReceive
              \/ Connected \/ Deactivate \/ DataPdu \/ Redirect
              \/ UiEvents \/ SoundArrives \/ ReceiveFails \/ UserStops
Surroundings == CloseWindow \/ SessionLasts

Next == Loop \/ Establish \/ RunSession \/ Surroundings \/ Exited

\* Outside a running session the program never waits for good: the server
\* goes on with the connection, or the socket ends in an error.  Data PDUs and
\* redirections are up to the server.
Progress ==
    /\ pc # "main"
    /\ \/ Loop \/ Establish
       \/ LicenceExchange \/ LicenceResult \/ DemandActive \/ NestedReceive
       \/ Connected \/ ReceiveFails

Spec == Init /\ [][Next]_vars
FairSpec == Spec /\ WF_vars(Progress)

-----------------------------------------------------------------------------
(* Properties *)

\* The client expects (and writes) a security header on exactly those packets
\* that the server writes (and expects) one on: all of them on an encrypted
\* connection, those of the licence exchange on any.  A flag that outlives a
\* connection, on redirection or reconnection, breaks it.  Option -E drops the
\* headers on purpose and is left out.
SecurityHeaderAgreement ==
    pc \in {"logon", "main"} /\ g_packet_encryption =>
        ((g_encryption \/ (~g_licence_issued /\ ~g_licence_error_result))
            <=> (srvEncryption \/ srv \in Licensing))

\* rdp_main_loop runs only after the server of this very connection has sent
\* a Demand Active: a share id never survives the connection it belongs to.
ShareOfThisConnection == pc = "main" => srv \in {"active", "deactivated"}

\* A logon packet and all that follows is protected by exactly one of TLS and
\* RDP's encryption, on every connection of the run, when no option turned
\* encryption off: TLS turns the other off, and no retry, redirection or
\* reconnection forgets to turn it on again.
ProtectedOnce ==
    pc \in {"logon", "main"} /\ g_packet_encryption /\ g_encryption_initial =>
        (g_encryption <=> g_ssl # "current")

\* Every connection goes to the host the last real redirection named, also
\* after the session there was lost; an informational redirection moves nothing.
RedirectFollowed == pc \in {"connect", "negotiate", "mcs", "logon"} => server = toldHost

\* No connection starts with the error flag of the one before, which would
\* make all its sends and receives fail at once.  There are two exceptions, both
\* on a reconnection: for a resize of a session that the server had deactivated,
\* and after sound that was still queued and is acknowledged on the closed socket.
NoStaleError ==
    pc = "connect" /\ g_network_error => g_reconnect_loop /\ (deactivated \/ sound = "cut")

\* The exit code "window closed" is for a user who closed it; the X11 front
\* end also leaves it behind when the screen was resized.
WindowClosedCode == exitCode = "EXRD_WINDOW_CLOSED" => userClosed \/ resized

\* What belongs to a connection or to an event ends with it: neither the share
\* nor the error flag of a connection is taken for one of the next
\* (rdp_reset_state, main), and what ui_select returned once is not taken for
\* the user's wish when the program ends for another reason (g_user_quit).
NothingStale == ShareOfThisConnection /\ NoStaleError /\ WindowClosedCode

\* A connection that fails is retried only when there was a session to lose:
\* a first connection, also after redirections, fails for good.
RetryOnlyLostSession == [][pc' = "sleep" => everActive]_vars

\* Reconnecting ends: with a session, with an exit, or with a redirection.
ReconnectionEnds == pc = "sleep" ~> (pc \in {"main", "exit"} \/ g_redirect)

-----------------------------------------------------------------------------
(* What the repository says of the program and the code does not do *)

\* tcp.c, iso.c: the state is reset to support reconnecting, so a connection
\* request travels on the socket that was opened for it.
RequestOnOwnSocket == pc = "negotiate" => g_ssl # "stale"

=============================================================================
