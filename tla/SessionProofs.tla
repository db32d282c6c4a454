--------------------------- MODULE SessionProofs ---------------------------
(***************************************************************************)
(* Session, for every set of hosts, every set of disconnect reasons and    *)
(* every timeout.  IInv is the inductive invariant: what is true at each   *)
(* waiting point of main() so that the safety properties hold at the       *)
(* points they speak of.                                                   *)
(*                                                                         *)
(* SmartCards, whose requests outlive the connection they came on, for     *)
(* every set of handles and any number of requests, threads and            *)
(* connections.  Consistent says why a number means what the server was    *)
(* told as long as no two threads used the list at once: each handle in    *)
(* use belongs to one number the server knows, or to one request that      *)
(* makes or ends it.  Epochs says why an answer comes in time.             *)
(*                                                                         *)
(* UnixDisk, for every drive and any number of descriptors: SlotsKnow says *)
(* what a slot has to do with the file its descriptor was opened for.      *)
(* SerialLine, for every table of requests and whatever the port refuses:  *)
(* SettingsKnown says of each setting the server asked for that the port,  *)
(* what the driver will write next, and what it makes that of, fit it.     *)
(***************************************************************************)
EXTENDS Session, SmartCards, ProofLemmas, UnixDisk, SerialLine

USE DEF transportVars, encryptionVars, negotiationVars, redirectVars, licenceVars, endVars,
        reconnectVars, userVars, srvVars, logonVars

\* How far the server is, where main() waits.
ServerProgress ==
    /\ pc \in {"connect", "negotiate", "mcs"} => srv = "idle" /\ ~g_rdp_shareid
    /\ nested > 0 => pc \in {"logon", "main"} /\ srv = "active"
    /\ pc = "logon" => /\ srv \in Licensing \cup {"licensed", "active"}
                       /\ g_rdp_shareid <=> srv = "active"
    /\ pc = "main" => srv \in {"active", "deactivated"}

\* The two licence flags know whether the licence exchange is over.
LicenceProgress ==
    /\ pc \in {"connect", "negotiate", "mcs"} => ~g_licence_issued /\ ~g_licence_error_result
    /\ pc \in {"logon", "main"} =>
          (srv \in Licensing <=> ~g_licence_issued /\ ~g_licence_error_result)

\* Packet encryption is decided by the initial value and by TLS, and the
\* server was told so.
EncryptionDecided ==
    g_packet_encryption =>
        /\ pc \in {"connect", "negotiate"} => g_encryption = g_encryption_initial
        /\ pc = "negotiate" => g_ssl # "current"
        /\ pc \in {"mcs", "logon", "main"} =>
              (g_encryption <=> g_encryption_initial /\ g_ssl # "current")
        /\ pc \in {"logon", "main"} => srvEncryption = g_encryption

\* Where an error flag that is still raised comes from, or may come from when
\* the reset acknowledges queued sound.
ErrorAccounted ==
    /\ pc = "reset" /\ g_network_error => g_redirect \/ (g_reconnect_loop /\ deactivated)
    /\ pc = "reset" /\ sound = "queued" => g_redirect \/ g_reconnect_loop
    /\ pc = "connect" /\ g_network_error => g_reconnect_loop /\ (deactivated \/ sound = "cut")
    /\ pc = "sleep" => ~g_network_error
    /\ sound = "queued" => pc \in {"main", "disconnect", "reset", "exit"}

\* A pending redirection is on its way to the top of the loop.
RedirectPending ==
    /\ g_redirect => pc \in {"disconnect", "reset"} /\ g_redirect_server = toldHost
    /\ ~g_redirect => server = toldHost

\* Only a session that was up is reconnected.
LostSession == (g_reconnect_loop \/ pc \in {"main", "disconnect", "sleep"}) => everActive

\* The program takes the window for closed, or its size for changed, only when
\* the user did that.
UserActed ==
    /\ closeQueued => userClosed
    /\ g_user_quit => userClosed \/ resized
    /\ exitCode = "EXRD_WINDOW_CLOSED" => userClosed \/ resized

IInv ==
    /\ TypeOK
    /\ ServerProgress
    /\ LicenceProgress
    /\ EncryptionDecided
    /\ ErrorAccounted
    /\ RedirectPending
    /\ LostSession
    /\ UserActed

-----------------------------------------------------------------------------
(* Ages *)

\* Saturated ages stay in range: the clock of the reconnection loop.
LEMMA AgeType == \A age \in Age : Older(age) \in Age
BY TimeoutAssumption DEF Age, Older, Never

\* Zero is an age, and so is "never".
LEMMA AgeBounds == 0 \in Age /\ Never \in Age
BY TimeoutAssumption DEF Age, Never

-----------------------------------------------------------------------------
(* Type correctness: one lemma for each part of TypeOK *)

\* Every step keeps the types of the sockets, the TLS object, the error and encryption flags.
LEMMA TransportType == TypeOK /\ [Next]_vars => TransportTypeOK'
<1> SUFFICES ASSUME TypeOK, [Next]_vars PROVE TransportTypeOK'
    OBVIOUS
<1> USE DEF TransportTypeOK, IsoDisconnect, TcpDisconnect, TcpSend, TcpRecvFails
<1>1. TransportTypeOK
    BY DEF TypeOK
<1>2. CASE Loop
    BY <1>1, <1>2 DEF Loop, Reset, ConnectFailed, Sleep, Disconnect,
                RdpResetState, IsoResetState, CutSound, FollowRedirect, StartNegotiation
<1>3. CASE Establish
    BY <1>1, <1>3 DEF Establish, Connect, Negotiate, McsConnect, McsFailed,
                PlainConfirm, TlsConfirm, TlsRetry, NegFailureRetry, IsoRefused,
                IsoRecvFails, TcpConnect
<1>4. CASE RunSession
    BY <1>1, <1>4, ZenonT(60) DEF RunSession, LicenceExchange, LicenceResult, DemandActive,
                NestedReceive, Connected, Deactivate, DataPdu, Redirect, UiEvents, SoundArrives, ReceiveFails,
                UserStops, UiSelectStops
<1>5. CASE Surroundings
    BY <1>1, <1>5 DEF Surroundings, CloseWindow, SessionLasts
<1>6. CASE UNCHANGED vars
    BY <1>1, <1>6 DEF vars
<1> QED
    BY <1>2, <1>3, <1>4, <1>5, <1>6 DEF Next, Exited

\* Every step keeps the types of where main() waits, and the exit code.
LEMMA LoopType == TypeOK /\ [Next]_vars => LoopTypeOK'
<1> SUFFICES ASSUME TypeOK, [Next]_vars PROVE LoopTypeOK'
    OBVIOUS
<1> USE DEF LoopTypeOK
<1>1. LoopTypeOK /\ EndTypeOK
    BY DEF TypeOK
<1>2. CASE Loop
    BY <1>1, <1>2 DEF Loop, Reset, ConnectFailed, Sleep, Disconnect,
                ExitCode, DisconnectReason, EndTypeOK
<1>3. CASE Establish
    BY <1>1, <1>3 DEF Establish, Connect, Negotiate, McsConnect, McsFailed, EndTypeOK
<1>4. CASE RunSession
    BY <1>1, <1>4 DEF RunSession, LicenceExchange, LicenceResult, DemandActive,
                NestedReceive, Connected, Deactivate, DataPdu, Redirect, UiEvents, SoundArrives, ReceiveFails,
                UserStops, EndTypeOK
<1>5. CASE Surroundings
    BY <1>1, <1>5 DEF Surroundings, CloseWindow, SessionLasts
<1>6. CASE UNCHANGED vars
    BY <1>1, <1>6 DEF vars
<1> QED
    BY <1>2, <1>3, <1>4, <1>5, <1>6 DEF Next, Exited

\* Every step keeps the types of the server's name and the credentials.
LEMMA LogonType == TypeOK /\ [Next]_vars => LogonTypeOK'
<1> SUFFICES ASSUME TypeOK, [Next]_vars PROVE LogonTypeOK'
    OBVIOUS
<1> USE DEF LogonTypeOK
<1>1. LogonTypeOK /\ RedirectTypeOK
    BY DEF TypeOK
<1>2. CASE Loop
    BY <1>1, <1>2 DEF Loop, Reset, ConnectFailed, Sleep, Disconnect,
                CutSound, FollowRedirect, RedirectTypeOK
<1>3. CASE Establish
    BY <1>1, <1>3 DEF Establish, Connect, Negotiate, McsConnect, McsFailed, RedirectTypeOK
<1>4. CASE RunSession
    BY <1>1, <1>4, ZenonT(60) DEF RunSession, LicenceExchange, LicenceResult, DemandActive,
                NestedReceive, Connected, Deactivate, DataPdu, Redirect, UiEvents, SoundArrives, ReceiveFails,
                UserStops, RedirectTypeOK
<1>5. CASE Surroundings
    BY <1>1, <1>5 DEF Surroundings, CloseWindow, SessionLasts
<1>6. CASE UNCHANGED vars
    BY <1>1, <1>6 DEF vars
<1> QED
    BY <1>2, <1>3, <1>4, <1>5, <1>6 DEF Next, Exited

\* Every step keeps the types of what a redirection stores.
LEMMA RedirectType == TypeOK /\ [Next]_vars => RedirectTypeOK'
<1> SUFFICES ASSUME TypeOK, [Next]_vars PROVE RedirectTypeOK'
    OBVIOUS
<1> USE DEF RedirectTypeOK
<1>1. RedirectTypeOK /\ LogonTypeOK
    BY DEF TypeOK
<1>2. CASE Loop
    BY <1>1, <1>2 DEF Loop, Reset, ConnectFailed, Sleep, Disconnect, LogonTypeOK
<1>3. CASE Establish
    BY <1>1, <1>3 DEF Establish, Connect, Negotiate, McsConnect, McsFailed, LogonTypeOK
<1>4. CASE RunSession
    BY <1>1, <1>4 DEF RunSession, LicenceExchange, LicenceResult, DemandActive,
                NestedReceive, Connected, Deactivate, DataPdu, Redirect, UiEvents, SoundArrives, ReceiveFails,
                UserStops, StoreRedirect, LogonTypeOK
<1>5. CASE Surroundings
    BY <1>1, <1>5 DEF Surroundings, CloseWindow, SessionLasts
<1>6. CASE UNCHANGED vars
    BY <1>1, <1>6 DEF vars
<1> QED
    BY <1>2, <1>3, <1>4, <1>5, <1>6 DEF Next, Exited

\* Every step keeps the types of the share, the licence flags, the server's progress.
LEMMA ConnectionType == TypeOK /\ [Next]_vars => ConnectionTypeOK'
<1> SUFFICES ASSUME TypeOK, [Next]_vars PROVE ConnectionTypeOK'
    OBVIOUS
<1> USE DEF ConnectionTypeOK, ServerStates, Licensing
<1>1. ConnectionTypeOK /\ TransportTypeOK
    BY DEF TypeOK
<1>2. CASE Loop
    BY <1>1, <1>2 DEF Loop, Reset, ConnectFailed, Sleep, Disconnect,
                RdpResetState, TransportTypeOK
<1>3. CASE Establish
    BY <1>1, <1>3 DEF Establish, Connect, Negotiate, McsConnect, McsFailed, TransportTypeOK
<1>4. CASE RunSession
    BY <1>1, <1>4 DEF RunSession, LicenceExchange, LicenceResult, DemandActive,
                NestedReceive, Connected, Deactivate, DataPdu, Redirect, UiEvents, SoundArrives, ReceiveFails,
                UserStops, TransportTypeOK
<1>5. CASE Surroundings
    BY <1>1, <1>5 DEF Surroundings, CloseWindow, SessionLasts
<1>6. CASE UNCHANGED vars
    BY <1>1, <1>6 DEF vars
<1> QED
    BY <1>2, <1>3, <1>4, <1>5, <1>6 DEF Next, Exited

\* Every step keeps the types of the reasons for an end and the ages.
LEMMA EndType == TypeOK /\ [Next]_vars => EndTypeOK'
<1> SUFFICES ASSUME TypeOK, [Next]_vars PROVE EndTypeOK'
    OBVIOUS
<1> USE DEF EndTypeOK
<1>1. EndTypeOK
    BY DEF TypeOK
<1>2. CASE Loop
    BY <1>1, <1>2, AgeType, AgeBounds DEF Loop, Reset, ConnectFailed, Sleep, Disconnect
<1>3. CASE Establish
    BY <1>1, <1>3 DEF Establish, Connect, Negotiate, McsConnect, McsFailed
<1>4. CASE RunSession
    BY <1>1, <1>4, AgeBounds DEF RunSession, LicenceExchange, LicenceResult, DemandActive,
                NestedReceive, Connected, Deactivate, DataPdu, Redirect, UiEvents, SoundArrives, ReceiveFails,
                UserStops
<1>5. CASE Surroundings
    BY <1>1, <1>5, AgeType DEF Surroundings, CloseWindow, SessionLasts
<1>6. CASE UNCHANGED vars
    BY <1>1, <1>6 DEF vars
<1> QED
    BY <1>2, <1>3, <1>4, <1>5, <1>6 DEF Next, Exited

\* Every step keeps the types of what the user did.
LEMMA UserType == TypeOK /\ [Next]_vars => UserTypeOK'
<1> SUFFICES ASSUME TypeOK, [Next]_vars PROVE UserTypeOK'
    OBVIOUS
<1> USE DEF UserTypeOK
<1>1. UserTypeOK
    BY DEF TypeOK
<1>2. CASE Loop
    BY <1>1, <1>2 DEF Loop, Reset, ConnectFailed, Sleep, Disconnect
<1>3. CASE Establish
    BY <1>1, <1>3 DEF Establish, Connect, Negotiate, McsConnect, McsFailed
<1>4. CASE RunSession
    BY <1>1, <1>4 DEF RunSession, LicenceExchange, LicenceResult, DemandActive,
                NestedReceive, Connected, Deactivate, DataPdu, Redirect, UiEvents, SoundArrives, ReceiveFails,
                UserStops, UiSelectStops
<1>5. CASE Surroundings
    BY <1>1, <1>5 DEF Surroundings, CloseWindow, SessionLasts
<1>6. CASE UNCHANGED vars
    BY <1>1, <1>6 DEF vars
<1> QED
    BY <1>2, <1>3, <1>4, <1>5, <1>6 DEF Next, Exited

\* The initial states have the right types.
LEMMA InitType == Init => TypeOK
<1> SUFFICES ASSUME Init PROVE TypeOK
    OBVIOUS
<1> USE DEF Init
<1>1. TransportTypeOK
    BY DEF TransportInit, TransportTypeOK
<1>2. LoopTypeOK
    BY DEF LoopTypeOK
<1>3. LogonTypeOK
    BY DEF LogonTypeOK
<1>4. RedirectTypeOK
    BY DEF RedirectTypeOK
<1>5. ConnectionTypeOK
    BY DEF ConnectionTypeOK, ServerStates
<1>6. EndTypeOK
    BY AgeBounds DEF EndTypeOK
<1>7. UserTypeOK
    BY DEF UserTypeOK
<1> QED
    BY ONLY <1>1, <1>2, <1>3, <1>4, <1>5, <1>6, <1>7 DEF TypeOK

\* Every step keeps all types.
LEMMA NextType == TypeOK /\ [Next]_vars => TypeOK'
BY TransportType, LoopType, LogonType, RedirectType, ConnectionType, EndType, UserType DEF TypeOK

\* Every variable of the connection loop keeps its type, for all constants.
THEOREM TypeCorrect == Spec => []TypeOK
BY InitType, NextType, PTL DEF Spec

-----------------------------------------------------------------------------
(* The inductive invariant *)

\* The invariant without the types, which NextType keeps.
States ==
    /\ ServerProgress
    /\ LicenceProgress
    /\ EncryptionDecided
    /\ ErrorAccounted
    /\ RedirectPending
    /\ LostSession
    /\ UserActed

\* The program starts with no connection, no redirection and no session to lose.
LEMMA InitInvariant == Init => IInv
<1> SUFFICES ASSUME Init PROVE IInv
    OBVIOUS
<1>1. TypeOK
    BY InitType
<1>2. ServerProgress /\ LicenceProgress /\ EncryptionDecided
    BY DEF Init, ServerProgress, LicenceProgress, EncryptionDecided
<1>3. ErrorAccounted /\ RedirectPending /\ LostSession /\ UserActed
    BY DEF Init, TransportInit, ErrorAccounted, RedirectPending, LostSession, UserActed
<1> QED
    BY <1>1, <1>2, <1>3 DEF IInv

\* Every step keeps the invariant; one case for each action.
LEMMA NextStates == IInv /\ TypeOK' /\ [Next]_vars => States'
<1> SUFFICES ASSUME IInv, TransportTypeOK', RedirectTypeOK', ConnectionTypeOK', EndTypeOK',
                    [Next]_vars
             PROVE States'
    BY DEF TypeOK
<1> USE DEF IInv, States, ServerProgress, LicenceProgress, EncryptionDecided, ErrorAccounted,
            RedirectPending, LostSession, UserActed, TypeOK, TransportTypeOK, LoopTypeOK,
            RedirectTypeOK, ConnectionTypeOK, EndTypeOK, LogonTypeOK, Licensing, ServerStates
<1>1. CASE Reset
    BY <1>1 DEF Reset, RdpResetState, IsoResetState, CutSound, FollowRedirect
<1>2. CASE ConnectFailed
    BY <1>2 DEF ConnectFailed, MayRetry
<1>3. CASE Sleep
    BY <1>3 DEF Sleep
<1>4. CASE Disconnect
    BY <1>4, ReasonsAssumption DEF Disconnect, IsoDisconnect, TcpDisconnect, TcpSend,
                ExitCode, DisconnectReason
<1>5. CASE Connect
    BY <1>5 DEF Connect, TcpConnect, TcpSend
<1>6. CASE Negotiate
    BY <1>6 DEF Negotiate, PlainConfirm, TlsConfirm, TlsRetry, NegFailureRetry, IsoRefused,
                IsoRecvFails, TcpRecvFails, TcpDisconnect, CanReceive
<1>7. CASE McsConnect
    BY <1>7 DEF McsConnect, TcpSend
<1>8. CASE McsFailed
    BY <1>8 DEF McsFailed, IsoDisconnect, TcpDisconnect
<1>9. CASE LicenceExchange
    BY <1>9 DEF LicenceExchange, Received, AtLoop
<1>10. CASE LicenceResult
    BY <1>10 DEF LicenceResult, Received, AtLoop
<1>11. CASE DemandActive
    BY <1>11 DEF DemandActive, Received, AtLoop
<1>12. CASE NestedReceive
    BY <1>12 DEF NestedReceive, UiSelectStops
<1>13. CASE Connected
    BY <1>13 DEF Connected
<1>14. CASE Deactivate
    BY <1>14 DEF Deactivate, Received, AtLoop
<1>15. CASE DataPdu
    BY <1>15 DEF DataPdu, Received, AtLoop
<1>16. CASE Redirect
  <2>1. ServerProgress' /\ LicenceProgress' /\ EncryptionDecided'
    BY <1>16 DEF Redirect, StoreRedirect, IsoDisconnect, TcpDisconnect, Received, AtLoop
  <2>2. ErrorAccounted' /\ RedirectPending' /\ LostSession' /\ UserActed'
    BY <1>16 DEF Redirect, StoreRedirect, IsoDisconnect, TcpDisconnect, Received, AtLoop
  <2> QED
    BY <2>1, <2>2
<1>17. CASE ReceiveFails
    BY <1>17 DEF ReceiveFails, AtLoop
<1>18. CASE UserStops
    BY <1>18 DEF UserStops, UiSelectStops, RunsUi, AtLoop
<1>19. CASE UiEvents
    BY <1>19 DEF UiEvents, RunsUi, AtLoop, TcpSend
<1>20. CASE SoundArrives
    BY <1>20 DEF SoundArrives, Received, AtLoop
<1>21. CASE CloseWindow
    BY <1>21 DEF CloseWindow
<1>22. CASE SessionLasts
    BY <1>22 DEF SessionLasts
<1>23. CASE UNCHANGED vars
    BY <1>23 DEF vars
<1> QED
    BY <1>1, <1>2, <1>3, <1>4, <1>5, <1>6, <1>7, <1>8, <1>9, <1>10, <1>11, <1>12,
       <1>13, <1>14, <1>15, <1>16, <1>17, <1>18, <1>19, <1>20, <1>21, <1>22, <1>23
    DEF Next, Loop, Establish, RunSession, Surroundings, Exited

\* The invariant is inductive.
LEMMA NextInvariant == IInv /\ [Next]_vars => IInv'
BY NextType, NextStates DEF IInv, States

\* The inductive invariant holds throughout every run of the connection loop.
THEOREM Invariance == Spec => []IInv
BY InitInvariant, NextInvariant, PTL DEF Spec

\* Client and server agree on which packets carry a security header, on every
\* connection of a run: licence and encryption state never outlive one.
THEOREM HeaderAgreement == Spec => []SecurityHeaderAgreement
<1>1. IInv => SecurityHeaderAgreement
    BY DEF IInv, SecurityHeaderAgreement, LicenceProgress, EncryptionDecided
<1> QED
    BY <1>1, Invariance, PTL

\* rdp_main_loop runs only on a connection whose server sent a Demand Active.
THEOREM OwnShare == Spec => []ShareOfThisConnection
<1>1. IInv => ShareOfThisConnection
    BY DEF IInv, ShareOfThisConnection, ServerProgress
<1> QED
    BY <1>1, Invariance, PTL

\* Every logon and session is protected by exactly one of TLS and RDP encryption.
THEOREM OneProtection == Spec => []ProtectedOnce
<1>1. IInv => ProtectedOnce
    BY DEF IInv, ProtectedOnce, EncryptionDecided
<1> QED
    BY <1>1, Invariance, PTL

\* Every connection goes where the last real redirection said.
THEOREM GoesWhereTold == Spec => []RedirectFollowed
<1>1. IInv => RedirectFollowed
    BY DEF IInv, RedirectFollowed, RedirectPending
<1> QED
    BY <1>1, Invariance, PTL

\* A connection starts with a stale error flag in one named case only.
THEOREM ErrorCleared == Spec => []NoStaleError
<1>1. IInv => NoStaleError
    BY DEF IInv, NoStaleError, ErrorAccounted
<1> QED
    BY <1>1, Invariance, PTL

\* The program ends with the code for a closed window only when the user closed
\* it, or (X11) resized the screen; no other end of a session looks like that.
THEOREM ClosedByUser == Spec => []WindowClosedCode
<1>1. IInv => WindowClosedCode
    BY DEF IInv, WindowClosedCode, UserActed
<1> QED
    BY <1>1, Invariance, PTL

\* Neither the share nor the error flag of a connection reaches the next, and the
\* program does not end with the code for a closed window for another reason.
THEOREM NothingOutlives == Spec => []NothingStale
BY OwnShare, ErrorCleared, ClosedByUser, PTL DEF NothingStale

\* A connection that fails is retried only after a session had been up.
THEOREM RetriesLostSession == Spec => RetryOnlyLostSession
<1>1. IInv /\ IInv' => (pc' = "sleep" => everActive')
    BY DEF IInv, LostSession
<1>2. [Next]_vars /\ pc' = "sleep" /\ everActive' => everActive
  <2> SUFFICES ASSUME [Next]_vars, pc' = "sleep", everActive' PROVE everActive
    OBVIOUS
  <2>1. CASE Loop
    BY <2>1 DEF Loop, Reset, ConnectFailed, Sleep, Disconnect
  <2>2. CASE Establish
    BY <2>2 DEF Establish, Connect, Negotiate, McsConnect, McsFailed
  <2>3. CASE RunSession
    BY <2>3 DEF RunSession, LicenceExchange, LicenceResult, DemandActive, NestedReceive,
                Connected, Deactivate, DataPdu, Redirect, UiEvents, SoundArrives, ReceiveFails, UserStops
  <2>4. CASE Surroundings \/ UNCHANGED vars
    BY <2>4 DEF Surroundings, CloseWindow, SessionLasts, vars
  <2> QED
    BY <2>1, <2>2, <2>3, <2>4 DEF Next, Exited
<1>3. IInv /\ IInv' /\ [Next]_vars => [pc' = "sleep" => everActive]_vars
    BY <1>1, <1>2
<1> QED
    BY <1>3, Invariance, PTL DEF Spec, RetryOnlyLostSession

-----------------------------------------------------------------------------
(* Smart cards *)

Adds == [handle : {0} \cup Handles, ok : BOOLEAN, server : Nat, head : Seq(Entries)]
ScardRequests == [kind : Kinds, server : Nat, epoch : Nat, connection : Nat, stage : Stages,
                  add : Adds, answered : Nat]

\* A request that is to end a context or a card, and has not done so.
Ends(request) ==
    request.kind \in {"Release", "Disconnect"} /\ request.stage \in {"queued", "lost", "given"}

Listed(list, number, handle) ==
    \E i \in 1..Len(list) : list[i] = [handle |-> handle, server |-> number]

\* No number is in the list twice.
OnceEach(list) ==
    /\ \A i, j \in 1..Len(list) : list[i].server = list[j].server => i = j
    /\ \A i \in 1..Len(list) : list[i].server # 0

\* What a request will tell the server of, or will end.
Owns(request, list, handle) ==
    \/ request.stage \in {"adding", "answer"} /\ request.add.ok /\ handle = request.add.handle
    \/ Ends(request) /\ Listed(list, request.server, handle)

\* A request and the list as long as no two threads used it at once.
Fits(request, list) ==
    /\ request.add.ok => request.kind \in Making /\ request.stage \in {"adding", "answer", "done"}
    /\ Ends(request) => \E h \in Handles : Listed(list, request.server, h)
    /\ request.stage = "adding" =>
           /\ request.add.head = list /\ request.add.server # 0
           /\ \A i \in 1..Len(list) : list[i].server # request.add.server
    /\ request.stage = "answer" /\ request.add.ok =>
           Listed(list, request.add.server, request.add.handle)

\* Each handle in use belongs to one of those the server was told of, or to one
\* request that makes or ends it.
Consistent(all, list, inUse, known) ==
    /\ OnceEach(list)
    /\ \A i, j \in 1..Len(all) : all[i].stage = "adding" /\ all[j].stage = "adding" => i = j
    /\ \A i \in 1..Len(all) : Fits(all[i], list)
    /\ \A t \in known : Listed(list, t.server, t.handle) /\ t.handle \in inUse
    /\ \A t, u \in known : t.handle = u.handle => t = u
    /\ \A i \in 1..Len(all), h \in Handles :
           Owns(all[i], list, h) => h \in inUse /\ \A t \in known : t.handle # h
    /\ \A i, j \in 1..Len(all), h \in Handles :
           Owns(all[i], list, h) /\ Owns(all[j], list, h) => i = j

ScardTypes ==
    /\ scardUp \in BOOLEAN /\ raced \in BOOLEAN
    /\ connection \in 1..MaxConnections /\ g_epoch = connection /\ curEpoch \in 0..g_epoch
    /\ ~scardUp => connection < MaxConnections
    /\ requests \in Seq(ScardRequests) /\ Len(requests) <= MaxRequests
    /\ \A i \in 1..Len(requests) :
           requests[i].stage = "adding" \/ requests[i].add.ok => requests[i].add.handle # 0
    /\ scardQueue \in Seq(1..Len(requests)) /\ threadList \in Seq(0..Len(requests))
    /\ handler \in [at : {"wait", "saw", "has", "crashed"}, id : 0..Len(requests)]
    /\ handler.at \in {"saw", "has"} => handler.id # 0
    /\ handleList \in Seq(Entries) /\ handleCounter \in Nat
    /\ pcsc \subseteq Handles /\ told \subseteq Entries

\* The epoch is the number of the connection, and the current one is that of the
\* last request.
Epochs ==
    /\ \A i \in 1..Len(requests) :
           /\ requests[i].epoch = requests[i].connection /\ requests[i].connection <= connection
           /\ requests[i].stage # "done" => requests[i].answered = 0
    /\ curEpoch # g_epoch => \A i \in 1..Len(requests) : requests[i].connection # connection

ScardState ==
    /\ ScardTypes /\ Epochs
    /\ ~raced => Consistent(requests, handleList, pcsc, told)

-----------------------------------------------------------------------------
(* Requests of smart cards *)

LEMMA StagedIs ==
    ASSUME NEW request \in ScardRequests, NEW stage \in Stages
    PROVE  /\ Staged(request, stage) \in ScardRequests /\ Staged(request, stage).stage = stage
           /\ Staged(request, stage).kind = request.kind
           /\ Staged(request, stage).server = request.server
           /\ Staged(request, stage).epoch = request.epoch
           /\ Staged(request, stage).connection = request.connection
           /\ Staged(request, stage).add = request.add
           /\ Staged(request, stage).answered = request.answered
BY DEF Staged, ScardRequests

LEMMA WithAddIs ==
    ASSUME NEW request \in ScardRequests, NEW add \in Adds
    PROVE  /\ WithAdd(request, add) \in ScardRequests /\ WithAdd(request, add).add = add
           /\ WithAdd(request, add).kind = request.kind
           /\ WithAdd(request, add).server = request.server
           /\ WithAdd(request, add).epoch = request.epoch
           /\ WithAdd(request, add).connection = request.connection
           /\ WithAdd(request, add).stage = request.stage
           /\ WithAdd(request, add).answered = request.answered
BY DEF WithAdd, ScardRequests

LEMMA AnsweredToIs ==
    ASSUME NEW request \in ScardRequests, NEW to \in Nat
    PROVE  /\ AnsweredTo(request, to) \in ScardRequests /\ AnsweredTo(request, to).answered = to
           /\ AnsweredTo(request, to).kind = request.kind
           /\ AnsweredTo(request, to).server = request.server
           /\ AnsweredTo(request, to).epoch = request.epoch
           /\ AnsweredTo(request, to).connection = request.connection
           /\ AnsweredTo(request, to).stage = request.stage
           /\ AnsweredTo(request, to).add = request.add
BY DEF AnsweredTo, ScardRequests

LEMMA NoAddIs == NoAdd \in Adds /\ NoAdd.ok = FALSE
<1>1. <<>> \in Seq(Entries)
    BY EmptySeq
<1> QED
    BY <1>1 DEF NoAdd, Add, Adds

LEMMA OneChanges ==
    ASSUME NEW S, NEW s \in Seq(S), NEW n \in 1..Len(s), NEW x \in S
    PROVE  /\ [s EXCEPT ![n] = x] \in Seq(S) /\ Len([s EXCEPT ![n] = x]) = Len(s)
           /\ \A i \in 1..Len(s) : [s EXCEPT ![n] = x][i] = IF i = n THEN x ELSE s[i]
BY ExceptSeq, LenProperties

-----------------------------------------------------------------------------
(* The list of handles *)

LEMMA PcscHandleIs ==
    ASSUME ScardTypes, NEW number \in Nat
    PROVE  \/ /\ PcscHandle(number) = 0
              /\ \A h : ~Listed(handleList, number, h)
           \/ PcscHandle(number) \in Handles /\ Listed(handleList, number, PcscHandle(number))
<1> DEFINE found == {i \in DOMAIN handleList : handleList[i].server = number}
           first == CHOOSE i \in found : \A j \in found : i <= j
<1>1. /\ DOMAIN handleList = 1..Len(handleList) /\ Len(handleList) \in Nat
      /\ \A i \in 1..Len(handleList) : handleList[i] \in Entries
    BY LenProperties, ElementOfSeq DEF ScardTypes
<1>2. CASE found = {}
  <2>1. PcscHandle(number) = 0
    BY <1>2 DEF PcscHandle
  <2>2. \A h : ~Listed(handleList, number, h)
    BY <1>1, <1>2 DEF Listed
  <2> QED
    BY <2>1, <2>2
<1>3. CASE found # {}
  <2>1. found \in SUBSET Nat
    BY <1>1
  <2>2. \E i \in found : \A j \in found : i <= j
    BY <1>3, <2>1, Smallest
  <2>3. first \in found
    BY <2>2
  <2>4. PcscHandle(number) = handleList[first].handle
    BY <1>3 DEF PcscHandle
  <2> HIDE DEF first
  <2>5. first \in 1..Len(handleList) /\ handleList[first].server = number
        /\ handleList[first] \in Entries
    BY <1>1, <2>3
  <2>6. handleList[first].handle \in Handles
        /\ handleList[first] = [handle |-> handleList[first].handle, server |-> number]
    BY <2>5 DEF Entries
  <2> QED
    BY <2>4, <2>5, <2>6 DEF Listed
<1> QED
    BY <1>2, <1>3

\* With each number once in the list, it is the handle of the number.
LEMMA ListedOnce ==
    ASSUME NEW list, OnceEach(list), NEW n, NEW h, NEW g, Listed(list, n, h), Listed(list, n, g)
    PROVE  h = g
<1>1. PICK i \in 1..Len(list) : list[i] = [handle |-> h, server |-> n]
    BY DEF Listed
<1>2. PICK j \in 1..Len(list) : list[j] = [handle |-> g, server |-> n]
    BY DEF Listed
<1>3. list[i].server = n /\ list[j].server = n /\ list[i].handle = h /\ list[j].handle = g
    BY <1>1, <1>2
<1>4. i = j
    BY <1>3 DEF OnceEach
<1> QED
    BY <1>3, <1>4

LEMMA PcscHandleMeans ==
    ASSUME ScardTypes, OnceEach(handleList), NEW number \in Nat, NEW h,
           Listed(handleList, number, h)
    PROVE  PcscHandle(number) = h
BY PcscHandleIs, ListedOnce

\* With as many numbers as there are places in the list, and one more, one of
\* them is not in it.
LEMMA SomeUnused ==
    ASSUME ScardTypes, NEW first \in Nat
    PROVE  \E n \in first..(first + Len(handleList)) :
               \A i \in 1..Len(handleList) : handleList[i].server # n
<1> DEFINE N == Len(handleList)
           S == first..(first + N)
           T == 1..N
<1>1. N \in Nat
    BY LenProperties DEF ScardTypes
<1> HIDE DEF N
<1>2. IsFiniteSet(S) /\ Cardinality(S) = N + 1
  <2>1. first \in Int /\ first + N \in Int /\ ~(first > first + N) /\ (first + N) - first + 1 = N + 1
    BY <1>1
  <2> QED
    BY <2>1, FS_Interval
<1>3. IsFiniteSet(T) /\ Cardinality(T) = N
  <2>1. 1 \in Int /\ N \in Int /\ (1 > N => N = 0) /\ N - 1 + 1 = N
    BY <1>1
  <2> QED
    BY <2>1, FS_Interval
<1>4. SUFFICES ASSUME \A n \in S : \E i \in T : handleList[i].server = n
               PROVE  FALSE
    BY DEF N
<1> DEFINE place == [n \in S |-> CHOOSE i \in T : handleList[i].server = n]
<1>5. place \in [S -> T] /\ \A n \in S : handleList[place[n]].server = n
    BY <1>4
<1>6. Cardinality(T) < Cardinality(S)
    BY <1>1, <1>2, <1>3
<1> HIDE DEF S, T, place
<1>7. \E n, m \in S : n # m /\ place[n] = place[m]
    BY <1>2, <1>3, <1>5, <1>6, FS_PigeonHole
<1> QED
    BY <1>5, <1>7

LEMMA UnusedNumberIs ==
    ASSUME ScardTypes, NEW counter \in Nat
    PROVE  /\ UnusedNumber(counter) \in Nat \ {0}
           /\ \A i \in 1..Len(handleList) : handleList[i].server # UnusedNumber(counter)
<1> DEFINE first == IF counter = 0 THEN 1 ELSE counter
           used == {handleList[i].server : i \in DOMAIN handleList}
           free == {n \in first..(first + Len(handleList)) : n \notin used}
           P(n) == n \notin used /\ \A k \in first..(n - 1) : k \in used
<1>1. DOMAIN handleList = 1..Len(handleList) /\ Len(handleList) \in Nat
    BY LenProperties DEF ScardTypes
<1>2. first \in Nat \ {0}
    OBVIOUS
<1>3. used = {handleList[i].server : i \in 1..Len(handleList)}
    BY <1>1
<1> HIDE DEF first, used
<1>4. \E n \in first..(first + Len(handleList)) : n \notin used
    BY <1>2, <1>3, SomeUnused
<1>5. free # {} /\ free \in SUBSET Nat
    BY <1>1, <1>2, <1>4
<1>6. PICK m \in free : \A n \in free : m <= n
    BY <1>5, Smallest
<1>7. m \in first..(first + Len(handleList)) /\ P(m)
  <2>1. \A k \in first..(m - 1) : k \in first..(first + Len(handleList)) /\ ~(m <= k)
    BY <1>1, <1>2, <1>6
  <2> QED
    BY <1>6, <2>1
<1>8. UnusedNumber(counter) = CHOOSE n \in first..(first + Len(handleList)) : P(n)
    BY DEF UnusedNumber, first, used
<1>9. /\ UnusedNumber(counter) \in first..(first + Len(handleList))
      /\ UnusedNumber(counter) \notin used
    BY <1>7, <1>8
<1> QED
    BY <1>1, <1>2, <1>3, <1>9

LEMMA RemovedIs ==
    ASSUME ScardTypes, NEW handle
    PROVE  \/ Removed(handle) = handleList /\ \A i \in 1..Len(handleList) : handleList[i].handle # handle
           \/ \E n \in 1..Len(handleList) :
                  handleList[n].handle = handle /\ Removed(handle) = CutOut(handleList, n)
<1> DEFINE found == {i \in DOMAIN handleList : handleList[i].handle = handle}
           first == CHOOSE i \in found : \A j \in found : i <= j
<1>1. DOMAIN handleList = 1..Len(handleList) /\ Len(handleList) \in Nat
    BY LenProperties DEF ScardTypes
<1>2. CASE found = {}
  <2>1. Removed(handle) = handleList
    BY <1>2 DEF Removed
  <2> QED
    BY <1>1, <1>2, <2>1
<1>3. CASE found # {}
  <2>1. found \in SUBSET Nat
    BY <1>1
  <2>2. \E i \in found : \A j \in found : i <= j
    BY <1>3, <2>1, Smallest
  <2>3. first \in found
    BY <2>2
  <2>4. Removed(handle) = CutOut(handleList, first)
    BY <1>3 DEF Removed, CutOut
  <2> QED
    BY <1>1, <2>3, <2>4
<1> QED
    BY <1>2, <1>3

\* Other handles stay in the list, under their numbers.
LEMMA RemovedKeeps ==
    ASSUME ScardTypes, NEW handle
    PROVE  /\ Removed(handle) \in Seq(Entries)
           /\ OnceEach(handleList) => OnceEach(Removed(handle))
           /\ \A n, h : Listed(Removed(handle), n, h) => Listed(handleList, n, h)
           /\ \A n, h : Listed(handleList, n, h) /\ h # handle => Listed(Removed(handle), n, h)
<1>1. CASE Removed(handle) = handleList
    BY <1>1 DEF ScardTypes
<1>2. ASSUME NEW m \in 1..Len(handleList), handleList[m].handle = handle,
             Removed(handle) = CutOut(handleList, m)
      PROVE  /\ Removed(handle) \in Seq(Entries)
             /\ OnceEach(handleList) => OnceEach(Removed(handle))
             /\ \A n, h : Listed(Removed(handle), n, h) => Listed(handleList, n, h)
             /\ \A n, h : Listed(handleList, n, h) /\ h # handle => Listed(Removed(handle), n, h)
  <2> DEFINE list == CutOut(handleList, m)
             N == Len(handleList)
  <2>1. /\ list \in Seq(Entries) /\ Len(list) = N - 1
        /\ \A i \in 1..(N - 1) : list[i] = IF i < m THEN handleList[i] ELSE handleList[i + 1]
    BY CutOutIs DEF ScardTypes
  <2>2. N \in Nat /\ m \in 1..N
    BY LenProperties DEF ScardTypes
  <2> HIDE DEF list, N
  <2>3. \A i \in 1..Len(list) : \E k \in 1..N :
            k # m /\ list[i] = handleList[k] /\ k = IF i < m THEN i ELSE i + 1
    BY <2>1, <2>2
  <2>4. \A k \in 1..N : k # m => \E i \in 1..Len(list) : list[i] = handleList[k]
    <3> SUFFICES ASSUME NEW k \in 1..N, k # m PROVE \E i \in 1..Len(list) : list[i] = handleList[k]
      OBVIOUS
    <3>1. CASE k < m
      BY <2>1, <2>2, <3>1
    <3>2. CASE ~(k < m)
      <4>1. k - 1 \in 1..(N - 1) /\ ~(k - 1 < m) /\ (k - 1) + 1 = k
        BY <2>2, <3>2
      <4>2. list[k - 1] = handleList[k]
        BY <2>1, <4>1
      <4> QED
        BY <2>1, <4>1, <4>2
    <3> QED
      BY <3>1, <3>2
  <2>5. OnceEach(handleList) => OnceEach(list)
    <3> SUFFICES ASSUME OnceEach(handleList) PROVE OnceEach(list)
      OBVIOUS
    <3>1. ASSUME NEW i \in 1..Len(list), NEW j \in 1..Len(list), list[i].server = list[j].server
          PROVE  i = j
      <4>1. PICK k \in 1..N : list[i] = handleList[k] /\ k = IF i < m THEN i ELSE i + 1
        BY <2>3
      <4>2. PICK l \in 1..N : list[j] = handleList[l] /\ l = IF j < m THEN j ELSE j + 1
        BY <2>3
      <4>3. k = l
        BY <3>1, <4>1, <4>2 DEF OnceEach, N
      <4> QED
        BY <2>1, <2>2, <4>1, <4>2, <4>3
    <3>2. \A i \in 1..Len(list) : list[i].server # 0
      BY <2>3 DEF OnceEach, N
    <3> QED
      BY <3>1, <3>2 DEF OnceEach
  <2>6. \A n, h : Listed(list, n, h) => Listed(handleList, n, h)
    BY <2>3 DEF Listed, N
  <2>7. \A n, h : Listed(handleList, n, h) /\ h # handle => Listed(list, n, h)
    <3> SUFFICES ASSUME NEW n, NEW h, Listed(handleList, n, h), h # handle PROVE Listed(list, n, h)
      OBVIOUS
    <3>1. PICK k \in 1..N : handleList[k] = [handle |-> h, server |-> n]
      BY DEF Listed, N
    <3>2. k # m
      BY <1>2, <3>1
    <3> QED
      BY <2>4, <3>1, <3>2 DEF Listed
  <2> QED
    BY <1>2, <2>1, <2>5, <2>6, <2>7 DEF list
<1> QED
    BY <1>1, <1>2, RemovedIs

EntryOf(add) == [handle |-> add.handle, server |-> add.server]

LEMMA LinkedType ==
    ASSUME ScardTypes, NEW add \in Adds, add.handle # 0, NEW list \in Linked(add)
    PROVE  list \in Seq(Entries)
<1>1. EntryOf(add) \in Entries
    BY DEF EntryOf, Adds, Entries
<1> DEFINE one == <<EntryOf(add)>>
<1>2. one \in Seq(Entries)
    BY <1>1
<1>3. DOMAIN handleList = 1..Len(handleList) /\ Len(handleList) \in Nat /\ handleList \in Seq(Entries)
    BY LenProperties DEF ScardTypes
<1>4. \A i \in 1..Len(handleList) : From(i) \in Seq(Entries)
    BY <1>3, SubSeqType DEF From
<1> HIDE DEF one
<1>5. \A i \in 1..Len(handleList) : one \o From(i) \in Seq(Entries)
    BY <1>2, <1>4, ConcatProperties
<1>6. list = one \/ \E i \in DOMAIN handleList : list = one \o From(i)
    BY DEF Linked, one, EntryOf
<1> QED
    BY <1>2, <1>3, <1>5, <1>6

\* With nobody else at the list, the entry is its new head.
LEMMA LinkedIs ==
    ASSUME ScardTypes, OnceEach(handleList), NEW add \in Adds, add.head = handleList,
           NEW list \in Linked(add)
    PROVE  list = <<EntryOf(add)>> \o handleList
<1>1. DOMAIN handleList = 1..Len(handleList) /\ Len(handleList) \in Nat /\ handleList \in Seq(Entries)
    BY LenProperties DEF ScardTypes
<1> DEFINE one == <<EntryOf(add)>>
           head == {i \in DOMAIN handleList : add.head # <<>> /\ handleList[i] = add.head[1]}
<1>2. \/ head = {} /\ (list = one \/ \E i \in DOMAIN handleList : list = one \o From(i))
      \/ \E i \in head : list = one \o From(i)
    BY DEF Linked, one, EntryOf
<1>3. CASE handleList = <<>>
  <2>1. DOMAIN handleList = {}
    BY <1>3
  <2>2. list = one
    BY <1>2, <2>1
  <2>3. one \o <<>> = one
    OBVIOUS
  <2> QED
    BY <1>3, <2>2, <2>3
<1>4. CASE handleList # <<>>
  <2>1. 1 \in 1..Len(handleList)
    BY <1>1, <1>4, EmptySeq
  <2>2. 1 \in head /\ \A i \in head : i \in 1..Len(handleList) /\ handleList[i].server = handleList[1].server
    BY <1>1, <1>4, <2>1
  <2>3. \A i \in head : i = 1
    BY <2>1, <2>2 DEF OnceEach
  <2> HIDE DEF head
  <2>4. list = one \o From(1)
    BY <1>2, <2>2, <2>3
  <2>5. From(1) = handleList
    BY <1>1, SubSeqFull DEF From
  <2> QED
    BY <2>4, <2>5
<1> QED
    BY <1>3, <1>4

\* The list is the old one and what was put before it.
HeadOf(list, add, old) ==
    /\ OnceEach(list) /\ Listed(list, add.server, add.handle)
    /\ ServerHandle(list, add.handle) = add.server
    /\ \A n, h : Listed(old, n, h) => Listed(list, n, h)
    /\ \A n, h : Listed(list, n, h) => Listed(old, n, h) \/ (n = add.server /\ h = add.handle)

LEMMA LinkedKeeps ==
    ASSUME NEW old \in Seq(Entries), OnceEach(old), NEW add \in Adds, add.handle # 0, add.server # 0,
           \A i \in 1..Len(old) : old[i].server # add.server,
           NEW list, list = <<EntryOf(add)>> \o old
    PROVE  HeadOf(list, add, old)
<1>1. EntryOf(add) \in Entries /\ EntryOf(add).server = add.server /\ EntryOf(add).handle = add.handle
    BY DEF EntryOf, Adds, Entries
<1> DEFINE one == <<EntryOf(add)>>
           N == Len(old)
<1>2. one \in Seq(Entries) /\ Len(one) = 1 /\ one[1] = EntryOf(add)
    BY <1>1
<1>3. N \in Nat
    BY LenProperties
<1> HIDE DEF one
<1>4. /\ list \in Seq(Entries) /\ Len(list) = 1 + N
      /\ \A i \in 1..1 : list[i] = one[i]
      /\ \A i \in 1..N : list[1 + i] = old[i]
    BY <1>2, BehindIs DEF one
<1> HIDE DEF N
<1>5. list[1] = EntryOf(add)
    BY <1>2, <1>4
<1>6. \A i \in 1..Len(list) : i = 1 \/ (i - 1 \in 1..N /\ list[i] = old[i - 1])
  <2> SUFFICES ASSUME NEW i \in 1..Len(list), i # 1 PROVE i - 1 \in 1..N /\ list[i] = old[i - 1]
    OBVIOUS
  <2>1. i - 1 \in 1..N /\ 1 + (i - 1) = i
    BY <1>3, <1>4
  <2> QED
    BY <1>4, <2>1
<1>7. \A i \in 1..N : 1 + i \in 1..Len(list) /\ 1 \in 1..Len(list)
    BY <1>3, <1>4
<1>71. 1 \in 1..Len(list)
    BY <1>3, <1>4
<1>8. OnceEach(list)
  <2>1. ASSUME NEW i \in 1..Len(list), NEW j \in 1..Len(list), list[i].server = list[j].server
        PROVE  i = j
    <3>1. CASE i = 1
      BY <1>1, <1>5, <1>6, <2>1, <3>1 DEF N
    <3>2. CASE j = 1
      BY <1>1, <1>5, <1>6, <2>1, <3>2 DEF N
    <3>3. CASE i # 1 /\ j # 1
      <4>1. i - 1 \in 1..N /\ j - 1 \in 1..N /\ old[i - 1].server = old[j - 1].server
        BY <1>6, <2>1, <3>3
      <4>2. i - 1 = j - 1
        BY <4>1 DEF OnceEach, N
      <4> QED
        BY <1>4, <1>3, <4>2
    <3> QED
      BY <3>1, <3>2, <3>3
  <2>2. \A i \in 1..Len(list) : list[i].server # 0
    BY <1>1, <1>5, <1>6 DEF OnceEach, N
  <2> QED
    BY <2>1, <2>2 DEF OnceEach
<1>9. Listed(list, add.server, add.handle)
    BY <1>5, <1>71 DEF Listed, EntryOf
<1>10. \A n, h : Listed(old, n, h) => Listed(list, n, h)
    BY <1>4, <1>7 DEF Listed, N
<1>11. \A n, h : Listed(list, n, h) => Listed(old, n, h) \/ (n = add.server /\ h = add.handle)
  <2> SUFFICES ASSUME NEW n, NEW h, Listed(list, n, h)
               PROVE  Listed(old, n, h) \/ (n = add.server /\ h = add.handle)
    OBVIOUS
  <2>1. PICK i \in 1..Len(list) : list[i] = [handle |-> h, server |-> n]
    BY DEF Listed
  <2>2. CASE i = 1
    BY <1>1, <1>5, <2>1, <2>2
  <2>3. CASE i # 1
    BY <1>6, <2>1, <2>3 DEF Listed, N
  <2> QED
    BY <2>2, <2>3
<1>12. ServerHandle(list, add.handle) = add.server
  <2> DEFINE found == {i \in DOMAIN list : list[i].handle = add.handle}
             first == CHOOSE i \in found : \A j \in found : i <= j
  <2>1. DOMAIN list = 1..Len(list)
    BY <1>4, LenProperties
  <2>2. 1 \in found /\ \A j \in found : 1 <= j /\ j \in Nat
    BY <1>1, <1>3, <1>4, <1>5, <1>71, <2>1
  <2>3. \E i \in found : \A j \in found : i <= j
    BY <2>2
  <2>31. first \in found /\ \A j \in found : first <= j
    BY <2>3, Zenon
  <2> HIDE DEF first, found
  <2>32. first <= 1 /\ 1 <= first /\ first \in Nat
    BY <2>2, <2>31
  <2>4. first = 1
    BY <2>32
  <2>5. ServerHandle(list, add.handle) = list[first].server
    BY <2>2 DEF ServerHandle, first, found
  <2> QED
    BY <1>1, <1>5, <2>4, <2>5
<1> QED
    BY <1>8, <1>9, <1>10, <1>11, <1>12 DEF HeadOf

-----------------------------------------------------------------------------
(* Steps of smart cards *)

LEMMA ConsistentKept ==
    ASSUME NEW all, NEW new, Len(new) = Len(all), NEW list, NEW after, NEW inUse, NEW using,
           NEW known, NEW tell, tell \subseteq known,
           Consistent(all, list, inUse, known), OnceEach(after),
           \A i \in 1..Len(all) : Fits(new[i], after) /\ (new[i].stage = "adding" => all[i].stage = "adding"),
           \A i \in 1..Len(all), h \in Handles :
               Owns(new[i], after, h) => Owns(all[i], list, h) /\ h \in using,
           \A t \in tell : Listed(after, t.server, t.handle) /\ t.handle \in using
    PROVE  Consistent(new, after, using, tell)
BY DEF Consistent

\* What may become of a request that is neither making a handle nor done.
MayBecome(request, stage) ==
    /\ stage \in {"lost", "given", "waiting", "answer"}
    /\ request.stage \in {"queued", "lost", "given"} \/ (request.stage = "waiting" /\ stage = "answer")

LEMMA StagedFits ==
    ASSUME NEW request \in ScardRequests, NEW stage, MayBecome(request, stage), NEW list,
           Fits(request, list)
    PROVE  /\ Fits(Staged(request, stage), list)
           /\ \A h : Owns(Staged(request, stage), list, h) => Owns(request, list, h)
<1> DEFINE new == Staged(request, stage)
<1>1. /\ new.stage = stage /\ new.kind = request.kind /\ new.server = request.server
      /\ new.add = request.add
    BY StagedIs DEF MayBecome, Stages
<1> HIDE DEF new
<1>2. ~request.add.ok
    BY DEF Fits, MayBecome
<1>3. stage # "adding" /\ (Ends(new) => Ends(request))
    BY <1>1 DEF Ends, MayBecome
<1>4. Fits(new, list)
    BY <1>1, <1>2, <1>3 DEF Fits
<1>5. \A h : Owns(new, list, h) => Owns(request, list, h)
    BY <1>1, <1>2, <1>3 DEF Owns
<1> QED
    BY <1>4, <1>5 DEF new

Restaged ==
    /\ requests' \in Seq(ScardRequests) /\ Len(requests') = Len(requests)
    /\ \A i \in 1..Len(requests) :
           \/ requests'[i] = requests[i]
           \/ \E stage \in Stages : /\ MayBecome(requests[i], stage)
                                    /\ requests'[i] = Staged(requests[i], stage)

AnsweredKept == \A i \in 1..Len(requests) : requests'[i].answered = requests[i].answered

LEMMA RequestAt ==
    ASSUME ScardTypes
    PROVE  /\ Len(requests) \in Nat /\ DOMAIN requests = 1..Len(requests)
           /\ requests \in Seq(ScardRequests)
           /\ \A i \in 1..Len(requests) : requests[i] \in ScardRequests
BY LenProperties, ElementOfSeq DEF ScardTypes

LEMMA RestagedKeeps ==
    ASSUME ScardTypes, Restaged
    PROVE  \A i \in 1..Len(requests) :
               /\ requests'[i].epoch = requests[i].epoch
               /\ requests'[i].connection = requests[i].connection
               /\ requests'[i].answered = requests[i].answered
               /\ requests'[i].add = requests[i].add
               /\ requests'[i].stage = "adding" => requests[i].stage = "adding"
               /\ requests'[i].stage # "done" => requests[i].stage # "done"
<1> SUFFICES ASSUME NEW i \in 1..Len(requests)
             PROVE  /\ requests'[i].epoch = requests[i].epoch
                    /\ requests'[i].connection = requests[i].connection
                    /\ requests'[i].answered = requests[i].answered
                    /\ requests'[i].add = requests[i].add
                    /\ requests'[i].stage = "adding" => requests[i].stage = "adding"
                    /\ requests'[i].stage # "done" => requests[i].stage # "done"
    OBVIOUS
<1>1. CASE requests'[i] = requests[i]
    BY <1>1
<1>2. ASSUME NEW stage \in Stages, MayBecome(requests[i], stage),
             requests'[i] = Staged(requests[i], stage)
      PROVE  /\ requests'[i].epoch = requests[i].epoch
             /\ requests'[i].connection = requests[i].connection
             /\ requests'[i].answered = requests[i].answered
             /\ requests'[i].add = requests[i].add
             /\ requests'[i].stage = "adding" => requests[i].stage = "adding"
             /\ requests'[i].stage # "done" => requests[i].stage # "done"
    BY <1>2, RequestAt, StagedIs DEF MayBecome
<1> QED
    BY <1>1, <1>2 DEF Restaged

\* A step that moves requests on, and at most forgets some of what was told.
LEMMA RestagedGood ==
    ASSUME ScardState, Restaged, scardUp' \in BOOLEAN, told' \subseteq told,
           raced' \in BOOLEAN, raced => raced',
           \/ UNCHANGED <<connection, g_epoch, curEpoch>>
           \/ /\ connection' = connection + 1 /\ g_epoch' = g_epoch + 1 /\ UNCHANGED curEpoch
              /\ connection' \in 1..MaxConnections,
           scardQueue' \in Seq(1..Len(requests)), threadList' \in Seq(0..Len(requests)),
           handler' \in [at : {"wait", "saw", "has", "crashed"}, id : 0..Len(requests)],
           handler'.at \in {"saw", "has"} => handler'.id # 0,
           UNCHANGED <<handleList, handleCounter, pcsc>>,
           ~scardUp' => connection' < MaxConnections
    PROVE  ScardState' /\ AnsweredKept
<1>1. ScardTypes /\ Epochs /\ requests' \in Seq(ScardRequests) /\ Len(requests') = Len(requests)
    BY DEF ScardState, Restaged
<1>2. \A i \in 1..Len(requests) :
          /\ requests'[i].epoch = requests[i].epoch
          /\ requests'[i].connection = requests[i].connection
          /\ requests'[i].answered = requests[i].answered
          /\ requests'[i].add = requests[i].add
          /\ requests'[i].stage = "adding" => requests[i].stage = "adding"
          /\ requests'[i].stage # "done" => requests[i].stage # "done"
    BY <1>1, RestagedKeeps
<1>3. ScardTypes'
  <2>1. \A i \in 1..Len(requests') :
            requests'[i].stage = "adding" \/ requests'[i].add.ok => requests'[i].add.handle # 0
    <3>1. \A i \in 1..Len(requests) :
              requests[i].stage = "adding" \/ requests[i].add.ok => requests[i].add.handle # 0
      BY <1>1 DEF ScardTypes
    <3> QED
      BY <1>1, <1>2, <3>1
  <2>2. connection' \in 1..MaxConnections /\ g_epoch' = connection' /\ curEpoch' \in 0..g_epoch'
    <3>1. MaxConnections \in Nat /\ connection \in 1..MaxConnections /\ g_epoch = connection
          /\ curEpoch \in 0..g_epoch
      BY <1>1, ScardAssumption DEF ScardTypes
    <3> QED
      BY <3>1
  <2> QED
    BY <1>1, <2>1, <2>2 DEF ScardTypes
<1>4. Epochs'
  <2>1. connection \in Nat /\ connection' \in Nat /\ connection <= connection' /\ curEpoch \in Nat
        /\ g_epoch = connection /\ g_epoch' = connection' /\ curEpoch' = curEpoch
    BY <1>1, ScardAssumption DEF ScardTypes
  <2>2. \A i \in 1..Len(requests) : requests[i].connection \in Nat
    BY <1>1, RequestAt DEF ScardRequests
  <2>3. ASSUME NEW i \in 1..Len(requests')
        PROVE  /\ requests'[i].epoch = requests'[i].connection
               /\ requests'[i].connection <= connection'
               /\ requests'[i].stage # "done" => requests'[i].answered = 0
    <3>1. i \in 1..Len(requests)
      BY <1>1
    <3>2. /\ requests[i].epoch = requests[i].connection /\ requests[i].connection <= connection
          /\ requests[i].stage # "done" => requests[i].answered = 0
      BY <1>1, <3>1 DEF Epochs
    <3>3. requests[i].connection <= connection'
      BY <2>1, <2>2, <3>1, <3>2
    <3> QED
      BY <1>2, <3>1, <3>2, <3>3
  <2>4. ASSUME curEpoch' # g_epoch', NEW i \in 1..Len(requests')
        PROVE  requests'[i].connection # connection'
    <3>1. CASE connection' = connection
      BY <1>1, <1>2, <2>1, <2>4, <3>1 DEF Epochs
    <3>2. CASE connection' = connection + 1
      BY <1>1, <1>2, <2>1, <2>2, <3>2 DEF Epochs
    <3> QED
      BY <3>1, <3>2
  <2> QED
    BY <2>3, <2>4 DEF Epochs
<1>5. ASSUME ~raced' PROVE Consistent(requests', handleList', pcsc', told')
  <2>1. Consistent(requests, handleList, pcsc, told)
    BY <1>5 DEF ScardState
  <2>2. \A i \in 1..Len(requests) :
            Fits(requests'[i], handleList) /\ \A h : Owns(requests'[i], handleList, h) => Owns(requests[i], handleList, h)
    <3> SUFFICES ASSUME NEW i \in 1..Len(requests)
                 PROVE  /\ Fits(requests'[i], handleList)
                        /\ \A h : Owns(requests'[i], handleList, h) => Owns(requests[i], handleList, h)
      OBVIOUS
    <3>1. requests[i] \in ScardRequests /\ Fits(requests[i], handleList)
      BY <1>1, <2>1, RequestAt DEF Consistent
    <3>2. CASE requests'[i] = requests[i]
      BY <3>1, <3>2
    <3>3. ASSUME NEW stage \in Stages, MayBecome(requests[i], stage),
                 requests'[i] = Staged(requests[i], stage)
          PROVE  /\ Fits(requests'[i], handleList)
                 /\ \A h : Owns(requests'[i], handleList, h) => Owns(requests[i], handleList, h)
      BY <3>1, <3>3, StagedFits
    <3> QED
      BY <3>2, <3>3 DEF Restaged
  <2>3. \A i \in 1..Len(requests), h \in Handles :
            Owns(requests'[i], handleList, h) => Owns(requests[i], handleList, h) /\ h \in pcsc
    BY <2>1, <2>2 DEF Consistent
  <2>4. OnceEach(handleList) /\ \A t \in told' : Listed(handleList, t.server, t.handle) /\ t.handle \in pcsc
    BY <2>1 DEF Consistent
  <2>5. Consistent(requests', handleList, pcsc, told')
    BY <1>1, <1>2, <2>1, <2>2, <2>3, <2>4, ConsistentKept
  <2> QED
    BY <2>5
<1> QED
    BY <1>2, <1>3, <1>4, <1>5 DEF ScardState, AnsweredKept

\* The request that a step is about.
LEMMA StageIs ==
    ASSUME ScardTypes, NEW id \in DOMAIN requests, NEW stage \in Stages, Stage(id, stage),
           MayBecome(requests[id], stage)
    PROVE  Restaged
<1>1. requests[id] \in ScardRequests /\ id \in 1..Len(requests) /\ requests \in Seq(ScardRequests)
    BY RequestAt
<1> DEFINE new == Staged(requests[id], stage)
<1>2. new \in ScardRequests
    BY <1>1, StagedIs
<1>3. requests' = [requests EXCEPT ![id] = new]
    BY DEF Stage
<1> HIDE DEF new
<1>4. /\ requests' \in Seq(ScardRequests) /\ Len(requests') = Len(requests)
      /\ \A i \in 1..Len(requests) : requests'[i] = IF i = id THEN new ELSE requests[i]
    BY <1>1, <1>2, <1>3, OneChanges
<1>5. new = Staged(requests[id], stage)
    BY DEF new
<1> QED
    BY <1>4, <1>5 DEF Restaged

LEMMA RestNothing == ScardTypes /\ UNCHANGED requests => Restaged
BY DEF ScardTypes, Restaged

LEMMA SeqMore ==
    ASSUME NEW m \in Nat, NEW n \in Nat, m <= n
    PROVE  /\ \A s : s \in Seq(1..m) => s \in Seq(1..n)
           /\ \A s : s \in Seq(0..m) => s \in Seq(0..n)
<1>1. 1..m \subseteq 1..n /\ 0..m \subseteq 0..n
    OBVIOUS
<1>2. Seq(1..m) \subseteq Seq(1..n) /\ Seq(0..m) \subseteq Seq(0..n)
    BY <1>1, SeqMonotonic
<1> QED
    BY <1>2

LEMMA KeptGood ==
    ASSUME ScardState, UNCHANGED <<connection, g_epoch, curEpoch, scardQueue, handler, threadList,
                                   handleList, handleCounter, pcsc, scardUp, raced, told>>, Restaged
    PROVE  ScardState' /\ AnsweredKept
BY RestagedGood DEF ScardState, ScardTypes

LEMMA ConnectionGood ==
    ASSUME ScardState, LoseConnection \/ Reconnect
    PROVE  ScardState' /\ AnsweredKept
<1>1. ScardTypes
    BY DEF ScardState
<1>2. CASE LoseConnection
  <2>1. Restaged
    BY <1>1, <1>2, RestNothing DEF LoseConnection
  <2> QED
    BY <1>1, <1>2, <2>1, RestagedGood DEF LoseConnection, ScardTypes
<1>3. CASE Reconnect
  <2>1. Restaged
    <3> DEFINE New(i) == IF requests[i].stage = "queued" THEN Staged(requests[i], "lost") ELSE requests[i]
    <3>1. requests' = [i \in 1..Len(requests) |-> New(i)]
      BY <1>1, <1>3, RequestAt DEF Reconnect
    <3>2. \A i \in 1..Len(requests) :
              /\ New(i) \in ScardRequests
              /\ New(i) = requests[i] \/ (MayBecome(requests[i], "lost") /\ New(i) = Staged(requests[i], "lost"))
      BY <1>1, RequestAt, StagedIs DEF MayBecome, Stages
    <3> HIDE DEF New
    <3>3. requests' \in [1..Len(requests) -> ScardRequests] /\ \A i \in 1..Len(requests) : requests'[i] = New(i)
      BY <3>1, <3>2
    <3>4. requests' \in Seq(ScardRequests) /\ Len(requests') = Len(requests)
      BY <1>1, <3>3, RequestAt, SeqOfLength
    <3> QED
      BY <3>2, <3>3, <3>4 DEF Restaged, Stages
  <2>2. connection' \in 1..MaxConnections
    BY <1>1, <1>3, ScardAssumption DEF Reconnect, ScardTypes
  <2>3. scardQueue' \in Seq(1..Len(requests))
    BY <1>3, EmptySeq DEF Reconnect
  <2> QED
    BY <1>1, <1>3, <2>1, <2>2, <2>3, RestagedGood DEF Reconnect, ScardTypes
<1> QED
    BY <1>2, <1>3

LEMMA QueueGood ==
    ASSUME ScardState, See \/ Take \/ Give
    PROVE  ScardState' /\ AnsweredKept
<1> DEFINE N == Len(requests)
           Handlers == [at : {"wait", "saw", "has", "crashed"}, id : 0..N]
<1>1. /\ ScardTypes /\ N \in Nat /\ scardQueue \in Seq(1..N) /\ threadList \in Seq(0..N)
      /\ handler \in Handlers
    BY RequestAt DEF ScardState, ScardTypes
<1>2. [at |-> "wait", id |-> 0] \in Handlers /\ [at |-> "crashed", id |-> 0] \in Handlers
    BY <1>1
<1>3. CASE See
  <2>1. Restaged
    BY <1>1, <1>3, RestNothing DEF See
  <2>2. scardQueue[1] \in 1..N
    <3> HIDE DEF N
    <3>1. scardQueue # <<>>
      BY <1>3 DEF See
    <3>2. 1 \in 1..Len(scardQueue)
      BY <1>1, <3>1, EmptySeq, LenProperties
    <3> QED
      BY <1>1, <3>2, ElementOfSeq
  <2>3. handler' \in Handlers /\ handler'.id # 0
    BY <1>1, <1>3, <2>2 DEF See
  <2> QED
    BY <1>1, <1>3, <2>1, <2>3, RestagedGood DEF See, ScardState, ScardTypes
<1>4. CASE Take
  <2>1. Restaged
    BY <1>1, <1>4, RestNothing DEF Take
  <2>2. scardQueue' \in Seq(1..N)
    <3> HIDE DEF N
    <3> QED
      BY <1>1, <1>4, EmptySeq, HeadTailProperties DEF Take
  <2>3. handler' \in Handlers /\ (handler'.at \in {"saw", "has"} => handler'.id # 0)
    <3>1. handler.id # 0 /\ handler.id \in 0..N
      BY <1>1, <1>4 DEF Take, ScardTypes
    <3>2. CASE handler' = [handler EXCEPT !.at = "has"]
      <4>1. handler' = [at |-> "has", id |-> handler.id]
        BY <1>1, <3>2
      <4> QED
        BY <3>1, <4>1
    <3>3. CASE handler' = [at |-> "crashed", id |-> 0]
      BY <1>2, <3>3
    <3> QED
      BY <1>4, <3>2, <3>3 DEF Take
  <2> QED
    BY <1>1, <1>4, <2>1, <2>2, <2>3, RestagedGood DEF Take, ScardState, ScardTypes
<1>5. CASE Give
  <2>1. PICK thread \in 0..(Len(threadList) + 1) : GiveTo(thread)
    BY <1>5 DEF Give
  <2>2. handler.at = "has" /\ handler.id \in 1..N /\ MayBecome(requests[handler.id], "given")
    BY <1>1, <2>1 DEF GiveTo, MayBecome, ScardTypes
  <2>3. Restaged
    BY <1>1, <1>5, <2>2, StageIs, RequestAt DEF Give, Stages
  <2>4. threadList' \in Seq(0..N)
    <3> HIDE DEF N
    <3>1. handler.id \in 0..N
      BY <1>1, <2>2
    <3>2. CASE threadList' = threadList
      BY <1>1, <3>2
    <3>3. CASE thread \in DOMAIN threadList /\ threadList' = [threadList EXCEPT ![thread] = handler.id]
      BY <1>1, <3>1, <3>3, ExceptSeq
    <3>4. CASE threadList' = Append(threadList, handler.id)
      BY <1>1, <3>1, <3>4, AppendProperties
    <3> QED
      BY <2>1, <3>2, <3>3, <3>4 DEF GiveTo
  <2>5. handler' \in Handlers /\ (handler'.at \in {"saw", "has"} => handler'.id # 0)
    BY <1>1, <1>2, <2>1, <2>2 DEF GiveTo
  <2> QED
    BY <1>1, <1>5, <2>3, <2>4, <2>5, RestagedGood DEF Give, ScardState, ScardTypes
<1> QED
    BY <1>3, <1>4, <1>5

\* Calls that neither make nor end anything.
LEMMA CallGood ==
    ASSUME ScardState, NEW id \in DOMAIN requests,
           CallWait(id) \/ Happens(id) \/ CallCancel(id) \/ CallUse(id)
    PROVE  ScardState' /\ AnsweredKept
<1>1. ScardTypes /\ UNCHANGED <<connection, g_epoch, curEpoch, scardQueue, handler, threadList,
                                handleList, handleCounter, pcsc, scardUp, raced, told>>
    BY DEF ScardState, CallWait, Happens, CallCancel, CallUse, ScardKept
<1>2. CASE CallWait(id) \/ CallUse(id)
  <2>1. \A stage \in {"waiting", "answer"} : MayBecome(requests[id], stage) /\ stage \in Stages
    BY <1>2 DEF CallWait, CallUse, Given, MayBecome, Stages
  <2>2. \E stage \in {"waiting", "answer"} : Stage(id, stage)
    BY <1>2 DEF CallWait, CallUse
  <2>3. Restaged
    BY <1>1, <2>1, <2>2, StageIs
  <2> QED
    BY <1>1, <2>3, KeptGood
<1>3. CASE Happens(id)
  <2>1. MayBecome(requests[id], "answer") /\ "answer" \in Stages
    BY <1>3 DEF Happens, MayBecome, Stages
  <2>2. Restaged
    BY <1>1, <1>3, <2>1, StageIs DEF Happens
  <2> QED
    BY <1>1, <2>2, KeptGood
<1>4. CASE CallCancel(id)
  <2> DEFINE Ended(i) == \/ i = id
                         \/ /\ requests[i].stage = "waiting"
                            /\ PcscHandle(requests[i].server) = PcscHandle(requests[id].server)
             New(i) == IF Ended(i) THEN Staged(requests[i], "answer") ELSE requests[i]
  <2>1. requests' = [i \in 1..Len(requests) |-> New(i)]
    BY <1>1, <1>4, RequestAt DEF CallCancel
  <2>2. \A i \in 1..Len(requests) : Ended(i) => MayBecome(requests[i], "answer")
    BY <1>4 DEF CallCancel, Given, MayBecome
  <2>3. \A i \in 1..Len(requests) :
            /\ New(i) \in ScardRequests
            /\ New(i) = requests[i] \/ (MayBecome(requests[i], "answer") /\ New(i) = Staged(requests[i], "answer"))
    BY <1>1, <2>2, RequestAt, StagedIs DEF Stages
  <2> HIDE DEF New
  <2>4. requests' \in [1..Len(requests) -> ScardRequests] /\ \A i \in 1..Len(requests) : requests'[i] = New(i)
    BY <2>1, <2>3
  <2>5. requests' \in Seq(ScardRequests) /\ Len(requests') = Len(requests)
    BY <1>1, <2>4, RequestAt, SeqOfLength
  <2>6. Restaged
    BY <2>3, <2>4, <2>5 DEF Restaged, Stages
  <2> QED
    BY <1>1, <2>6, KeptGood
<1> QED
    BY <1>2, <1>3, <1>4

\* A step that changes one request, in what it is about as well, and the list.
LEMMA OneTypes ==
    ASSUME ScardTypes, Epochs, NEW id \in DOMAIN requests, NEW new \in ScardRequests,
           requests' = [requests EXCEPT ![id] = new],
           new.epoch = requests[id].epoch, new.connection = requests[id].connection,
           new.answered = requests[id].answered, new.stage # "done", requests[id].stage # "done",
           new.stage = "adding" \/ new.add.ok => new.add.handle # 0,
           handleList' \in Seq(Entries), handleCounter' \in Nat, pcsc' \subseteq Handles,
           raced' \in BOOLEAN, UNCHANGED told, ScardKept
    PROVE  /\ ScardTypes' /\ Epochs' /\ AnsweredKept
           /\ Len(requests') = Len(requests)
           /\ \A i \in 1..Len(requests) : requests'[i] = IF i = id THEN new ELSE requests[i]
<1>1. requests \in Seq(ScardRequests) /\ id \in 1..Len(requests)
    BY RequestAt
<1>2. /\ requests' \in Seq(ScardRequests) /\ Len(requests') = Len(requests)
      /\ \A i \in 1..Len(requests) : requests'[i] = IF i = id THEN new ELSE requests[i]
    BY <1>1, OneChanges
<1>3. ScardTypes'
  <2>1. \A i \in 1..Len(requests') :
            requests'[i].stage = "adding" \/ requests'[i].add.ok => requests'[i].add.handle # 0
    BY <1>2 DEF ScardTypes
  <2> QED
    BY <1>2, <2>1 DEF ScardTypes, ScardKept
<1>4. Epochs'
  <2>1. UNCHANGED <<connection, curEpoch, g_epoch>>
    BY DEF ScardKept
  <2> QED
    BY <1>1, <1>2, <2>1 DEF Epochs
<1> QED
    BY <1>2, <1>3, <1>4 DEF AnsweredKept

LEMMA HandleListed ==
    ASSUME ScardTypes, NEW n, NEW h, Listed(handleList, n, h)
    PROVE  n \in Nat /\ h \in Handles
<1>1. PICK i \in 1..Len(handleList) : handleList[i] = [handle |-> h, server |-> n]
    BY DEF Listed
<1>2. handleList[i] \in Entries
    BY ElementOfSeq DEF ScardTypes
<1> QED
    BY <1>1, <1>2 DEF Entries

\* PC/SC has returned something that is to be put into the list.
LEMMA BeginAddGood ==
    ASSUME ScardState, NEW id \in DOMAIN requests, Given(id, Making), NEW handle \in Handles,
           NEW ok \in BOOLEAN, ok => handle \notin pcsc, BeginAdd(id, handle, ok),
           pcsc' = (IF ok THEN pcsc \cup {handle} ELSE pcsc), UNCHANGED <<handleList, told>>, ScardKept
    PROVE  ScardState' /\ AnsweredKept
<1> DEFINE number == UnusedNumber(handleCounter)
           add == Add(handle, ok, number, handleList)
           staged == Staged(requests[id], "adding")
           new == WithAdd(staged, add)
<1>1. ScardTypes /\ Epochs /\ requests[id] \in ScardRequests /\ id \in 1..Len(requests)
    BY RequestAt DEF ScardState
<1>2. number \in Nat \ {0} /\ \A i \in 1..Len(handleList) : handleList[i].server # number
    BY <1>1, UnusedNumberIs DEF ScardTypes
<1> HIDE DEF number
<1>3. /\ add \in Adds /\ add.handle = handle /\ add.ok = ok /\ add.server = number
      /\ add.head = handleList
    BY <1>1, <1>2 DEF Add, Adds, ScardTypes
<1>4. /\ staged \in ScardRequests /\ staged.stage = "adding" /\ staged.kind = requests[id].kind
      /\ staged.epoch = requests[id].epoch /\ staged.connection = requests[id].connection
      /\ staged.answered = requests[id].answered
    BY <1>1, StagedIs DEF Stages
<1>5. requests' = [requests EXCEPT ![id] = new] /\ handleCounter' = number
      /\ raced' = (raced \/ Adding # {})
    BY DEF BeginAdd, number
<1> HIDE DEF add, staged
<1>6. /\ new \in ScardRequests /\ new.stage = "adding" /\ new.kind = requests[id].kind
      /\ new.epoch = requests[id].epoch /\ new.connection = requests[id].connection
      /\ new.answered = requests[id].answered /\ new.add = add
    BY <1>3, <1>4, WithAddIs
<1> HIDE DEF new
<1>7. 0 \notin Handles /\ handle # 0
    BY ScardAssumption
<1>8. new.stage # "done" /\ requests[id].stage # "done" /\ new.add.handle # 0
    BY <1>3, <1>6, <1>7 DEF Given
<1>9. handleList' \in Seq(Entries) /\ handleCounter' \in Nat /\ pcsc' \subseteq Handles /\ raced' \in BOOLEAN
    BY <1>1, <1>2, <1>5 DEF ScardTypes
<1>10. /\ ScardTypes' /\ Epochs' /\ AnsweredKept /\ Len(requests') = Len(requests)
       /\ \A i \in 1..Len(requests) : requests'[i] = IF i = id THEN new ELSE requests[i]
    BY <1>1, <1>5, <1>6, <1>8, <1>9, OneTypes
<1>11. ASSUME ~raced' PROVE Consistent(requests', handleList, pcsc', told)
  <2>1. Consistent(requests, handleList, pcsc, told) /\ Adding = {}
    BY <1>5, <1>11 DEF ScardState
  <2>2. \A i \in 1..Len(requests) : requests[i].stage # "adding"
    BY <1>1, <2>1, RequestAt DEF Adding
  <2>3. requests[id].kind \in Making /\ ~Ends(new)
    BY <1>6 DEF Given, Ends
  <2>4. Fits(new, handleList)
    BY <1>2, <1>3, <1>6, <2>3 DEF Fits
  <2>5. \A h : Owns(new, handleList, h) => ok /\ h = handle
    BY <1>3, <1>6, <2>3 DEF Owns
  <2>6. \A i, j \in 1..Len(requests) :
            requests'[i].stage = "adding" /\ requests'[j].stage = "adding" => i = j
    BY <1>10, <2>2
  <2>7. \A i \in 1..Len(requests) : Fits(requests'[i], handleList)
    BY <1>10, <2>1, <2>4 DEF Consistent
  <2>8. \A t \in told : /\ Listed(handleList, t.server, t.handle) /\ t.handle \in pcsc
                        /\ t.handle \in pcsc'
    BY <2>1 DEF Consistent
  <2>9. ASSUME NEW i \in 1..Len(requests), NEW h \in Handles, Owns(requests'[i], handleList, h)
        PROVE  /\ h \in pcsc' /\ \A t \in told : t.handle # h
               /\ i = id => ok /\ h = handle
               /\ i # id => Owns(requests[i], handleList, h) /\ h \in pcsc
    <3>1. CASE i = id
      BY <1>10, <2>5, <2>8, <2>9, <3>1
    <3>2. CASE i # id
      BY <1>10, <2>1, <2>9, <3>2 DEF Consistent
    <3> QED
      BY <3>1, <3>2
  <2>10. ASSUME NEW i \in 1..Len(requests), NEW j \in 1..Len(requests), NEW h \in Handles,
                Owns(requests'[i], handleList, h), Owns(requests'[j], handleList, h)
         PROVE  i = j
    <3>1. CASE i # id /\ j # id
      BY <2>1, <2>9, <2>10, <3>1 DEF Consistent
    <3>2. CASE ~(i # id /\ j # id)
      BY <2>9, <2>10, <3>2
    <3> QED
      BY <3>1, <3>2
  <2>11. OnceEach(handleList) /\ \A t, u \in told : t.handle = u.handle => t = u
    BY <2>1 DEF Consistent
  <2> QED
    BY <1>10, <2>6, <2>7, <2>8, <2>9, <2>10, <2>11 DEF Consistent
<1> QED
    BY <1>10, <1>11 DEF ScardState

LEMMA MakeGood ==
    ASSUME ScardState, NEW id \in DOMAIN requests, CallMake(id)
    PROVE  ScardState' /\ AnsweredKept
<1>1. Given(id, Making) /\ UNCHANGED <<handleList, told>> /\ ScardKept
    BY DEF CallMake
<1>2. CASE \E handle \in Handles \ pcsc : pcsc' = pcsc \cup {handle} /\ BeginAdd(id, handle, TRUE)
    BY <1>1, <1>2, BeginAddGood
<1>3. CASE UNCHANGED pcsc /\ \E handle \in Handles : BeginAdd(id, handle, FALSE)
    BY <1>1, <1>3, BeginAddGood
<1>4. CASE UNCHANGED <<pcsc, handleCounter, raced>> /\ Stage(id, "answer")
  <2>1. MayBecome(requests[id], "answer") /\ "answer" \in Stages
    BY <1>1 DEF Given, MayBecome, Stages
  <2>2. Restaged
    BY <1>4, <2>1, StageIs DEF ScardState
  <2> QED
    BY <1>1, <1>4, <2>2, KeptGood DEF ScardKept
<1> QED
    BY <1>2, <1>3, <1>4 DEF CallMake

LEMMA EndAddGood ==
    ASSUME ScardState, NEW id \in DOMAIN requests, EndAdd(id)
    PROVE  ScardState' /\ AnsweredKept
<1> DEFINE add == requests[id].add
           list == handleList'
           added == Add(add.handle, add.ok, ServerHandle(list, add.handle), <<>>)
           staged == Staged(requests[id], "answer")
           new == WithAdd(staged, added)
<1>1. /\ ScardTypes /\ Epochs /\ requests[id] \in ScardRequests /\ id \in 1..Len(requests)
      /\ requests[id].stage = "adding" /\ add \in Adds /\ add.handle # 0 /\ add.handle \in Handles
    BY RequestAt DEF ScardState, EndAdd, ScardTypes, ScardRequests, Adds
<1>2. list \in Linked(add) /\ list \in Seq(Entries)
    BY <1>1, LinkedType DEF EndAdd
<1>3. ServerHandle(list, add.handle) \in Nat
  <2> DEFINE found == {i \in DOMAIN list : list[i].handle = add.handle}
             first == CHOOSE i \in found : \A j \in found : i <= j
  <2>1. CASE found = {}
    BY <2>1 DEF ServerHandle
  <2>2. CASE found # {}
    <3>1. DOMAIN list = 1..Len(list) /\ Len(list) \in Nat
      BY <1>2, LenProperties
    <3>2. found \in SUBSET Nat
      BY <3>1
    <3>3. \E i \in found : \A j \in found : i <= j
      BY <2>2, <3>2, Smallest
    <3>4. first \in found
      BY <3>3
    <3>5. list[first] \in Entries
      BY <1>2, <3>1, <3>4, ElementOfSeq
    <3>6. ServerHandle(list, add.handle) = list[first].server
      BY <2>2 DEF ServerHandle
    <3> QED
      BY <3>5, <3>6 DEF Entries
  <2> QED
    BY <2>1, <2>2
<1>4. /\ added \in Adds /\ added.handle = add.handle /\ added.ok = add.ok
      /\ added.server = ServerHandle(list, add.handle)
  <2>1. <<>> \in Seq(Entries)
    BY EmptySeq
  <2> QED
    BY <1>1, <1>3, <2>1 DEF Add, Adds
<1>5. /\ staged \in ScardRequests /\ staged.stage = "answer" /\ staged.kind = requests[id].kind
      /\ staged.epoch = requests[id].epoch /\ staged.connection = requests[id].connection
      /\ staged.answered = requests[id].answered
    BY <1>1, StagedIs DEF Stages
<1>6. requests' = [requests EXCEPT ![id] = new]
    BY DEF EndAdd
<1> HIDE DEF added, staged
<1>7. /\ new \in ScardRequests /\ new.stage = "answer" /\ new.kind = requests[id].kind
      /\ new.epoch = requests[id].epoch /\ new.connection = requests[id].connection
      /\ new.answered = requests[id].answered /\ new.add = added
    BY <1>4, <1>5, WithAddIs
<1> HIDE DEF new
<1>8. UNCHANGED <<handleCounter, pcsc, told, raced>> /\ ScardKept
    BY DEF EndAdd
<1>9. handleList' \in Seq(Entries) /\ handleCounter' \in Nat /\ pcsc' \subseteq Handles /\ raced' \in BOOLEAN
    BY <1>1, <1>2, <1>8 DEF ScardTypes
<1>10. /\ ScardTypes' /\ Epochs' /\ AnsweredKept /\ Len(requests') = Len(requests)
       /\ \A i \in 1..Len(requests) : requests'[i] = IF i = id THEN new ELSE requests[i]
  <2>1. new.stage # "done" /\ requests[id].stage # "done" /\ new.add.handle # 0
    BY <1>1, <1>4, <1>7
  <2> QED
    BY <1>1, <1>6, <1>7, <1>8, <1>9, <2>1, OneTypes
<1>11. ASSUME ~raced PROVE Consistent(requests', list, pcsc, told)
  <2>1. Consistent(requests, handleList, pcsc, told)
    BY <1>11 DEF ScardState
  <2>2. /\ OnceEach(handleList) /\ Fits(requests[id], handleList) /\ handleList \in Seq(Entries)
        /\ add.head = handleList /\ add.server # 0
        /\ \A i \in 1..Len(handleList) : handleList[i].server # add.server
        /\ add \in Adds /\ add.handle # 0
    BY <1>1, <2>1 DEF Consistent, Fits, ScardTypes
  <2> HIDE DEF add, list
  <2>3. list = <<EntryOf(add)>> \o handleList
    BY <1>1, <1>2, <2>2, LinkedIs
  <2>4. /\ OnceEach(list) /\ Listed(list, add.server, add.handle)
        /\ ServerHandle(list, add.handle) = add.server
        /\ \A n, h : Listed(handleList, n, h) => Listed(list, n, h)
        /\ \A n, h : Listed(list, n, h) =>
               Listed(handleList, n, h) \/ (n = add.server /\ h = add.handle)
    <3>1. HeadOf(list, add, handleList)
      BY <2>2, <2>3, LinkedKeeps
    <3> QED
      BY <3>1 DEF HeadOf
  <2>5. \A n, h : Listed(handleList, n, h) => n # add.server
    BY <2>2 DEF Listed
  <2>6. \A i \in 1..Len(requests) : requests[i].stage = "adding" => i = id
    BY <1>1, <2>1 DEF Consistent
  <2>7. ASSUME NEW i \in 1..Len(requests)
        PROVE  /\ Fits(requests'[i], list) /\ requests'[i].stage # "adding"
               /\ \A h : Owns(requests'[i], list, h) => Owns(requests[i], handleList, h)
    <3>1. CASE i = id
      <4>1. add.ok => new.kind \in Making
        BY <1>1, <1>7, <2>2 DEF Fits, add
      <4>2. ~Ends(new) /\ new.stage = "answer" /\ new.add.ok = add.ok
            /\ new.add.handle = add.handle /\ new.add.server = add.server
        BY <1>4, <1>7, <2>4 DEF Ends
      <4>3. Fits(new, list)
        BY <2>4, <4>1, <4>2 DEF Fits
      <4>4. \A h : Owns(new, list, h) => Owns(requests[i], handleList, h)
        BY <1>1, <3>1, <4>2 DEF Owns, add
      <4> QED
        BY <1>10, <3>1, <4>2, <4>3, <4>4
    <3>2. CASE i # id
      <4>1. requests'[i] = requests[i] /\ requests[i].stage # "adding" /\ Fits(requests[i], handleList)
        BY <1>10, <2>1, <2>6, <3>2 DEF Consistent
      <4>2. Fits(requests[i], list)
        BY <2>4, <4>1 DEF Fits
      <4>3. \A h : Owns(requests[i], list, h) => Owns(requests[i], handleList, h)
        BY <2>4, <2>5, <4>1 DEF Owns, Fits
      <4> QED
        BY <4>1, <4>2, <4>3
    <3> QED
      BY <3>1, <3>2
  <2>8. \A i \in 1..Len(requests), h \in Handles :
            Owns(requests'[i], list, h) => Owns(requests[i], handleList, h) /\ h \in pcsc
    BY <2>1, <2>7 DEF Consistent
  <2>9. \A t \in told : Listed(list, t.server, t.handle) /\ t.handle \in pcsc
    BY <2>1, <2>4 DEF Consistent
  <2> QED
    BY <1>10, <2>1, <2>4, <2>7, <2>8, <2>9, ConsistentKept
<1> QED
    BY <1>8, <1>10, <1>11 DEF ScardState

\* Release and Disconnect: the handle that ends belongs to nobody else.
LEMMA CallEndGood ==
    ASSUME ScardState, NEW id \in DOMAIN requests, CallEnd(id)
    PROVE  ScardState' /\ AnsweredKept
<1> DEFINE ended == PcscHandle(requests[id].server)
           new == Staged(requests[id], "answer")
<1>1. /\ ScardTypes /\ Epochs /\ requests[id] \in ScardRequests /\ id \in 1..Len(requests)
      /\ Ends(requests[id]) /\ requests[id].stage = "given"
    BY RequestAt DEF ScardState, CallEnd, Given, Ends
<1>2. /\ new \in ScardRequests /\ new.stage = "answer" /\ new.kind = requests[id].kind
      /\ new.epoch = requests[id].epoch /\ new.connection = requests[id].connection
      /\ new.answered = requests[id].answered /\ new.add = requests[id].add
    BY <1>1, StagedIs DEF Stages
<1>3. /\ handleList' = Removed(ended) /\ pcsc' = pcsc \ {ended} /\ requests' = [requests EXCEPT ![id] = new]
      /\ raced' = (raced \/ Adding # {}) /\ UNCHANGED <<handleCounter, told>> /\ ScardKept
    BY DEF CallEnd, Stage
<1> HIDE DEF new, ended
<1>4. /\ handleList' \in Seq(Entries)
      /\ OnceEach(handleList) => OnceEach(handleList')
      /\ \A n, h : Listed(handleList', n, h) => Listed(handleList, n, h)
      /\ \A n, h : Listed(handleList, n, h) /\ h # ended => Listed(handleList', n, h)
    BY <1>1, <1>3, RemovedKeeps
<1>5. handleCounter' \in Nat /\ pcsc' \subseteq Handles /\ raced' \in BOOLEAN
    BY <1>1, <1>3 DEF ScardTypes
<1>6. /\ ScardTypes' /\ Epochs' /\ AnsweredKept /\ Len(requests') = Len(requests)
      /\ \A i \in 1..Len(requests) : requests'[i] = IF i = id THEN new ELSE requests[i]
  <2>1. /\ new.stage # "done" /\ requests[id].stage # "done" /\ new.stage # "adding"
        /\ new.add.ok => new.add.handle # 0
    BY <1>1, <1>2 DEF ScardTypes
  <2> QED
    BY <1>1, <1>2, <1>3, <1>4, <1>5, <2>1, OneTypes
<1>7. ASSUME ~raced' PROVE Consistent(requests', handleList', pcsc', told)
  <2>1. Consistent(requests, handleList, pcsc, told) /\ Adding = {} /\ OnceEach(handleList)
    BY <1>3, <1>7 DEF ScardState, Consistent
  <2>2. \A i \in 1..Len(requests) : requests[i].stage # "adding"
    BY <1>1, <2>1, RequestAt DEF Adding
  <2>3. \A i \in 1..Len(requests) : Fits(requests[i], handleList)
    BY <2>1 DEF Consistent
  <2>4. ended \in Handles /\ Owns(requests[id], handleList, ended)
    <3>1. PICK h \in Handles : Listed(handleList, requests[id].server, h)
      BY <1>1, <2>3 DEF Fits
    <3>2. requests[id].server \in Nat
      BY <1>1 DEF ScardRequests
    <3>3. ended = h
      BY <1>1, <2>1, <3>1, <3>2, PcscHandleMeans DEF ended
    <3> QED
      BY <1>1, <3>1, <3>3 DEF Owns
  <2>5. \A t \in told : t.handle # ended /\ t.handle \in pcsc /\ Listed(handleList, t.server, t.handle)
    BY <1>1, <2>1, <2>4 DEF Consistent
  <2>6. \A i \in 1..Len(requests) : i # id => ~Owns(requests[i], handleList, ended)
    BY <1>1, <2>1, <2>4 DEF Consistent
  <2>7. ASSUME NEW i \in 1..Len(requests)
        PROVE  /\ Fits(requests'[i], handleList') /\ requests'[i].stage # "adding"
               /\ \A h : Owns(requests'[i], handleList', h) => Owns(requests[i], handleList, h) /\ h # ended
    <3>1. CASE i = id
      <4>1. ~new.add.ok /\ ~Ends(new)
        BY <1>1, <1>2, <2>3 DEF Fits, Ends
      <4>2. Fits(new, handleList') /\ \A h : ~Owns(new, handleList', h)
        BY <1>2, <4>1 DEF Fits, Owns
      <4> QED
        BY <1>2, <1>6, <3>1, <4>2
    <3>2. CASE i # id
      <4>1. requests'[i] = requests[i] /\ requests[i].stage # "adding" /\ Fits(requests[i], handleList)
        BY <1>6, <2>2, <2>3, <3>2
      <4>2. Ends(requests[i]) => \E h \in Handles : Listed(handleList', requests[i].server, h)
        BY <1>4, <2>6, <3>2, <4>1 DEF Fits, Owns
      <4>3. requests[i].stage = "answer" /\ requests[i].add.ok =>
                Listed(handleList', requests[i].add.server, requests[i].add.handle)
        BY <1>4, <2>6, <3>2, <4>1 DEF Fits, Owns
      <4>4. Fits(requests[i], handleList')
        BY <4>1, <4>2, <4>3 DEF Fits
      <4>5. \A h : Owns(requests[i], handleList', h) => Owns(requests[i], handleList, h)
        BY <1>4 DEF Owns
      <4> QED
        BY <2>6, <3>2, <4>1, <4>4, <4>5
    <3> QED
      BY <3>1, <3>2
  <2>8. \A i \in 1..Len(requests), h \in Handles :
            Owns(requests'[i], handleList', h) => Owns(requests[i], handleList, h) /\ h \in pcsc'
    <3>1. \A i \in 1..Len(requests), h \in Handles : Owns(requests[i], handleList, h) => h \in pcsc
      BY <2>1 DEF Consistent
    <3> QED
      BY <1>3, <2>7, <3>1
  <2>9. \A t \in told : Listed(handleList', t.server, t.handle) /\ t.handle \in pcsc'
    BY <1>3, <1>4, <2>5
  <2>10. OnceEach(handleList')
    BY <1>4, <2>1
  <2> QED
    BY <1>6, <2>1, <2>7, <2>8, <2>9, <2>10, ConsistentKept
<1> QED
    BY <1>3, <1>6, <1>7 DEF ScardState

\* The end of a request: a number the server is told of is the request's no more.
LEMMA AnswerGood ==
    ASSUME ScardState, NEW id \in DOMAIN requests, Answer(id)
    PROVE  /\ ScardState'
           /\ \A i \in 1..Len(requests) :
                  requests'[i].answered # requests[i].answered => i = id /\ MayAnswer(id)
<1> DEFINE to == IF MayAnswer(id) THEN connection ELSE 0
           staged == Staged(requests[id], "done")
           new == AnsweredTo(staged, to)
           entry == [server |-> requests[id].add.server, handle |-> requests[id].add.handle]
<1>1. /\ ScardTypes /\ Epochs /\ requests[id] \in ScardRequests /\ id \in 1..Len(requests)
      /\ requests[id].stage = "answer" /\ requests \in Seq(ScardRequests) /\ requests[id].answered = 0
    BY RequestAt DEF ScardState, Answer, Epochs
<1>2. to \in Nat
    BY <1>1, ScardAssumption DEF ScardTypes
<1>3. staged \in ScardRequests /\ staged.stage = "done" /\ staged.kind = requests[id].kind
      /\ staged.epoch = requests[id].epoch /\ staged.connection = requests[id].connection
      /\ staged.add = requests[id].add
    BY <1>1, StagedIs DEF Stages
<1>4. requests' = [requests EXCEPT ![id] = new]
    BY DEF Answer
<1>41. ~MayAnswer(id) => to = 0
    OBVIOUS
<1> HIDE DEF to, staged
<1>5. /\ new \in ScardRequests /\ new.stage = "done" /\ new.kind = requests[id].kind
      /\ new.epoch = requests[id].epoch /\ new.connection = requests[id].connection
      /\ new.answered = to /\ new.add = requests[id].add
    BY <1>2, <1>3, AnsweredToIs
<1> HIDE DEF new
<1>6. /\ requests' \in Seq(ScardRequests) /\ Len(requests') = Len(requests)
      /\ \A i \in 1..Len(requests) : requests'[i] = IF i = id THEN new ELSE requests[i]
    BY <1>1, <1>4, <1>5, OneChanges
<1>7. /\ told' = told \/ (requests[id].add.ok /\ told' = told \cup {entry})
      /\ UNCHANGED <<scardUp, connection, g_epoch, curEpoch, scardQueue, handleList, handleCounter,
                     pcsc, raced>>
    BY DEF Answer
<1>8. requests[id].add.ok => entry \in Entries /\ entry.server = requests[id].add.server
                                  /\ entry.handle = requests[id].add.handle
    BY <1>1 DEF Entries, ScardTypes, ScardRequests, Adds
<1> HIDE DEF entry
<1>9. told' \subseteq Entries
    BY <1>1, <1>7, <1>8 DEF ScardTypes
<1>10. ScardTypes'
  <2>1. \A i \in 1..Len(requests') :
            requests'[i].stage = "adding" \/ requests'[i].add.ok => requests'[i].add.handle # 0
    <3>1. new.add.ok => new.add.handle # 0
      BY <1>1, <1>5 DEF ScardTypes
    <3>2. \A i \in 1..Len(requests) :
              requests[i].stage = "adding" \/ requests[i].add.ok => requests[i].add.handle # 0
      BY <1>1 DEF ScardTypes
    <3> QED
      BY <1>5, <1>6, <3>1, <3>2
  <2> DEFINE N == Len(requests)
             Handlers == [at : {"wait", "saw", "has", "crashed"}, id : 0..N]
  <2>2. N \in Nat /\ [at |-> "wait", id |-> 0] \in Handlers
    BY <1>1, RequestAt
  <2>3. handler' \in Handlers /\ (handler'.at \in {"saw", "has"} => handler'.id # 0)
    BY <1>1, <2>2 DEF Answer, ScardTypes
  <2>4. threadList' \in Seq(0..N)
    <3>1. threadList \in Seq(0..N) /\ threadList' = [t \in DOMAIN threadList |-> IF threadList[t] = id THEN 0 ELSE threadList[t]]
      BY <1>1 DEF Answer, ScardTypes
    <3> HIDE DEF N
    <3>2. /\ DOMAIN threadList = 1..Len(threadList) /\ Len(threadList) \in Nat
          /\ \A t \in 1..Len(threadList) : threadList[t] \in 0..N
      BY <3>1, LenProperties, ElementOfSeq
    <3>3. threadList' \in [1..Len(threadList) -> 0..N]
      BY <2>2, <3>1, <3>2
    <3> QED
      BY <3>2, <3>3, SeqOfLength
  <2> QED
    BY <1>1, <1>6, <1>7, <1>9, <2>1, <2>3, <2>4 DEF ScardTypes
<1>11. Epochs'
    BY <1>1, <1>5, <1>6, <1>7 DEF Epochs
<1>12. ASSUME ~raced PROVE Consistent(requests', handleList, pcsc, told')
  <2>1. Consistent(requests, handleList, pcsc, told)
    BY <1>12 DEF ScardState
  <2>2. Fits(new, handleList) /\ ~Ends(new) /\ \A h : ~Owns(new, handleList, h)
    <3>1. Fits(requests[id], handleList)
      BY <1>1, <2>1 DEF Consistent
    <3>2. ~Ends(new)
      BY <1>5 DEF Ends
    <3> QED
      BY <1>5, <3>1, <3>2 DEF Fits, Owns
  <2>3. requests[id].add.ok =>
            /\ Owns(requests[id], handleList, entry.handle) /\ entry.handle \in Handles
            /\ Listed(handleList, entry.server, entry.handle)
    BY <1>1, <1>8, <2>1 DEF Consistent, Fits, Owns, Entries
  <2>4. requests[id].add.ok =>
            /\ entry.handle \in pcsc /\ \A t \in told : t.handle # entry.handle
            /\ \A i \in 1..Len(requests) : i # id => ~Owns(requests[i], handleList, entry.handle)
    BY <1>1, <2>1, <2>3 DEF Consistent
  <2>5. \A i \in 1..Len(requests) :
            /\ Fits(requests'[i], handleList) /\ (requests'[i].stage = "adding" => requests[i].stage = "adding")
            /\ \A h : Owns(requests'[i], handleList, h) => i # id /\ Owns(requests[i], handleList, h)
    BY <1>5, <1>6, <2>1, <2>2 DEF Consistent
  <2>6. \A i \in 1..Len(requests), h \in Handles :
            Owns(requests'[i], handleList, h) => Owns(requests[i], handleList, h) /\ h \in pcsc
    BY <2>1, <2>5 DEF Consistent
  <2>7. OnceEach(handleList) /\ \A t \in told : Listed(handleList, t.server, t.handle) /\ t.handle \in pcsc
    BY <2>1 DEF Consistent
  <2>8. told \subseteq told
    OBVIOUS
  <2>9. Consistent(requests', handleList, pcsc, told)
    BY <1>6, <2>1, <2>5, <2>6, <2>7, <2>8, ConsistentKept
  <2>10. CASE told' = told
    BY <2>9, <2>10
  <2>11. CASE requests[id].add.ok /\ told' = told \cup {entry}
    <3>1. \A t \in told' : Listed(handleList, t.server, t.handle) /\ t.handle \in pcsc
      BY <2>3, <2>4, <2>7, <2>11
    <3>2. \A t, u \in told : t.handle = u.handle => t = u
      BY <2>1 DEF Consistent
    <3>3. \A t, u \in told' : t.handle = u.handle => t = u
      BY <2>4, <2>11, <3>2
    <3>4. \A i \in 1..Len(requests), h \in Handles :
              Owns(requests'[i], handleList, h) => h \in pcsc /\ \A t \in told' : t.handle # h
      <4> SUFFICES ASSUME NEW i \in 1..Len(requests), NEW h \in Handles,
                          Owns(requests'[i], handleList, h), NEW t \in told'
                   PROVE  h \in pcsc /\ t.handle # h
        BY <2>5, <2>6
      <4>1. i # id /\ Owns(requests[i], handleList, h) /\ h \in pcsc
        BY <2>5, <2>6
      <4>2. h # entry.handle
        BY <2>4, <2>11, <4>1
      <4>3. \A u \in told : u.handle # h
        BY <2>1, <4>1 DEF Consistent
      <4> QED
        BY <2>11, <4>1, <4>2, <4>3
    <3> QED
      BY <1>6, <2>9, <3>1, <3>3, <3>4 DEF Consistent
  <2> QED
    BY <1>7, <2>10, <2>11
<1>13. ScardState'
    BY <1>7, <1>10, <1>11, <1>12 DEF ScardState
<1>14. \A i \in 1..Len(requests) :
           requests'[i].answered # requests[i].answered => i = id /\ MayAnswer(id)
    BY <1>1, <1>41, <1>5, <1>6
<1> QED
    BY <1>13, <1>14

\* A request that is to end what the server was told of takes it from there.
LEMMA RequestGood ==
    ASSUME ScardState, NEW kind \in Kinds, NEW number \in {0} \cup {t.server : t \in told},
           Request(kind, number)
    PROVE  ScardState' /\ AnsweredKept
<1> DEFINE N == Len(requests)
           new == Asked(kind, number)
           forgets == kind \in {"Release", "Disconnect"}
<1>1. /\ ScardTypes /\ Epochs /\ N \in Nat /\ requests \in Seq(ScardRequests) /\ N < MaxRequests
      /\ \A i \in 1..N : requests[i] \in ScardRequests
    BY RequestAt DEF ScardState, Request
<1>2. connection \in Nat /\ g_epoch = connection /\ number \in Nat
    BY <1>1, ScardAssumption DEF ScardTypes, Entries
<1>3. /\ new \in ScardRequests /\ new.kind = kind /\ new.server = number /\ new.epoch = connection
      /\ new.connection = connection /\ new.stage = "queued" /\ new.add.ok = FALSE /\ new.answered = 0
    BY <1>2, NoAddIs DEF Asked, ScardRequests, Stages
<1> HIDE DEF new
<1>4. /\ requests' \in Seq(ScardRequests) /\ Len(requests') = N + 1
      /\ \A i \in 1..N : requests'[i] = requests[i]
      /\ requests'[N + 1] = new
    BY <1>1, <1>3, AppendProperties DEF Request, new
<1>5. /\ curEpoch' = g_epoch /\ scardQueue' = Append(scardQueue, Len(requests'))
      /\ told' = (IF forgets THEN {t \in told : t.server # number} ELSE told)
      /\ UNCHANGED <<scardUp, connection, g_epoch, handler, threadList, handleList, handleCounter,
                     pcsc, raced>>
    BY DEF Request
<1> HIDE DEF N, forgets
<1>6. \A i \in 1..Len(requests') : (i \in 1..N /\ requests'[i] = requests[i]) \/ (i = N + 1 /\ requests'[i] = new)
    BY <1>1, <1>4
<1>7. ScardTypes'
  <2>1. \A i \in 1..Len(requests') :
            requests'[i].stage = "adding" \/ requests'[i].add.ok => requests'[i].add.handle # 0
    BY <1>1, <1>3, <1>6 DEF ScardTypes, N
  <2>2. N <= N + 1 /\ N + 1 \in Nat /\ N + 1 \in 1..(N + 1)
    BY <1>1
  <2>3. scardQueue \in Seq(1..N) /\ threadList \in Seq(0..N) /\ handler \in [at : {"wait", "saw", "has", "crashed"}, id : 0..N]
    BY <1>1 DEF ScardTypes, N
  <2>4. scardQueue \in Seq(1..(N + 1)) /\ threadList \in Seq(0..(N + 1))
    BY <1>1, <2>2, <2>3, SeqMore
  <2>5. scardQueue' \in Seq(1..(N + 1))
    BY <1>4, <1>5, <2>2, <2>4, AppendProperties
  <2>6. handler \in [at : {"wait", "saw", "has", "crashed"}, id : 0..(N + 1)]
    BY <1>1, <2>3
  <2>7. N + 1 <= MaxRequests
    BY <1>1, ScardAssumption
  <2>8. told' \subseteq Entries /\ curEpoch' \in 0..g_epoch'
    BY <1>1, <1>2, <1>5 DEF ScardTypes
  <2> QED
    BY <1>1, <1>4, <1>5, <2>1, <2>4, <2>5, <2>6, <2>7, <2>8 DEF ScardTypes
<1>8. Epochs'
  <2>1. \A i \in 1..Len(requests') :
            /\ requests'[i].epoch = requests'[i].connection /\ requests'[i].connection <= connection'
            /\ requests'[i].stage # "done" => requests'[i].answered = 0
    BY <1>1, <1>2, <1>3, <1>5, <1>6 DEF Epochs, N
  <2> QED
    BY <1>5, <2>1 DEF Epochs
<1>9. ASSUME ~raced PROVE Consistent(requests', handleList, pcsc, told')
  <2>1. Consistent(requests, handleList, pcsc, told) /\ OnceEach(handleList)
    BY <1>9 DEF ScardState, Consistent
  <2>2. /\ \A t \in told : Listed(handleList, t.server, t.handle) /\ t.handle \in pcsc /\ t \in Entries
        /\ \A t, u \in told : t.handle = u.handle => t = u
        /\ told' \subseteq told
    BY <1>1, <1>5, <2>1 DEF Consistent, ScardTypes
  <2>3. \A h : Owns(new, handleList, h) => Ends(new) /\ Listed(handleList, number, h)
    BY <1>3 DEF Owns
  <2>4. ASSUME Ends(new)
        PROVE  \E t \in told : /\ t.server = number /\ t.handle \in Handles
                               /\ \A h : Listed(handleList, number, h) => h = t.handle
                               /\ \A u \in told' : u.handle # t.handle
    <3>1. forgets /\ \E t \in told : t.server = number
      BY <1>3, <2>4 DEF Ends, Request, forgets
    <3>2. PICK t \in told : t.server = number
      BY <3>1
    <3>3. \A h : Listed(handleList, number, h) => h = t.handle
      BY <2>1, <2>2, <3>2, ListedOnce
    <3>4. \A u \in told' : u.handle # t.handle
      BY <1>5, <2>2, <3>1, <3>2
    <3>5. t.handle \in Handles
      BY <2>2 DEF Entries
    <3> QED
      BY <3>2, <3>3, <3>4, <3>5
  <2>5. Fits(new, handleList)
    <3>1. Ends(new) => \E h \in Handles : Listed(handleList, number, h)
      BY <2>2, <2>4
    <3> QED
      BY <1>3, <3>1 DEF Fits
  <2>6. \A h : Owns(new, handleList, h) =>
            /\ h \in pcsc /\ \A u \in told' : u.handle # h
            /\ \A i \in 1..N : ~Owns(requests[i], handleList, h)
    <3> SUFFICES ASSUME NEW h, Owns(new, handleList, h)
                 PROVE  /\ h \in pcsc /\ \A u \in told' : u.handle # h
                        /\ \A i \in 1..N : ~Owns(requests[i], handleList, h)
      OBVIOUS
    <3>1. PICK t \in told : t.handle = h /\ t.handle \in Handles /\ \A u \in told' : u.handle # t.handle
      BY <2>3, <2>4
    <3>2. \A i \in 1..N : ~Owns(requests[i], handleList, h)
      BY <2>1, <3>1 DEF Consistent, N
    <3> QED
      BY <2>2, <3>1, <3>2
  <2>7. \A i \in 1..N : /\ Fits(requests[i], handleList)
                        /\ \A h \in Handles : Owns(requests[i], handleList, h) =>
                               h \in pcsc /\ \A t \in told' : t.handle # h
    BY <2>1, <2>2 DEF Consistent, N
  <2>8. \A i, j \in 1..N : requests[i].stage = "adding" /\ requests[j].stage = "adding" => i = j
    BY <2>1 DEF Consistent, N
  <2>9. \A i, j \in 1..N, h \in Handles :
            Owns(requests[i], handleList, h) /\ Owns(requests[j], handleList, h) => i = j
    BY <2>1 DEF Consistent, N
  <2>10. \A i \in 1..Len(requests') : /\ Fits(requests'[i], handleList)
                                     /\ \A h \in Handles : Owns(requests'[i], handleList, h) =>
                                            h \in pcsc /\ \A t \in told' : t.handle # h
    BY <1>6, <2>5, <2>6, <2>7
  <2>11. \A i, j \in 1..Len(requests') :
             requests'[i].stage = "adding" /\ requests'[j].stage = "adding" => i = j
    BY <1>3, <1>6, <2>8
  <2>12. \A i, j \in 1..Len(requests'), h \in Handles :
             Owns(requests'[i], handleList, h) /\ Owns(requests'[j], handleList, h) => i = j
    BY <1>6, <2>6, <2>9
  <2> QED
    BY <2>1, <2>2, <2>10, <2>11, <2>12 DEF Consistent
<1>10. AnsweredKept
    BY <1>4 DEF AnsweredKept, N
<1> QED
    BY <1>5, <1>7, <1>8, <1>9, <1>10 DEF ScardState

-----------------------------------------------------------------------------
(* Every step *)

LEMMA ScardStart == ScardInit => ScardState
<1> SUFFICES ASSUME ScardInit PROVE ScardState
    OBVIOUS
<1>1. requests = <<>> /\ scardQueue = <<>> /\ threadList = <<>> /\ handleList = <<>>
    BY DEF ScardInit
<1>2. \A S : <<>> \in Seq(S)
    BY EmptySeq
<1>3. Len(<<>>) = 0 /\ \A i : i \notin 1..0
    OBVIOUS
<1>4. ScardTypes
  <2>1. Len(requests) = 0
    BY <1>1, <1>3
  <2>2. handler \in [at : {"wait", "saw", "has", "crashed"}, id : 0..0] /\ handler.at = "wait"
    BY DEF ScardInit
  <2>3. requests \in Seq(ScardRequests) /\ scardQueue \in Seq(1..0) /\ threadList \in Seq(0..0)
        /\ handleList \in Seq(Entries)
    BY <1>1, <1>2
  <2>4. /\ connection \in 1..MaxConnections /\ curEpoch \in 0..g_epoch /\ 0 <= MaxRequests
    BY ScardAssumption DEF ScardInit
  <2>5. \A i \in 1..0 : FALSE
    OBVIOUS
  <2> QED
    BY <2>1, <2>2, <2>3, <2>4, <2>5 DEF ScardInit, ScardTypes
<1>5. Epochs
    BY <1>1, <1>3 DEF Epochs
<1>6. Consistent(requests, handleList, pcsc, told)
    BY <1>1, <1>3 DEF ScardInit, Consistent, OnceEach
<1> QED
    BY <1>4, <1>5, <1>6 DEF ScardState

\* A step may answer a request only if MayAnswer says so.
LEMMA ScardStep ==
    ASSUME ScardState, [ScardNext]_scardVars
    PROVE  /\ ScardState'
           /\ \A i \in 1..Len(requests) :
                  requests'[i].answered # requests[i].answered => MayAnswer(i)
<1>1. ASSUME UNCHANGED scardVars
      PROVE  ScardState' /\ AnsweredKept
  <2>1. Restaged
    BY <1>1, RestNothing DEF ScardState, scardVars
  <2> QED
    BY <1>1, <2>1, KeptGood DEF scardVars
<1>2. ASSUME ScardNext, ~ \E id \in DOMAIN requests : Answer(id)
      PROVE  ScardState' /\ AnsweredKept
    BY <1>2, RequestGood, ConnectionGood, QueueGood, CallGood, MakeGood, EndAddGood, CallEndGood
       DEF ScardNext, Call
<1>3. ASSUME NEW id \in DOMAIN requests, Answer(id)
      PROVE  /\ ScardState'
             /\ \A i \in 1..Len(requests) :
                    requests'[i].answered # requests[i].answered => MayAnswer(i)
    BY <1>3, AnswerGood
<1> QED
    BY <1>1, <1>2, <1>3 DEF AnsweredKept

LEMMA AnswersInTime ==
    ASSUME ScardState, [ScardNext]_scardVars
    PROVE  \A id \in DOMAIN requests :
               (requests'[id].answered # requests[id].answered
                /\ \E other \in DOMAIN requests : requests[other].connection = connection)
                   => requests[id].connection = connection
<1>1. ScardTypes /\ Epochs /\ DOMAIN requests = 1..Len(requests)
    BY RequestAt DEF ScardState
<1> QED
    BY <1>1, ScardStep DEF MayAnswer, Epochs, ScardTypes

LEMMA NumbersMean == ScardState => HandleMeansIt
<1> SUFFICES ASSUME ScardState, ~raced, NEW t \in told PROVE PcscHandle(t.server) = t.handle
    BY DEF HandleMeansIt
<1>1. ScardTypes /\ OnceEach(handleList) /\ Listed(handleList, t.server, t.handle)
    BY DEF ScardState, Consistent
<1>2. t.server \in Nat
    BY <1>1 DEF ScardTypes, Entries
<1> QED
    BY <1>1, <1>2, PcscHandleMeans

LEMMA ScardTyped == ScardState => ScardTypeOK
<1> SUFFICES ASSUME ScardState PROVE ScardTypeOK
    OBVIOUS
<1> DEFINE N == Len(requests)
<1>1. ScardTypes /\ N \in Nat /\ DOMAIN requests = 1..N /\ \A i \in 1..N : requests[i] \in ScardRequests
    BY RequestAt DEF ScardState
<1>2. scardQueue \in Seq(1..N) /\ threadList \in Seq(0..N) /\ handler \in [at : {"wait", "saw", "has", "crashed"}, id : 0..N]
      /\ N <= MaxRequests /\ MaxRequests \in Nat
    BY <1>1, ScardAssumption DEF ScardTypes
<1> HIDE DEF N
<1>3. scardQueue \in Seq(1..MaxRequests) /\ threadList \in Seq(0..MaxRequests)
    BY <1>1, <1>2, SeqMore
<1>4. 0..MaxRequests = {0} \cup Ids /\ Ids = 1..MaxRequests
    BY <1>2 DEF Ids
<1>5. scardQueue \in Seq(Ids) /\ threadList \in Seq({0} \cup Ids)
    BY <1>3, <1>4
<1>6. handler.at \in {"wait", "saw", "has", "crashed"} /\ handler.id \in {0} \cup Ids
    BY <1>1, <1>2, <1>4
<1>7. \A id \in DOMAIN requests : requests[id].kind \in Kinds /\ requests[id].stage \in Stages
    BY <1>1 DEF ScardRequests
<1>8. g_epoch \in Nat
    BY <1>1, ScardAssumption DEF ScardTypes
<1> QED
    BY <1>1, <1>5, <1>6, <1>7, <1>8 DEF ScardTypes, ScardTypeOK

-----------------------------------------------------------------------------
(* What they establish *)

\* Requests, the queue, the threads and the list of handles of scard.c keep
\* their types.
THEOREM ScardTypesHold == ScardSpec => []ScardTypeOK
<1>1. ScardState /\ [ScardNext]_scardVars => ScardState'
    BY ScardStep
<1> QED
    BY ScardStart, <1>1, ScardTyped, PTL DEF ScardSpec

\* A number scard.c told the server of means the context or card it was told
\* for, as long as no two threads used the list or the queue at once.
THEOREM HandlesMeanIt == ScardSpec => []HandleMeansIt
<1>1. ScardState /\ [ScardNext]_scardVars => ScardState'
    BY ScardStep
<1> QED
    BY ScardStart, <1>1, NumbersMean, PTL DEF ScardSpec

\* Once a connection has made a request, SC_deviceControl answers none of an
\* earlier connection on it.
THEOREM NoAnswerTooLate == ScardSpec => NoLateAnswer
<1>1. ScardState /\ [ScardNext]_scardVars => ScardState'
    BY ScardStep
<1>2. ScardState /\ [ScardNext]_scardVars
          => [\A id \in DOMAIN requests :
                 (requests'[id].answered # requests[id].answered
                  /\ \E other \in DOMAIN requests : requests[other].connection = connection)
                     => requests[id].connection = connection]_scardVars
    BY AnswersInTime
<1> QED
    BY ScardStart, <1>1, <1>2, PTL DEF ScardSpec, NoLateAnswer

-----------------------------------------------------------------------------
(* UnixDisk *)

\* What is true of a descriptor in use: its name is still that of its file, or
\* it is among those whose name moved; its stream reads what it was opened for;
\* and its slot is marked only if the server asked.
SlotKnows(fd) ==
    /\ fd \in moved \/ drive[PathOf(fd)] = opened[fd]
    /\ g_fileinfo[fd].pdir \in {opened[fd], Nothing}
    /\ g_fileinfo[fd].delete_on_close => fd \in wanted

SlotsKnow == \A fd \in Open : SlotKnows(fd)

\* A request that waits is for a descriptor in use, and the only one for it.
WatchesKnow ==
    /\ \A i \in 1..Len(watches) :
           opened[watches[i].fd] # Nothing /\ opened[watches[i].fd] = watches[i].object
    /\ \A i, j \in 1..Len(watches) : watches[i].fd = watches[j].fd => i = j

DriveKnown == UnixDiskTypeOK /\ SlotsKnow /\ WatchesKnow

Watch == [fd : Fds, object : Directories]

LEMMA WatchesAre ==
    ASSUME UnixDiskTypeOK
    PROVE  /\ watches \in Seq(Watch) /\ Len(watches) \in Nat
           /\ DOMAIN watches = 1..Len(watches)
           /\ \A i \in 1..Len(watches) : watches[i] \in Watch
<1>1. watches \in Seq(Watch)
    BY DEF UnixDiskTypeOK, Watch
<1> QED
    BY <1>1, LenProperties, ElementOfSeq

LEMMA DriveInit == UnixDiskInit => DriveKnown /\ ActsOnItsFile
<1> SUFFICES ASSUME UnixDiskInit PROVE DriveKnown /\ ActsOnItsFile
    OBVIOUS
<1>1. g_fileinfo \in [Fds -> FileInfo]
    BY ObjectAssumption DEF UnixDiskInit, FileInfo
<1>2. watches \in Seq([fd : Fds, object : Directories]) /\ Len(watches) = 0
    BY DEF UnixDiskInit
<1>3. UnixDiskTypeOK
  <2>1. filled \subseteq Directories /\ moved \subseteq Fds /\ wanted \subseteq Fds
    BY DEF UnixDiskInit
  <2>2. /\ drive \in [Paths -> Objects \cup {Nothing}]
        /\ opened \in [Fds -> Objects \cup {Nothing}]
        /\ g_notify_stamp \in BOOLEAN /\ running \in BOOLEAN
    BY DEF UnixDiskInit
  <2>3. Len(watches) <= MaxWatches
    BY <1>2, MaxWatchesAssumption
  <2> QED
    BY <1>1, <1>2, <2>1, <2>2, <2>3 DEF UnixDiskTypeOK
<1>4. SlotsKnow
    BY DEF UnixDiskInit, SlotsKnow, Open
<1>5. WatchesKnow
    BY <1>2 DEF WatchesKnow
<1>6. ActsOnItsFile
    BY DEF UnixDiskInit, ActsOnItsFile, NoAct, Acted
<1> QED
    BY <1>3, <1>4, <1>5, <1>6 DEF DriveKnown

\* What a call by the descriptor, the stream or the name acts on.
LEMMA HandleIsIt ==
    ASSUME DriveKnown, NEW fd \in Open
    PROVE  /\ ByHandle(fd) = {opened[fd]}
           /\ ByStream(fd) \subseteq {opened[fd]}
           /\ fd \in moved \/ ByPath(fd) \subseteq {opened[fd]}
    BY DEF DriveKnown, SlotsKnow, SlotKnows, ByHandle, ByStream, ByPath

LEMMA ActsIs ==
    ASSUME NEW fd, NEW acted, NEW named, Acts(fd, acted, named),
           acted \subseteq {opened[fd]}, fd \in moved \/ named \subseteq {opened[fd]}
    PROVE  ActsOnItsFile'
    BY DEF Acts, Acted, ActsOnItsFile

\* New names for the drive: a descriptor keeps its file or has moved.
LEMMA RenamedKnows ==
    ASSUME DriveKnown, NEW names \in [Paths -> Objects \cup {Nothing}], Renamed(names),
           UNCHANGED <<opened, g_fileinfo, watches, wanted>>
    PROVE  SlotsKnow' /\ WatchesKnow' /\ drive' \in [Paths -> Objects \cup {Nothing}]
           /\ moved' \subseteq Fds
<1> USE DEF DriveKnown
<1>1. ASSUME NEW fd \in Open
      PROVE  SlotKnows(fd)'
  <2>1. names[PathOf(fd)] = drive[PathOf(fd)] \/ fd \in moved'
    BY DEF Renamed
  <2> QED
    BY <2>1 DEF SlotsKnow, SlotKnows, Renamed, PathOf
<1>2. Open' = Open
    BY DEF Open
<1>3. SlotsKnow'
    BY <1>1, <1>2 DEF SlotsKnow
<1>4. WatchesKnow'
    BY DEF WatchesKnow
<1> QED
    BY <1>3, <1>4 DEF Renamed, UnixDiskTypeOK, Open

LEMMA KeptKnows ==
    ASSUME DriveKnown, UNCHANGED <<drive, moved, opened, g_fileinfo, watches, wanted>>
    PROVE  SlotsKnow' /\ WatchesKnow'
    BY DEF DriveKnown, SlotsKnow, SlotKnows, WatchesKnow, Open, PathOf

\* Without the first request of a descriptor, no other request is for it.
LEMMA AbortIsThis ==
    ASSUME DriveKnown, NEW fd
    PROVE  /\ Abort(fd) \in Seq(Watch) /\ Len(Abort(fd)) <= Len(watches)
           /\ \A i \in 1..Len(Abort(fd)) : \E k \in 1..Len(watches) :
                  Abort(fd)[i] = watches[k] /\ watches[k].fd # fd
           /\ \A i, j \in 1..Len(Abort(fd)) : Abort(fd)[i].fd = Abort(fd)[j].fd => i = j
<1> DEFINE mine == {i \in DOMAIN watches : watches[i].fd = fd}
           first == CHOOSE i \in mine : \A j \in mine : i <= j
<1>1. watches \in Seq(Watch) /\ Len(watches) \in Nat /\ DOMAIN watches = 1..Len(watches)
    BY WatchesAre DEF DriveKnown
<1>2. \A i, j \in 1..Len(watches) : watches[i].fd = watches[j].fd => i = j
    BY DEF DriveKnown, WatchesKnow
<1>3. CASE mine = {}
  <2>1. Abort(fd) = watches
    BY <1>3 DEF Abort
  <2>2. \A i \in 1..Len(watches) : watches[i].fd # fd
    BY <1>1, <1>3
  <2> QED
    BY <1>1, <1>2, <2>1, <2>2
<1>4. CASE mine # {}
  <2>1. mine \in SUBSET Nat
    BY <1>1
  <2>2. \E i \in mine : \A j \in mine : i <= j
    BY <1>4, <2>1, Smallest
  <2>3. first \in mine
    BY <2>2
  <2>4. Abort(fd) = CutOut(watches, first)
    BY <1>4 DEF Abort, CutOut
  <2>5. first \in 1..Len(watches) /\ watches[first].fd = fd
    BY <1>1, <2>3
  <2> HIDE DEF first, mine
  <2>6. PICK n \in 1..Len(watches) : n = first
    BY <2>5
  <2> DEFINE rest == CutOut(watches, n)
             N == Len(watches)
  <2>7. /\ rest \in Seq(Watch) /\ Len(rest) = N - 1
        /\ \A i \in 1..(N - 1) : rest[i] = IF i < n THEN watches[i] ELSE watches[i + 1]
    BY <1>1, CutOutIs
  <2>8. Abort(fd) = rest /\ watches[n].fd = fd /\ N \in Nat
    BY <1>1, <2>4, <2>5, <2>6
  <2> HIDE DEF rest
  <2>9. \A i \in 1..Len(rest) : \E k \in 1..N :
            k # n /\ rest[i] = watches[k] /\ k = IF i < n THEN i ELSE i + 1
    BY <2>7, <2>8
  <2>10. \A k \in 1..N : k # n => watches[k].fd # fd
    BY <1>2, <2>8
  <2>11. ASSUME NEW i \in 1..Len(rest), NEW j \in 1..Len(rest), rest[i].fd = rest[j].fd
         PROVE  i = j
    <3>1. PICK k \in 1..N : rest[i] = watches[k] /\ k = IF i < n THEN i ELSE i + 1
      BY <2>9
    <3>2. PICK l \in 1..N : rest[j] = watches[l] /\ l = IF j < n THEN j ELSE j + 1
      BY <2>9
    <3>3. k = l
      BY <1>2, <2>11, <3>1, <3>2
    <3> QED
      BY <2>7, <2>8, <3>1, <3>2, <3>3
  <2> QED
    BY <2>7, <2>8, <2>9, <2>10, <2>11
<1> QED
    BY <1>3, <1>4

LEMMA CreateKnows ==
    ASSUME DriveKnown, NEW opening \in Openings, NEW disposition \in Dispositions,
           disk_create(opening, disposition)
    PROVE  DriveKnown' /\ ActsOnItsFile'
<1> DEFINE Names == [Paths -> Objects \cup {Nothing}]
<1>0. UnixDiskTypeOK /\ SlotsKnow /\ WatchesKnow
    BY DEF DriveKnown
<1>1. /\ opening.path \in Paths /\ opening.access \subseteq Access
      /\ opening = [path |-> opening.path, kind |-> opening.kind, access |-> opening.access]
    BY OpeningAssumption
<1>2. Unlinked(opening.path, disposition) \subseteq Names
  <2>1. drive \in Names /\ [drive EXCEPT ![opening.path] = Nothing] \in Names
    BY <1>0 DEF UnixDiskTypeOK
  <2> QED
    BY <2>1 DEF Unlinked
<1>3. last' = NoAct /\ UNCHANGED <<filled, watches, wanted>> /\ running' \in BOOLEAN
  <2>1. last' = NoAct /\ UNCHANGED <<filled, watches, wanted>>
    BY DEF disk_create
  <2>2. UNCHANGED running \/ running' \in {TRUE, Open # Fds}
    BY DEF disk_create
  <2>3. running' \in BOOLEAN
    <3>1. CASE UNCHANGED running
      BY <1>0, <3>1 DEF UnixDiskTypeOK
    <3>2. CASE running' = TRUE
      BY <3>2
    <3>3. CASE running' = (Open # Fds)
      BY <3>3, SMT
    <3> QED
      BY <2>2, <3>1, <3>2, <3>3
  <2> QED
    BY <2>1, <2>3
<1>4. ActsOnItsFile'
    BY <1>3 DEF ActsOnItsFile, NoAct, Acted
<1>5. ASSUME NEW names \in Names, Renamed(names),
             UNCHANGED <<opened, g_fileinfo, g_notify_stamp>>
      PROVE  DriveKnown'
  <2>1. SlotsKnow' /\ WatchesKnow' /\ drive' \in Names /\ moved' \subseteq Fds
    BY <1>3, <1>5, RenamedKnows
  <2> QED
    BY <1>0, <1>3, <1>5, <2>1 DEF DriveKnown, UnixDiskTypeOK
<1>6. ASSUME NEW names \in Names, NEW fd \in Fds \ Open, NEW object \in Objects,
             Renamed([names EXCEPT ![opening.path] = object]),
             opened' = [opened EXCEPT ![fd] = object],
             g_fileinfo' = [g_fileinfo EXCEPT ![fd] = Slot(fd, opening, object)],
             Stamp("write" \in opening.access)
      PROVE  DriveKnown'
  <2> DEFINE new == [names EXCEPT ![opening.path] = object]
  <2>1. new \in Names /\ new[opening.path] = object
    BY <1>1
  <2>2. Slot(fd, opening, object) \in FileInfo
    BY <1>1, ObjectAssumption DEF Slot, FileInfo
  <2>3. drive' = new /\ moved' = moved \cup {f \in Open : new[PathOf(f)] # drive[PathOf(f)]}
    BY <1>6 DEF Renamed
  <2> HIDE DEF new
  <2>4. UnixDiskTypeOK'
    <3>1. opened' \in [Fds -> Objects \cup {Nothing}] /\ g_fileinfo' \in [Fds -> FileInfo]
      BY <1>0, <1>6, <2>2 DEF UnixDiskTypeOK
    <3>2. moved' \subseteq Fds /\ drive' \in Names
      BY <1>0, <2>1, <2>3 DEF UnixDiskTypeOK, Open
    <3>3. g_notify_stamp' \in BOOLEAN
      BY <1>0, <1>6 DEF UnixDiskTypeOK, Stamp
    <3> QED
      BY <1>0, <1>3, <3>1, <3>2, <3>3 DEF UnixDiskTypeOK
  <2>5. ASSUME NEW f \in Open'
        PROVE  SlotKnows(f)'
    <3>1. CASE f = fd
      <4>1. g_fileinfo'[f] = Slot(fd, opening, object) /\ opened'[f] = object
        BY <1>0, <1>6, <3>1 DEF UnixDiskTypeOK
      <4>2. PathOf(f)' = opening.path
        BY <4>1 DEF PathOf, Slot
      <4>3. ~g_fileinfo'[f].delete_on_close /\ g_fileinfo'[f].pdir \in {object, Nothing}
        BY <4>1 DEF Slot
      <4> QED
        BY <2>1, <2>3, <4>1, <4>2, <4>3 DEF SlotKnows
    <3>2. CASE f # fd
      <4>1. f \in Open /\ g_fileinfo'[f] = g_fileinfo[f] /\ opened'[f] = opened[f]
        BY <1>0, <1>6, <3>2 DEF UnixDiskTypeOK, Open
      <4>2. PathOf(f)' = PathOf(f)
        BY <4>1 DEF PathOf
      <4>3. f \in moved' \/ drive'[PathOf(f)] = drive[PathOf(f)]
        BY <2>3, <4>1
      <4>4. SlotKnows(f) /\ moved \subseteq moved'
        BY <1>0, <2>3, <4>1 DEF SlotsKnow
      <4> QED
        BY <1>3, <4>1, <4>2, <4>3, <4>4 DEF SlotKnows
    <3> QED
      BY <3>1, <3>2
  <2>6. WatchesKnow'
    <3>1. \A i \in 1..Len(watches) : watches[i].fd \in Fds
      BY <1>0, WatchesAre DEF Watch
    <3>2. \A i \in 1..Len(watches) : opened'[watches[i].fd] = opened[watches[i].fd]
      BY <1>0, <1>6, <3>1 DEF WatchesKnow, Open, UnixDiskTypeOK
    <3> QED
      BY <1>0, <1>3, <3>2 DEF WatchesKnow
  <2> QED
    BY <2>4, <2>5, <2>6 DEF DriveKnown, SlotsKnow
<1>7. PICK names \in Unlinked(opening.path, disposition) :
        \/ \E fd \in Fds \ Open, object \in OpenedAs(names, opening, disposition) :
               /\ Renamed([names EXCEPT ![opening.path] = object])
               /\ opened' = [opened EXCEPT ![fd] = object]
               /\ g_fileinfo' = [g_fileinfo EXCEPT ![fd] = Slot(fd, opening, object)]
               /\ Stamp("write" \in opening.access)
        \/ /\ \E object \in Left(names, opening, disposition) :
                 Renamed([names EXCEPT ![opening.path] = object])
           /\ UNCHANGED <<opened, g_fileinfo, g_notify_stamp>>
    BY DEF disk_create
<1>8. names \in Names
    BY <1>2, <1>7
<1>9. OpenedAs(names, opening, disposition) \subseteq Objects
    BY <1>1, <1>8 DEF OpenedAs, Objects
<1>10. CASE \E fd \in Fds \ Open, object \in OpenedAs(names, opening, disposition) :
               /\ Renamed([names EXCEPT ![opening.path] = object])
               /\ opened' = [opened EXCEPT ![fd] = object]
               /\ g_fileinfo' = [g_fileinfo EXCEPT ![fd] = Slot(fd, opening, object)]
               /\ Stamp("write" \in opening.access)
    BY <1>4, <1>6, <1>8, <1>9, <1>10
<1>11. CASE /\ \E object \in Left(names, opening, disposition) :
                  Renamed([names EXCEPT ![opening.path] = object])
            /\ UNCHANGED <<opened, g_fileinfo, g_notify_stamp>>
  <2>1. PICK object \in Left(names, opening, disposition) :
          Renamed([names EXCEPT ![opening.path] = object])
    BY <1>11
  <2>2. object \in Objects \cup {Nothing}
    BY <1>1, <1>8, <1>9 DEF Left
  <2>3. [names EXCEPT ![opening.path] = object] \in Names
    BY <1>8, <2>2
  <2>4. PICK left \in Names : left = [names EXCEPT ![opening.path] = object]
    BY <2>3
  <2>5. Renamed(left)
    BY <2>1, <2>4
  <2> QED
    BY <1>4, <1>5, <1>11, <2>5
<1> QED
    BY <1>7, <1>10, <1>11

\* Closing: the file goes only for a slot that is marked, and other descriptors
\* of that name are told.
LEMMA CloseKnows ==
    ASSUME DriveKnown, NEW fd \in Open, disk_close(fd)
    PROVE  DriveKnown' /\ ActsOnItsFile'
<1>0. UnixDiskTypeOK /\ SlotsKnow /\ WatchesKnow /\ fd \in Fds /\ SlotKnows(fd)
    BY DEF DriveKnown, SlotsKnow, Open
<1>1. /\ Stamp("write" \in g_fileinfo[fd].access)
      /\ watches' = Abort(fd)
      /\ opened' = [opened EXCEPT ![fd] = Nothing]
      /\ wanted' = wanted \ {fd}
      /\ UNCHANGED <<filled, running>>
    BY DEF disk_close
<1>2. \/ /\ g_fileinfo[fd].delete_on_close
         /\ drive' = [drive EXCEPT ![PathOf(fd)] = Nothing]
         /\ moved' = (moved \cup {other \in Open : PathOf(other) = PathOf(fd)}) \ {fd}
         /\ g_fileinfo' = [g_fileinfo EXCEPT ![fd].delete_on_close = FALSE]
         /\ last' = Acted(opened[fd], ByStream(fd), ByPath(fd), fd \in moved,
                            TRUE, fd \in wanted)
      \/ /\ Acts(fd, ByStream(fd), {})
         /\ moved' = moved \ {fd}
         /\ UNCHANGED <<drive, g_fileinfo>>
    BY DEF disk_close
<1>3. /\ ByStream(fd) \subseteq {opened[fd]}
      /\ fd \in moved \/ ByPath(fd) \subseteq {opened[fd]}
    BY HandleIsIt
<1>4. ActsOnItsFile'
  <2>1. CASE g_fileinfo[fd].delete_on_close /\ last' = Acted(opened[fd], ByStream(fd), ByPath(fd),
                                                         fd \in moved, TRUE, fd \in wanted)
    BY <1>0, <1>3, <2>1 DEF ActsOnItsFile, Acted, SlotKnows
  <2>2. CASE Acts(fd, ByStream(fd), {})
    BY <1>3, <2>2, ActsIs
  <2> QED
    BY <1>2, <2>1, <2>2
<1>5. /\ Abort(fd) \in Seq(Watch) /\ Len(Abort(fd)) <= Len(watches)
      /\ \A i \in 1..Len(Abort(fd)) : \E k \in 1..Len(watches) :
             Abort(fd)[i] = watches[k] /\ watches[k].fd # fd
      /\ \A i, j \in 1..Len(Abort(fd)) : Abort(fd)[i].fd = Abort(fd)[j].fd => i = j
    BY AbortIsThis
<1>6. \A f \in Fds : f # fd =>
        /\ opened'[f] = opened[f] /\ g_fileinfo'[f] = g_fileinfo[f]
        /\ f \in wanted' <=> f \in wanted
    BY <1>0, <1>1, <1>2 DEF UnixDiskTypeOK
<1>7. opened'[fd] = Nothing
    BY <1>0, <1>1 DEF UnixDiskTypeOK
<1>8. UnixDiskTypeOK'
  <2>1. opened' \in [Fds -> Objects \cup {Nothing}]
    BY <1>0, <1>1 DEF UnixDiskTypeOK
  <2>2. g_fileinfo' \in [Fds -> FileInfo]
    <3>1. [g_fileinfo[fd] EXCEPT !.delete_on_close = FALSE] \in FileInfo
      BY <1>0 DEF UnixDiskTypeOK, FileInfo
    <3> QED
      BY <1>0, <1>2, <3>1 DEF UnixDiskTypeOK
  <2>3. drive' \in [Paths -> Objects \cup {Nothing}]
    BY <1>0, <1>2 DEF UnixDiskTypeOK
  <2>4. moved' \subseteq Fds /\ wanted' \subseteq Fds
    BY <1>0, <1>1, <1>2 DEF UnixDiskTypeOK, Open
  <2>5. watches' \in Seq([fd : Fds, object : Directories])
    BY <1>1, <1>5 DEF Watch
  <2>6. Len(watches') <= MaxWatches
    <3>1. Len(Abort(fd)) \in Nat /\ Len(watches) \in Nat /\ Len(watches) <= MaxWatches
      BY <1>0, <1>5, LenProperties, WatchesAre DEF UnixDiskTypeOK
    <3> QED
      BY <1>1, <1>5, <3>1, MaxWatchesAssumption
  <2>7. g_notify_stamp' \in BOOLEAN /\ filled' \subseteq Directories /\ running' \in BOOLEAN
    BY <1>0, <1>1 DEF UnixDiskTypeOK, Stamp
  <2> QED
    BY <2>1, <2>2, <2>3, <2>4, <2>5, <2>6, <2>7 DEF UnixDiskTypeOK
<1>9. ASSUME NEW f \in Open'
      PROVE  SlotKnows(f)'
  <2>1. f \in Fds /\ f # fd /\ f \in Open
    BY <1>6, <1>7, <1>9 DEF Open
  <2>2. SlotKnows(f)
    BY <1>0, <2>1 DEF SlotsKnow
  <2>3. PathOf(f)' = PathOf(f) /\ PathOf(f) \in Paths /\ PathOf(fd) \in Paths
    BY <1>0, <1>6, <2>1 DEF PathOf, UnixDiskTypeOK, FileInfo
  <2>4. f \in moved' \/ (f \notin moved /\ drive'[PathOf(f)] = drive[PathOf(f)])
    BY <1>0, <1>2, <2>1, <2>3 DEF UnixDiskTypeOK
  <2> QED
    BY <1>6, <2>1, <2>2, <2>3, <2>4 DEF SlotKnows
<1>10. WatchesKnow'
  <2>1. \A i \in 1..Len(watches) : watches[i].fd \in Fds
    BY <1>0, WatchesAre DEF Watch
  <2>2. \A k \in 1..Len(watches) : watches[k].fd # fd =>
            opened'[watches[k].fd] = opened[watches[k].fd]
    BY <1>6, <2>1
  <2>3. \A k \in 1..Len(watches) :
          opened[watches[k].fd] # Nothing /\ opened[watches[k].fd] = watches[k].object
    BY <1>0 DEF WatchesKnow
  <2>4. \A i \in 1..Len(Abort(fd)) : /\ opened'[Abort(fd)[i].fd] # Nothing
                                    /\ opened'[Abort(fd)[i].fd] = Abort(fd)[i].object
    <3>1. \A i \in 1..Len(Abort(fd)) : \E k \in 1..Len(watches) :
            Abort(fd)[i] = watches[k] /\ watches[k].fd # fd
      BY <1>5
    <3> QED
      BY <2>2, <2>3, <3>1
  <2> QED
    BY <1>1, <1>5, <2>4 DEF WatchesKnow
<1> QED
    BY <1>4, <1>8, <1>9, <1>10 DEF DriveKnown, SlotsKnow

\* The requests that leave the slots and the names alone.
LEMMA CallsKnow ==
    ASSUME DriveKnown, NEW fd \in Open,
           \/ Transfer(fd) \/ SetBasic(fd) \/ SetEnd(fd) \/ QueryVolume(fd)
           \/ disk_query_directory(fd)
    PROVE  DriveKnown' /\ ActsOnItsFile'
<1>0. UnixDiskTypeOK /\ SlotsKnow /\ WatchesKnow
    BY DEF DriveKnown
<1>1. /\ UNCHANGED <<drive, filled, opened, moved, g_fileinfo, watches, running, wanted>>
      /\ g_notify_stamp' = g_notify_stamp \/ Stamp(TRUE)
    BY DEF Transfer, SetBasic, SetEnd, QueryVolume, disk_query_directory, Kept
<1>2. g_notify_stamp' \in BOOLEAN
    BY <1>0, <1>1 DEF UnixDiskTypeOK, Stamp
<1>3. DriveKnown'
  <2>1. UnixDiskTypeOK'
    BY <1>0, <1>1, <1>2 DEF UnixDiskTypeOK
  <2> QED
    BY <1>1, <2>1, KeptKnows DEF DriveKnown
<1>4. /\ ByHandle(fd) = {opened[fd]}
      /\ ByStream(fd) \subseteq {opened[fd]}
      /\ fd \in moved \/ ByPath(fd) \subseteq {opened[fd]}
    BY HandleIsIt
<1>5. \E acted \in SUBSET {opened[fd]}, named \in {{}, ByPath(fd)} : Acts(fd, acted, named)
  <2>1. CASE Transfer(fd)
    BY <1>4, <2>1 DEF Transfer
  <2>2. CASE SetBasic(fd)
    BY <1>4, <2>2 DEF SetBasic
  <2>3. CASE SetEnd(fd)
    BY <1>4, <2>3 DEF SetEnd, ftruncate_growable
  <2>4. CASE QueryVolume(fd)
    BY <1>4, <2>4 DEF QueryVolume
  <2>5. CASE disk_query_directory(fd)
    BY <1>4, <2>5 DEF disk_query_directory
  <2> QED
    BY <2>1, <2>2, <2>3, <2>4, <2>5
<1>6. ActsOnItsFile'
    BY <1>4, <1>5, ActsIs
<1> QED
    BY <1>3, <1>6

LEMMA RenameKnows ==
    ASSUME DriveKnown, NEW fd \in Open, NEW new \in Paths, Rename(fd, new)
    PROVE  DriveKnown' /\ ActsOnItsFile'
<1> DEFINE Names == [Paths -> Objects \cup {Nothing}]
           names == [drive EXCEPT ![new] = drive[PathOf(fd)], ![PathOf(fd)] = Nothing]
<1>0. UnixDiskTypeOK /\ SlotsKnow /\ WatchesKnow
    BY DEF DriveKnown
<1>1. /\ Acts(fd, {}, ByPath(fd)) /\ Stamp(TRUE)
      /\ Renamed(names) \/ UNCHANGED <<drive, moved>>
      /\ UNCHANGED <<filled, opened, g_fileinfo, watches, running, wanted>>
    BY DEF Rename
<1>2. ActsOnItsFile'
    BY <1>1, HandleIsIt, ActsIs
<1>3. PathOf(fd) \in Paths
    BY <1>0 DEF Open, UnixDiskTypeOK, FileInfo, PathOf
<1>4. names \in Names
    BY <1>0, <1>3 DEF UnixDiskTypeOK
<1> HIDE DEF names
<1>5. PICK target \in Names : target = names
    BY <1>4
<1>6. SlotsKnow' /\ WatchesKnow' /\ drive' \in Names /\ moved' \subseteq Fds
  <2>1. CASE Renamed(target)
    BY <1>1, <2>1, RenamedKnows
  <2>2. CASE UNCHANGED <<drive, moved>>
    BY <1>0, <1>1, <2>2, KeptKnows DEF UnixDiskTypeOK
  <2> QED
    BY <1>1, <1>5, <2>1, <2>2
<1>7. UnixDiskTypeOK'
    BY <1>0, <1>1, <1>6 DEF UnixDiskTypeOK, Stamp
<1> QED
    BY <1>2, <1>6, <1>7 DEF DriveKnown

\* A mark is what the server asked for.
LEMMA DisposeKnows ==
    ASSUME DriveKnown, NEW fd \in Open, Dispose(fd)
    PROVE  DriveKnown' /\ ActsOnItsFile'
<1> DEFINE mark == [g_fileinfo EXCEPT ![fd].delete_on_close = TRUE]
<1>0. UnixDiskTypeOK /\ SlotsKnow /\ WatchesKnow /\ fd \in Fds
    BY DEF DriveKnown, Open
<1>1. /\ Stamp(TRUE) /\ UNCHANGED <<drive, filled, opened, moved, watches>>
      /\ running' \in BOOLEAN
      /\ Acts(fd, {}, {}) \/ Acts(fd, {}, ByPath(fd))
      /\ \/ g_fileinfo' = mark /\ wanted' = wanted \cup {fd}
         \/ UNCHANGED <<g_fileinfo, wanted>>
  <2>1. Stamp(TRUE) /\ UNCHANGED <<drive, filled, opened, moved, watches>>
    BY DEF Dispose, Kept
  <2>2. \/ Acts(fd, {}, {}) /\ UNCHANGED running
        \/ Acts(fd, {}, ByPath(fd)) /\ running' = (drive[PathOf(fd)] \in Directories)
    BY DEF Dispose
  <2>3. running' \in BOOLEAN
    <3>1. CASE UNCHANGED running
      BY <1>0, <3>1 DEF UnixDiskTypeOK
    <3>2. CASE running' = (drive[PathOf(fd)] \in Directories)
      BY <3>2, SMT DEF PathOf
    <3> QED
      BY <2>2, <3>1, <3>2
  <2>4. \/ g_fileinfo' = mark /\ wanted' = wanted \cup {fd}
        \/ UNCHANGED <<g_fileinfo, wanted>>
    BY DEF Dispose
  <2> QED
    BY <2>1, <2>2, <2>3, <2>4
<1>2. ActsOnItsFile'
    BY <1>1, HandleIsIt, ActsIs
<1>3. CASE UNCHANGED <<g_fileinfo, wanted>>
  <2>1. UnixDiskTypeOK'
    BY <1>0, <1>1, <1>3 DEF UnixDiskTypeOK, Stamp
  <2> QED
    BY <1>1, <1>2, <1>3, <2>1, KeptKnows DEF DriveKnown
<1>4. CASE g_fileinfo' = mark /\ wanted' = wanted \cup {fd}
  <2>1. [g_fileinfo[fd] EXCEPT !.delete_on_close = TRUE] \in FileInfo
    BY <1>0 DEF UnixDiskTypeOK, FileInfo
  <2>2. g_fileinfo' \in [Fds -> FileInfo] /\ wanted' \subseteq Fds
    BY <1>0, <1>4, <2>1 DEF UnixDiskTypeOK
  <2>3. UnixDiskTypeOK'
    BY <1>0, <1>1, <2>2 DEF UnixDiskTypeOK, Stamp
  <2>4. \A f \in Fds : /\ g_fileinfo'[f].path = g_fileinfo[f].path
                       /\ g_fileinfo'[f].pdir = g_fileinfo[f].pdir
                       /\ f # fd => g_fileinfo'[f] = g_fileinfo[f]
                       /\ f \in wanted' <=> f \in wanted \/ f = fd
    BY <1>0, <1>4 DEF UnixDiskTypeOK, FileInfo
  <2>5. Open' = Open /\ \A f \in Open : f \in Fds /\ SlotKnows(f)
    BY <1>0, <1>1 DEF Open, SlotsKnow
  <2>6. ASSUME NEW f \in Open
        PROVE  SlotKnows(f)'
    BY <1>1, <2>4, <2>5 DEF SlotKnows, PathOf
  <2>7. WatchesKnow'
    BY <1>0, <1>1 DEF WatchesKnow
  <2> QED
    BY <1>2, <2>3, <2>5, <2>6, <2>7 DEF DriveKnown, SlotsKnow
<1> QED
    BY <1>1, <1>3, <1>4

LEMMA NotifyInfoIs ==
    ASSUME DriveKnown, NEW fd \in Open
    PROVE  /\ NotifyInfo(fd).acted \subseteq {opened[fd]}
           /\ fd \in moved \/ NotifyInfo(fd).named \subseteq {opened[fd]}
    BY HandleIsIt DEF NotifyInfo, Open

LEMMA NotifyKnows ==
    ASSUME DriveKnown, OneWatch, NEW fd \in Open, disk_create_notify(fd)
    PROVE  DriveKnown' /\ ActsOnItsFile'
<1> DEFINE watch == [fd |-> fd, object |-> opened[fd]]
<1>0. UnixDiskTypeOK /\ SlotsKnow /\ WatchesKnow /\ fd \in Fds /\ opened[fd] # Nothing
    BY DEF DriveKnown, Open
<1>1. /\ opened[fd] \in Directories
      /\ \A i \in DOMAIN watches : watches[i].fd # fd
      /\ Acts(fd, NotifyInfo(fd).acted, NotifyInfo(fd).named)
      /\ \/ Len(watches) < MaxWatches /\ watches' = Append(watches, watch)
         \/ UNCHANGED watches
      /\ UNCHANGED <<drive, filled, opened, moved, g_fileinfo, g_notify_stamp, running, wanted>>
    BY DEF disk_create_notify, Kept
<1>2. ActsOnItsFile'
    BY <1>1, NotifyInfoIs, ActsIs
<1>3. SlotsKnow'
    BY <1>0, <1>1 DEF SlotsKnow, SlotKnows, Open, PathOf
<1>4. CASE UNCHANGED watches
  <2>1. UnixDiskTypeOK'
    BY <1>0, <1>1, <1>4 DEF UnixDiskTypeOK
  <2> QED
    BY <1>1, <1>2, <1>4, <2>1, KeptKnows DEF DriveKnown
<1>5. CASE Len(watches) < MaxWatches /\ watches' = Append(watches, watch)
  <2>1. /\ watches \in Seq(Watch) /\ Len(watches) \in Nat
        /\ DOMAIN watches = 1..Len(watches) /\ watch \in Watch
    BY <1>0, <1>1, WatchesAre DEF Watch
  <2>2. /\ watches' \in Seq(Watch) /\ Len(watches') = Len(watches) + 1
        /\ watches'[Len(watches) + 1] = watch
        /\ \A i \in 1..Len(watches) : watches'[i] = watches[i]
    BY <1>5, <2>1, AppendProperties
  <2>3. UnixDiskTypeOK'
    <3>1. Len(watches') <= MaxWatches
      BY <1>5, <2>1, <2>2, MaxWatchesAssumption
    <3> QED
      BY <1>0, <1>1, <2>2, <3>1 DEF UnixDiskTypeOK, Watch
  <2>4. WatchesKnow'
    <3>1. \A i \in 1..Len(watches') : i \in 1..Len(watches) \/ i = Len(watches) + 1
      BY <2>1, <2>2
    <3>2. watch.fd = fd /\ watch.object = opened[fd]
      OBVIOUS
    <3>3. \A i \in 1..Len(watches) : watches[i].fd # fd
      BY <1>1, <2>1
    <3> HIDE DEF watch
    <3>4. \A i \in 1..Len(watches') :
            opened'[watches'[i].fd] # Nothing /\ opened'[watches'[i].fd] = watches'[i].object
      BY <1>0, <1>1, <2>2, <3>1, <3>2 DEF WatchesKnow
    <3>5. \A i, j \in 1..Len(watches') : watches'[i].fd = watches'[j].fd => i = j
      BY <1>0, <2>2, <3>1, <3>2, <3>3 DEF WatchesKnow
    <3> QED
      BY <3>4, <3>5 DEF WatchesKnow
  <2> QED
    BY <1>2, <1>3, <2>3, <2>4 DEF DriveKnown
<1> QED
    BY <1>1, <1>4, <1>5

LEMMA CheckKnows ==
    ASSUME DriveKnown, disk_check_notify
    PROVE  DriveKnown' /\ ActsOnItsFile'
<1> DEFINE watch == Head(watches)
<1>0. UnixDiskTypeOK /\ SlotsKnow /\ WatchesKnow
    BY DEF DriveKnown
<1>1. /\ watches # <<>> /\ g_notify_stamp' = FALSE
      /\ \E looked \in BOOLEAN :
             last' = Acted(watch.object, IF looked THEN NotifyInfo(watch.fd).acted ELSE {},
                             IF looked THEN NotifyInfo(watch.fd).named ELSE {},
                             watch.fd \in moved, FALSE, FALSE)
      /\ watches' = watches \/ watches' = Tail(watches)
      /\ UNCHANGED <<drive, filled, opened, moved, g_fileinfo, running, wanted>>
    BY DEF disk_check_notify, Kept
<1>2. /\ watches \in Seq(Watch) /\ Len(watches) \in Nat /\ Len(watches) > 0
      /\ watch = watches[1] /\ watches[1] \in Watch
    BY <1>0, <1>1, WatchesAre, EmptySeq, HeadTailProperties
<1>3. watch.fd \in Open /\ opened[watch.fd] = watch.object
    BY <1>0, <1>2 DEF WatchesKnow, Open, Watch
<1>4. ActsOnItsFile'
  <2> HIDE DEF watch
  <2>1. PICK f \in Open : f = watch.fd
    BY <1>3
  <2>2. /\ NotifyInfo(f).acted \subseteq {opened[f]}
        /\ f \in moved \/ NotifyInfo(f).named \subseteq {opened[f]}
    BY NotifyInfoIs
  <2> QED
    BY <1>1, <1>3, <2>1, <2>2 DEF ActsOnItsFile, Acted
<1>5. CASE watches' = watches
  <2>1. UnixDiskTypeOK'
    BY <1>0, <1>1, <1>5 DEF UnixDiskTypeOK
  <2> QED
    BY <1>1, <1>4, <1>5, <2>1, KeptKnows DEF DriveKnown
<1>6. CASE watches' = Tail(watches)
  <2>1. /\ watches' \in Seq(Watch) /\ Len(watches') = Len(watches) - 1
        /\ \A i \in 1..Len(watches') : watches'[i] = watches[i + 1]
    BY <1>1, <1>2, <1>6, HeadTailProperties
  <2>2. UnixDiskTypeOK'
    <3>1. Len(watches') <= MaxWatches
      BY <1>0, <1>2, <2>1, MaxWatchesAssumption DEF UnixDiskTypeOK
    <3> QED
      BY <1>0, <1>1, <2>1, <3>1 DEF UnixDiskTypeOK, Watch
  <2>3. SlotsKnow'
    BY <1>0, <1>1 DEF SlotsKnow, SlotKnows, Open, PathOf
  <2>4. WatchesKnow'
    <3>1. \A i \in 1..Len(watches') : i + 1 \in 1..Len(watches)
      BY <1>2, <2>1
    <3>2. \A i \in 1..Len(watches') :
            opened'[watches'[i].fd] # Nothing /\ opened'[watches'[i].fd] = watches'[i].object
      <4>1. \A k \in 1..Len(watches) :
              opened'[watches[k].fd] # Nothing /\ opened'[watches[k].fd] = watches[k].object
        BY <1>0, <1>1 DEF WatchesKnow
      <4> QED
        BY <2>1, <3>1, <4>1
    <3>3. ASSUME NEW i \in 1..Len(watches'), NEW j \in 1..Len(watches'),
                 watches'[i].fd = watches'[j].fd
          PROVE  i = j
      <4>1. i + 1 = j + 1
        BY <1>0, <2>1, <3>1, <3>3 DEF WatchesKnow
      <4> QED
        BY <1>2, <2>1, <4>1
    <3> QED
      BY <3>2, <3>3 DEF WatchesKnow
  <2> QED
    BY <1>4, <2>2, <2>3, <2>4 DEF DriveKnown
<1> QED
    BY <1>1, <1>5, <1>6

LEMMA ElsewhereKnows ==
    ASSUME DriveKnown, NEW path \in Paths, Elsewhere(path)
    PROVE  DriveKnown' /\ ActsOnItsFile'
<1> DEFINE Names == [Paths -> Objects \cup {Nothing}]
<1>0. UnixDiskTypeOK /\ SlotsKnow /\ WatchesKnow
    BY DEF DriveKnown
<1>1. last' = NoAct
      /\ UNCHANGED <<opened, g_fileinfo, g_notify_stamp, watches, running, wanted>>
    BY DEF Elsewhere
<1>2. ActsOnItsFile'
    BY <1>1 DEF ActsOnItsFile, NoAct, Acted
<1>3. CASE filled' \subseteq Directories /\ UNCHANGED <<drive, moved>>
  <2>1. UnixDiskTypeOK'
    BY <1>0, <1>1, <1>3 DEF UnixDiskTypeOK
  <2> QED
    BY <1>1, <1>2, <1>3, <2>1, KeptKnows DEF DriveKnown
<1>4. ASSUME NEW object \in Objects \cup {Nothing},
             Renamed([drive EXCEPT ![path] = object]), UNCHANGED filled
      PROVE  DriveKnown'
  <2>1. [drive EXCEPT ![path] = object] \in Names
    BY <1>0 DEF UnixDiskTypeOK
  <2>2. PICK names \in Names : names = [drive EXCEPT ![path] = object]
    BY <2>1
  <2>3. Renamed(names)
    BY <1>4, <2>2
  <2>4. SlotsKnow' /\ WatchesKnow' /\ drive' \in Names /\ moved' \subseteq Fds
    BY <1>1, <2>3, RenamedKnows
  <2> QED
    BY <1>0, <1>1, <1>4, <2>4 DEF DriveKnown, UnixDiskTypeOK
<1>5. \/ filled' \subseteq Directories /\ UNCHANGED <<drive, moved>>
      \/ \E object \in Objects \cup {Nothing} :
            Renamed([drive EXCEPT ![path] = object]) /\ UNCHANGED filled
    BY <1>0 DEF Elsewhere, UnixDiskTypeOK
<1> QED
    BY <1>2, <1>3, <1>4, <1>5

\* A call for a handle never acts on the file of another one, however the
\* numbers of the descriptors come back: as long as the server waits with one
\* request for a handle at most, since closing ends only one.
THEOREM OwnFile == ASSUME OneWatch PROVE UnixDiskSpec => []ActsOnItsFile
<1>1. UnixDiskInit => DriveKnown /\ ActsOnItsFile
    BY DriveInit
<1>2. ASSUME DriveKnown, ActsOnItsFile, [UnixDiskNext]_unixDiskVars
      PROVE  DriveKnown' /\ ActsOnItsFile'
  <2>1. CASE UNCHANGED unixDiskVars
    <3>1. UNCHANGED <<drive, filled, opened, g_fileinfo, g_notify_stamp, watches, running,
                      moved, wanted, last>>
      BY <2>1 DEF unixDiskVars
    <3>2. UnixDiskTypeOK' /\ ActsOnItsFile'
      BY <1>2, <3>1 DEF DriveKnown, UnixDiskTypeOK, ActsOnItsFile
    <3> QED
      BY <1>2, <3>1, <3>2, KeptKnows DEF DriveKnown
  <2>2. ASSUME NEW opening \in Openings, NEW disposition \in Dispositions,
               disk_create(opening, disposition)
        PROVE  DriveKnown' /\ ActsOnItsFile'
    BY <1>2, <2>2, CreateKnows
  <2>3. ASSUME NEW fd \in Open, Requests(fd)
        PROVE  DriveKnown' /\ ActsOnItsFile'
    BY <1>2, <2>3, CloseKnows, CallsKnow, RenameKnows, DisposeKnows, NotifyKnows DEF Requests
  <2>4. CASE disk_check_notify
    BY <1>2, <2>4, CheckKnows
  <2>5. ASSUME NEW path \in Paths, Elsewhere(path)
        PROVE  DriveKnown' /\ ActsOnItsFile'
    BY <1>2, <2>5, ElsewhereKnows
  <2> QED
    BY <1>2, <2>1, <2>2, <2>3, <2>4, <2>5 DEF UnixDiskNext
<1> QED
    BY <1>1, <1>2, PTL DEF UnixDiskSpec

-----------------------------------------------------------------------------
(* SerialLine *)

\* Each setting the server asked for and got: in the port, in what the driver
\* will write with the next request, and in what it makes that of.
RateKnown ==
    /\ asked["rate"] \subseteq Rates
    /\ \A v \in asked["rate"] :
           /\ RateFits(port.rate, v)
           /\ build = "unix" => ptermios.rate = Speed(v) /\ pser_inf.rate \in {v, Speed(v)}

LineKnown ==
    /\ asked["line"] \subseteq Lines
    /\ \A v \in asked["line"] :
           /\ LineFits(port.line, v)
           /\ build = "unix" => /\ ptermios.line = LineFlags(v)
                                /\ LineFlags(pser_inf.line) = LineFlags(v)

FlowKnown ==
    /\ asked["flow"] \subseteq Flows
    /\ \A v \in asked["flow"] :
           /\ FlowFits(port.flow, v)
           /\ build = "unix" => FlowFits(ptermios.flow, v) /\ FlowFits(pser_inf.flow, v)

CharsKnown ==
    /\ asked["chars"] \subseteq Characters
    /\ \A v \in asked["chars"] :
           /\ CharsFit(port.chars, v)
           /\ build = "unix" => CharsFit(ptermios.chars, v) /\ pser_inf.chars = v

WaitsKnown ==
    /\ asked["timeouts"] \subseteq Timeouts
    /\ \A v \in asked["timeouts"] : WaitsFit(port.timeouts, v) /\ pser_inf.timeouts = v

SignalsKnown == \A s \in Signals : \A on \in asked[s] : s \in signals <=> on

NothingAsked == ~isOpen => \A k \in Groups \cup Signals : asked[k] = {}

LineTypes ==
    /\ build \in {"unix", "os2"} /\ isOpen \in BOOLEAN /\ signals \subseteq Signals
    /\ port \in Settings /\ ptermios \in Settings /\ pser_inf \in Remembered
    /\ asked = [k \in Groups \cup Signals |-> asked[k]]

SettingsKnown ==
    RateKnown /\ LineKnown /\ FlowKnown /\ CharsKnown /\ WaitsKnown /\ SignalsKnown

PortKnown == LineTypes /\ NothingAsked /\ SettingsKnown

-----------------------------------------------------------------------------
(* The tables *)

LEMMA SpeedIs ==
    ASSUME NEW rate \in Nat
    PROVE  /\ Speed(rate) \in Nat /\ Speed(Speed(rate)) = Speed(rate)
           /\ RateOf(rate) \in Nat /\ RateOf(Speed(rate)) = Speed(rate)
    BY DEF Speed, RateOf, KnownRates

LEMMA LineFlagsIs ==
    ASSUME NEW line \in Line
    PROVE  LineFlags(line) \in Line /\ LineFlags(LineFlags(line)) = LineFlags(line)
    BY DEF LineFlags, Line

LEMMA FlowFlagsIs ==
    ASSUME NEW old \in Flow, NEW flow \in Flow
    PROVE  FlowFlags(old, flow) \in Flow
    BY DEF FlowFlags, Flow

\* The flags fit what was asked as long as what the driver knows does.
LEMMA FlowFlagsFit ==
    ASSUME build = "unix", NEW old \in Flow, NEW flow \in Flow, NEW value \in Flow, FlowFits(flow, value)
    PROVE  FlowFits(FlowFlags(old, flow), value)
    BY DEF FlowFits, FlowFlags, Flow

LEMMA FlowFitsItself ==
    ASSUME NEW value
    PROVE  FlowFits(value, value)
    BY DEF FlowFits

LEMMA ReadWaitIs ==
    ASSUME NEW timeouts \in PortTimeouts
    PROVE  ReadWait(timeouts) \in Waits
<1> DEFINE total == timeouts.multiplier + timeouts.constant
           wait == IF total # 0 THEN (total + 99) \div 100
                   ELSE IF timeouts.interval # 0 THEN (timeouts.interval + 99) \div 100 ELSE 90
<1>1. \A n \in Nat : (n + 99) \div 100 \in Nat /\ n % 256 \in Nat
    OBVIOUS
<1>2. total \in Nat /\ timeouts.interval \in Nat
    BY DEF PortTimeouts
<1>3. wait \in Nat
    BY <1>1, <1>2
<1>4. ReadWait(timeouts) = [read |-> wait % 256, write |-> 0,
                            none |-> IF wait = 0 THEN {"read"} ELSE {}]
    BY DEF ReadWait
<1> HIDE DEF wait
<1> QED
    BY <1>1, <1>3, <1>4 DEF Waits

LEMMA DcbWaitsIs ==
    ASSUME NEW old \in Waits, NEW timeouts \in PortTimeouts
    PROVE  /\ DcbWaits(old, timeouts) \in Waits
           /\ DcbWaits(DcbWaits(old, timeouts), timeouts) = DcbWaits(old, timeouts)
    BY DEF DcbWaits, PortTimeouts, Waits

-----------------------------------------------------------------------------
(* What the drivers write *)

\* Each setting is the one given or the one the port had.
LEMMA TakenIs ==
    ASSUME port \in Settings, NEW settings \in Settings, NEW took
    PROVE  /\ Taken(settings, took) \in Settings
           /\ Taken(settings, took).rate = IF "rate" \in took THEN settings.rate ELSE port.rate
           /\ Taken(settings, took).line = IF "line" \in took THEN settings.line ELSE port.line
           /\ Taken(settings, took).flow = IF "flow" \in took THEN settings.flow ELSE port.flow
           /\ Taken(settings, took).chars = IF "chars" \in took THEN settings.chars ELSE port.chars
           /\ Taken(settings, took).timeouts =
                IF "timeouts" \in took THEN settings.timeouts ELSE port.timeouts
    BY DEF Taken, Settings, Groups

LEMMA TermiosIs ==
    ASSUME LineTypes, NEW known \in Remembered
    PROVE  /\ TermiosOf(known) \in Settings
           /\ TermiosOf(known).rate = Speed(known.rate)
           /\ TermiosOf(known).line = LineFlags(known.line)
           /\ TermiosOf(known).flow = FlowFlags(ptermios.flow, known.flow)
           /\ TermiosOf(known).chars \in [CharNames -> Nat]
           /\ \A c \in CharNames \ {"EVENT"} : TermiosOf(known).chars[c] = known.chars[c]
           /\ TermiosOf(known).timeouts = ptermios.timeouts
<1>1. /\ known.rate \in Nat /\ known.line \in Line /\ known.flow \in Flow
      /\ known.chars \in [CharNames -> Nat]
    BY DEF Remembered
<1>2. /\ ptermios.flow \in Flow /\ ptermios.chars \in [CharNames -> Nat]
      /\ ptermios.timeouts \in Waits
    BY DEF LineTypes, Settings
<1>3. /\ Speed(known.rate) \in Nat /\ LineFlags(known.line) \in Line
      /\ FlowFlags(ptermios.flow, known.flow) \in Flow
    BY <1>1, <1>2, SpeedIs, LineFlagsIs, FlowFlagsIs
<1> DEFINE chars == [known.chars EXCEPT !["EVENT"] = ptermios.chars["EVENT"]]
<1>4. /\ chars \in [CharNames -> Nat]
      /\ \A c \in CharNames \ {"EVENT"} : chars[c] = known.chars[c]
    BY <1>1, <1>2 DEF CharNames
<1>5. TermiosOf(known) = [rate |-> Speed(known.rate), line |-> LineFlags(known.line),
                          flow |-> FlowFlags(ptermios.flow, known.flow), chars |-> chars,
                          timeouts |-> ptermios.timeouts]
    BY DEF TermiosOf
<1> HIDE DEF chars
<1> QED
    BY <1>2, <1>3, <1>4, <1>5 DEF Settings

LEMMA KnownOfIs ==
    ASSUME LineTypes, NEW settings \in Settings
    PROVE  /\ KnownOf(settings) \in Remembered
           /\ KnownOf(settings).rate = RateOf(settings.rate)
           /\ KnownOf(settings).line = settings.line
           /\ KnownOf(settings).flow = settings.flow
           /\ KnownOf(settings).chars =
                  [settings.chars EXCEPT !["EVENT"] = pser_inf.chars["EVENT"]]
           /\ KnownOf(settings).timeouts = pser_inf.timeouts
<1>1. /\ settings.rate \in Nat /\ settings.line \in Line /\ settings.flow \in Flow
      /\ settings.chars \in [CharNames -> Nat]
    BY DEF Settings
<1>2. pser_inf.chars \in [CharNames -> Nat] /\ pser_inf.timeouts \in PortTimeouts
    BY DEF LineTypes, Remembered
<1>3. [settings.chars EXCEPT !["EVENT"] = pser_inf.chars["EVENT"]] \in [CharNames -> Nat]
    BY <1>1, <1>2 DEF CharNames
<1> QED
    BY <1>1, <1>2, <1>3, SpeedIs DEF KnownOf, Remembered

-----------------------------------------------------------------------------
(* The requests *)

\* Where a request is for one setting, the others stay as they are known.
LEMMA AskedIs ==
    ASSUME LineTypes, NEW group \in Groups \cup Signals, NEW values,
           asked' = [asked EXCEPT ![group] = values]
    PROVE  /\ asked'[group] = values
           /\ \A k \in Groups \cup Signals : k # group => asked'[k] = asked[k]
           /\ asked' = [k \in Groups \cup Signals |-> asked'[k]]
    BY DEF LineTypes

LEMMA RequestsAre ==
    /\ \A v \in Rates : v \in Nat
    /\ \A v \in Lines : v \in Line
    /\ \A v \in Flows : v \in Flow
    /\ \A v \in Characters : v \in [CharNames -> Nat]
    /\ \A v \in Timeouts : v \in PortTimeouts
    BY RequestAssumption

LEMMA RateAsked ==
    ASSUME RateKnown, build = "unix", NEW v \in asked["rate"]
    PROVE  /\ v \in Rates /\ v \in Nat
           /\ port.rate = Speed(v) /\ pser_inf.rate \in {v, Speed(v)}
<1>1. v \in Rates /\ RateFits(port.rate, v) /\ pser_inf.rate \in {v, Speed(v)}
    BY DEF RateKnown
<1>2. v \in Nat
    BY <1>1, RequestAssumption
<1> QED
    BY <1>1, <1>2 DEF RateFits

\* One request of set_termios: known differs from pser_inf in one group.
Changes(known, group, value) ==
    /\ IF group = "rate" THEN value \in Rates /\ known.rate = value
                         ELSE known.rate = pser_inf.rate
    /\ IF group = "line" THEN value \in Lines /\ known.line = value
                         ELSE known.line = pser_inf.line
    /\ IF group = "flow" THEN value \in Flows /\ known.flow = value
                         ELSE known.flow = pser_inf.flow
    /\ IF group = "chars" THEN value \in Characters /\ known.chars = value
                          ELSE known.chars = pser_inf.chars
    /\ known.timeouts = pser_inf.timeouts

LEMMA TermiosKnows ==
    ASSUME PortKnown, build = "unix", isOpen, NEW known \in Remembered,
           NEW group \in {"rate", "line", "flow", "chars"}, NEW value,
           Changes(known, group, value), set_termios(known, group, value)
    PROVE  PortKnown'
<1>0. LineTypes /\ SettingsKnown
    BY DEF PortKnown
<1> DEFINE written == TermiosOf(known)
<1>1. PICK took \in Takes :
        /\ pser_inf' = known /\ ptermios' = written /\ port' = Taken(written, took)
        /\ asked' = [asked EXCEPT ![group] = IF group \in took THEN {value} ELSE {}]
        /\ UNCHANGED <<build, isOpen, signals>>
    BY DEF set_termios, Note
<1>2. /\ written \in Settings
      /\ written.rate = Speed(known.rate)
      /\ written.line = LineFlags(known.line)
      /\ written.flow = FlowFlags(ptermios.flow, known.flow)
      /\ \A c \in CharNames \ {"EVENT"} : written.chars[c] = known.chars[c]
    BY <1>0, TermiosIs
<1> HIDE DEF written
<1>3. /\ port' \in Settings
      /\ port'.rate = IF "rate" \in took THEN written.rate ELSE port.rate
      /\ port'.line = IF "line" \in took THEN written.line ELSE port.line
      /\ port'.flow = IF "flow" \in took THEN written.flow ELSE port.flow
      /\ port'.chars = IF "chars" \in took THEN written.chars ELSE port.chars
    BY <1>0, <1>1, <1>2, TakenIs DEF LineTypes
<1>4. /\ asked'[group] = IF group \in took THEN {value} ELSE {}
      /\ \A k \in Groups \cup Signals : k # group => asked'[k] = asked[k]
      /\ asked' = [k \in Groups \cup Signals |-> asked'[k]]
    BY <1>0, <1>1, AskedIs DEF Groups
<1>5. LineTypes'
    BY <1>0, <1>1, <1>2, <1>3, <1>4 DEF LineTypes
<1>6. RateKnown'
  <2>1. \A v \in asked'["rate"] : v \in Rates /\ v \in Nat /\ Speed(known.rate) = Speed(v)
                                 /\ known.rate \in {v, Speed(v)}
                                 /\ (group = "rate" => "rate" \in took)
                                 /\ (group # "rate" => port.rate = Speed(v))
    <3>1. CASE group = "rate"
      BY <1>4, <3>1, RequestsAre DEF Changes
    <3>2. CASE group # "rate"
      <4>1. asked'["rate"] = asked["rate"] /\ known.rate = pser_inf.rate
        BY <1>4, <3>2 DEF Changes, Groups
      <4>2. \A v \in asked["rate"] : v \in Rates /\ v \in Nat /\ pser_inf.rate \in {v, Speed(v)}
                                    /\ port.rate = Speed(v)
        BY <1>0, RateAsked DEF SettingsKnown
      <4> QED
        BY <3>2, <4>1, <4>2, SpeedIs
    <3> QED
      BY <3>1, <3>2
  <2> QED
    BY <1>1, <1>2, <1>3, <2>1 DEF RateKnown, RateFits
<1>7. LineKnown'
  <2>1. \A v \in asked'["line"] : v \in Lines /\ LineFlags(known.line) = LineFlags(v)
                                 /\ (group = "line" => "line" \in took)
                                 /\ (group # "line" => port.line = LineFlags(v))
    <3>1. CASE group = "line"
      BY <1>4, <3>1 DEF Changes
    <3>2. CASE group # "line"
      <4>1. asked'["line"] = asked["line"] /\ known.line = pser_inf.line
        BY <1>4, <3>2 DEF Changes, Groups
      <4> QED
        BY <1>0, <3>2, <4>1 DEF SettingsKnown, LineKnown, LineFits
    <3> QED
      BY <3>1, <3>2
  <2> QED
    BY <1>1, <1>2, <1>3, <2>1 DEF LineKnown, LineFits
<1>8. FlowKnown'
  <2>0. ptermios.flow \in Flow /\ known.flow \in Flow
    BY <1>0 DEF LineTypes, Settings, Remembered
  <2>1. \A v \in asked'["flow"] : v \in Flows /\ v \in Flow /\ FlowFits(known.flow, v)
                                 /\ (group = "flow" => "flow" \in took)
                                 /\ (group # "flow" => FlowFits(port.flow, v))
    <3>1. CASE group = "flow"
      BY <1>4, <3>1, RequestsAre, FlowFitsItself DEF Changes
    <3>2. CASE group # "flow"
      <4>1. asked'["flow"] = asked["flow"] /\ known.flow = pser_inf.flow
        BY <1>4, <3>2 DEF Changes, Groups
      <4> QED
        BY <1>0, <3>2, <4>1, RequestsAre DEF SettingsKnown, FlowKnown
    <3> QED
      BY <3>1, <3>2
  <2>2. \A v \in asked'["flow"] : FlowFits(written.flow, v)
    BY <1>2, <2>0, <2>1, FlowFlagsFit
  <2>3. \A v \in asked'["flow"] : FlowFits(port'.flow, v)
    BY <1>3, <2>1, <2>2
  <2>4. \A fl, v : FlowFits(fl, v)' <=> FlowFits(fl, v)
    BY <1>1 DEF FlowFits
  <2> QED
    BY <1>1, <2>1, <2>2, <2>3, <2>4 DEF FlowKnown, FlowFits
<1>9. CharsKnown'
  <2>1. \A v \in asked'["chars"] : v \in Characters /\ known.chars = v
                                  /\ (group = "chars" => "chars" \in took)
                                  /\ (group # "chars" => CharsFit(port.chars, v))
    <3>1. CASE group = "chars"
      BY <1>4, <3>1 DEF Changes
    <3>2. CASE group # "chars"
      <4>1. asked'["chars"] = asked["chars"] /\ known.chars = pser_inf.chars
        BY <1>4, <3>2 DEF Changes, Groups
      <4> QED
        BY <1>0, <3>2, <4>1 DEF SettingsKnown, CharsKnown
    <3> QED
      BY <3>1, <3>2
  <2> QED
    BY <1>1, <1>2, <1>3, <2>1 DEF CharsKnown, CharsFit, CharsKept
<1>10. WaitsKnown'
  <2>1. asked'["timeouts"] = asked["timeouts"] /\ known.timeouts = pser_inf.timeouts
    BY <1>4 DEF Changes, Groups
  <2> QED
    BY <1>0, <1>1, <2>1 DEF SettingsKnown, WaitsKnown, WaitsFit
<1>11. SignalsKnown'
  <2>1. \A s \in Signals : asked'[s] = asked[s]
    BY <1>4, PortAssumption
  <2> QED
    BY <1>0, <1>1, <2>1 DEF SettingsKnown, SignalsKnown
<1> QED
    BY <1>1, <1>5, <1>6, <1>7, <1>8, <1>9, <1>10, <1>11 DEF PortKnown, NothingAsked, SettingsKnown

LEMMA UnixSetKnows ==
    ASSUME PortKnown, UnixSet
    PROVE  PortKnown'
<1>0. build = "unix" /\ isOpen /\ pser_inf \in Remembered
    BY DEF UnixSet, PortKnown, LineTypes
<1>1. ASSUME NEW v \in Rates, set_termios([pser_inf EXCEPT !.rate = v], "rate", v)
      PROVE  PortKnown'
  <2> DEFINE known == [pser_inf EXCEPT !.rate = v]
  <2>1. known \in Remembered /\ Changes(known, "rate", v)
    BY <1>0, RequestsAre DEF Remembered, Changes
  <2> HIDE DEF known
  <2> QED
    BY <1>0, <1>1, <2>1, TermiosKnows DEF known
<1>2. ASSUME NEW v \in Lines, set_termios([pser_inf EXCEPT !.line = v], "line", v)
      PROVE  PortKnown'
  <2> DEFINE known == [pser_inf EXCEPT !.line = v]
  <2>1. known \in Remembered /\ Changes(known, "line", v)
    BY <1>0, RequestsAre DEF Remembered, Changes
  <2> HIDE DEF known
  <2> QED
    BY <1>0, <1>2, <2>1, TermiosKnows DEF known
<1>3. ASSUME NEW v \in Characters, set_termios([pser_inf EXCEPT !.chars = v], "chars", v)
      PROVE  PortKnown'
  <2> DEFINE known == [pser_inf EXCEPT !.chars = v]
  <2>1. known \in Remembered /\ Changes(known, "chars", v)
    BY <1>0, RequestsAre DEF Remembered, Changes
  <2> HIDE DEF known
  <2> QED
    BY <1>0, <1>3, <2>1, TermiosKnows DEF known
<1>4. ASSUME NEW v \in Flows, set_termios([pser_inf EXCEPT !.flow = v], "flow", v)
      PROVE  PortKnown'
  <2> DEFINE known == [pser_inf EXCEPT !.flow = v]
  <2>1. known \in Remembered /\ Changes(known, "flow", v)
    BY <1>0, RequestsAre DEF Remembered, Changes
  <2> HIDE DEF known
  <2> QED
    BY <1>0, <1>4, <2>1, TermiosKnows DEF known
<1> QED
    BY <1>1, <1>2, <1>3, <1>4 DEF UnixSet

\* While nothing was asked for, nothing can be wrong.
LEMMA NothingAskedKnows ==
    ASSUME LineTypes', \A k \in Groups \cup Signals : asked'[k] = {}
    PROVE  PortKnown'
<1>1. /\ asked'["rate"] = {} /\ asked'["line"] = {} /\ asked'["flow"] = {}
      /\ asked'["chars"] = {} /\ asked'["timeouts"] = {} /\ \A s \in Signals : asked'[s] = {}
    BY DEF Groups
<1> QED
    BY <1>1 DEF PortKnown, NothingAsked, SettingsKnown, RateKnown, LineKnown, FlowKnown,
                CharsKnown, WaitsKnown, SignalsKnown

LEMMA RawIs ==
    ASSUME NEW settings \in Settings
    PROVE  Raw(settings) \in Settings
<1>1. /\ settings.rate \in Nat /\ settings.line \in Line /\ settings.flow \in Flow
      /\ settings.chars \in [CharNames -> Nat] /\ settings.timeouts \in Waits
    BY DEF Settings
<1>2. /\ settings.flow \ {"XON"} \in Flow
      /\ [stop_bits |-> settings.line.stop_bits, parity |-> 0, word_length |-> 8] \in Line
    BY <1>1 DEF Flow, Line
<1> QED
    BY <1>1, <1>2 DEF Raw, Settings

LEMMA CreateOpens ==
    ASSUME PortKnown, UnixCreate \/ Os2Create
    PROVE  PortKnown'
<1>0. LineTypes /\ port \in Settings /\ pser_inf \in Remembered
      /\ \A k \in Groups \cup Signals : asked[k] = {}
    BY DEF PortKnown, LineTypes, NothingAsked, UnixCreate, Os2Create
<1>1. asked' = asked /\ isOpen' = TRUE
    BY DEF UnixCreate, Os2Create
<1>2. CASE UnixCreate
  <2>1. PICK took \in Takes : port' = Taken(Raw(port), took)
    BY <1>2 DEF UnixCreate
  <2>2. Raw(port) \in Settings
    BY <1>0, RawIs
  <2>3. port' \in Settings
    BY <1>0, <2>1, <2>2, TakenIs
  <2>4. [KnownOf(port) EXCEPT !.timeouts.constant = 5] \in Remembered
    <3> DEFINE known == KnownOf(port)
    <3>1. known \in Remembered
      BY <1>0, KnownOfIs
    <3> HIDE DEF known
    <3>2. known.timeouts \in PortTimeouts
      BY <3>1 DEF Remembered
    <3>3. [known.timeouts EXCEPT !.constant = 5] \in PortTimeouts
      BY <3>2 DEF PortTimeouts
    <3>4. [known EXCEPT !.timeouts = [known.timeouts EXCEPT !.constant = 5]] \in Remembered
      BY <3>1, <3>3 DEF Remembered
    <3>5. [known EXCEPT !.timeouts.constant = 5] \in Remembered
      BY <3>4
    <3> QED
      BY <3>5 DEF known
  <2>5. LineTypes'
    BY <1>0, <1>1, <1>2, <2>2, <2>3, <2>4 DEF UnixCreate, LineTypes
  <2> QED
    BY <1>0, <1>1, <2>5, NothingAskedKnows
<1>3. CASE Os2Create
  <2>1. LineTypes'
    BY <1>0, <1>1, <1>3 DEF Os2Create, LineTypes
  <2> QED
    BY <1>0, <1>1, <2>1, NothingAskedKnows
<1> QED
    BY <1>2, <1>3

LEMMA CloseEnds ==
    ASSUME PortKnown, LineClose \/ UsedElsewhere
    PROVE  PortKnown'
<1>0. LineTypes
    BY DEF PortKnown
<1>1. \A k \in Groups \cup Signals : asked'[k] = {}
    BY DEF PortKnown, NothingAsked, LineClose, UsedElsewhere
<1>2. LineTypes'
  <2>1. CASE LineClose
    BY <1>0, <2>1 DEF LineTypes, LineClose
  <2>2. CASE UsedElsewhere
    BY <1>0, <2>2, PortAssumption DEF LineTypes, UsedElsewhere
  <2> QED
    BY <2>1, <2>2
<1> QED
    BY <1>1, <1>2, NothingAskedKnows

\* What the driver reads back from the port is what was asked for.
LEMMA GetKnows ==
    ASSUME PortKnown, UnixGetHandflow
    PROVE  PortKnown'
<1>0. LineTypes /\ SettingsKnown /\ NothingAsked /\ port \in Settings /\ build = "unix"
    BY DEF PortKnown, LineTypes, UnixGetHandflow
<1> DEFINE known == KnownOf(port)
<1>1. /\ pser_inf' = known /\ ptermios' = port
      /\ UNCHANGED <<build, isOpen, port, signals, asked>>
    BY DEF UnixGetHandflow
<1>2. /\ known \in Remembered /\ known.rate = RateOf(port.rate) /\ known.line = port.line
      /\ known.flow = port.flow /\ known.timeouts = pser_inf.timeouts
      /\ known.chars = [port.chars EXCEPT !["EVENT"] = pser_inf.chars["EVENT"]]
    BY <1>0, KnownOfIs
<1> HIDE DEF known
<1>3. LineTypes'
    BY <1>0, <1>1, <1>2 DEF LineTypes
<1>4. RateKnown'
  <2>1. \A v \in asked["rate"] : v \in Rates /\ v \in Nat /\ port.rate = Speed(v)
    BY <1>0, RateAsked DEF SettingsKnown
  <2>2. \A v \in asked["rate"] : known.rate = Speed(v)
    BY <1>2, <2>1, SpeedIs
  <2> QED
    BY <1>0, <1>1, <2>1, <2>2 DEF RateKnown, RateFits
<1>5. LineKnown'
  <2>1. \A v \in asked["line"] : v \in Lines /\ v \in Line /\ port.line = LineFlags(v)
    BY <1>0, RequestsAre DEF SettingsKnown, LineKnown, LineFits
  <2>2. \A v \in asked["line"] : LineFlags(known.line) = LineFlags(v)
    BY <1>2, <2>1, LineFlagsIs
  <2> QED
    BY <1>0, <1>1, <2>1, <2>2 DEF LineKnown, LineFits
<1>6. FlowKnown'
    BY <1>0, <1>1, <1>2 DEF SettingsKnown, FlowKnown, FlowFits
<1>7. CharsKnown'
  <2>1. port.chars \in [CharNames -> Nat]
    BY <1>0 DEF Settings
  <2>2. ASSUME NEW v \in asked["chars"]
        PROVE  known.chars = v
    <3>1. /\ v \in [CharNames -> Nat] /\ pser_inf.chars = v
          /\ \A c \in CharNames \ {"EVENT"} : port.chars[c] = v[c]
      BY <1>0, RequestsAre DEF SettingsKnown, CharsKnown, CharsFit, CharsKept
    <3>2. [port.chars EXCEPT !["EVENT"] = v["EVENT"]] = v
      BY <2>1, <3>1
    <3> QED
      BY <1>2, <3>1, <3>2
  <2> QED
    BY <1>0, <1>1, <2>2 DEF SettingsKnown, CharsKnown, CharsFit, CharsKept
<1>8. WaitsKnown'
    BY <1>0, <1>1, <1>2 DEF SettingsKnown, WaitsKnown, WaitsFit
<1>9. SignalsKnown'
    BY <1>0, <1>1 DEF SettingsKnown, SignalsKnown
<1> QED
    BY <1>0, <1>1, <1>3, <1>4, <1>5, <1>6, <1>7, <1>8, <1>9
    DEF PortKnown, NothingAsked, SettingsKnown

LEMMA TimeoutsKnow ==
    ASSUME PortKnown, UnixSetTimeouts
    PROVE  PortKnown'
<1>0. LineTypes /\ SettingsKnown /\ build = "unix" /\ isOpen /\ pser_inf \in Remembered
    BY DEF PortKnown, LineTypes, UnixSetTimeouts
<1>1. PICK value \in Timeouts :
        /\ pser_inf' = [pser_inf EXCEPT !.timeouts = value]
        /\ asked' = [asked EXCEPT !["timeouts"] = {value}]
    BY DEF UnixSetTimeouts
<1>2. UNCHANGED <<build, isOpen, port, signals, ptermios>>
    BY DEF UnixSetTimeouts
<1>3. /\ pser_inf' \in Remembered /\ pser_inf'.timeouts = value
      /\ pser_inf'.rate = pser_inf.rate /\ pser_inf'.line = pser_inf.line
      /\ pser_inf'.flow = pser_inf.flow /\ pser_inf'.chars = pser_inf.chars
    BY <1>0, <1>1, RequestsAre DEF Remembered
<1>4. /\ asked'["timeouts"] = {value}
      /\ \A k \in Groups \cup Signals : k # "timeouts" => asked'[k] = asked[k]
      /\ asked' = [k \in Groups \cup Signals |-> asked'[k]]
    BY <1>0, <1>1, AskedIs DEF Groups
<1>5. /\ asked'["rate"] = asked["rate"] /\ asked'["line"] = asked["line"]
      /\ asked'["flow"] = asked["flow"] /\ asked'["chars"] = asked["chars"]
      /\ \A s \in Signals : asked'[s] = asked[s]
    BY <1>4, PortAssumption DEF Groups
<1>6. LineTypes'
    BY <1>0, <1>2, <1>3, <1>4 DEF LineTypes
<1>7. RateKnown' /\ LineKnown'
    BY <1>0, <1>2, <1>3, <1>5 DEF SettingsKnown, RateKnown, LineKnown, RateFits, LineFits
<1>8. FlowKnown' /\ CharsKnown'
    BY <1>0, <1>2, <1>3, <1>5
    DEF SettingsKnown, FlowKnown, CharsKnown, FlowFits, CharsFit, CharsKept
<1>9. WaitsKnown' /\ SignalsKnown'
    BY <1>0, <1>1, <1>2, <1>3, <1>4, <1>5
    DEF SettingsKnown, WaitsKnown, WaitsFit, SignalsKnown
<1> QED
    BY <1>0, <1>2, <1>6, <1>7, <1>8, <1>9 DEF PortKnown, NothingAsked, SettingsKnown

LEMMA ReadKnows ==
    ASSUME PortKnown, UnixRead
    PROVE  PortKnown'
<1>0. LineTypes /\ SettingsKnown /\ NothingAsked /\ build = "unix"
      /\ port \in Settings /\ ptermios \in Settings
    BY DEF PortKnown, LineTypes, UnixRead
<1> DEFINE waits == ReadWait(pser_inf.timeouts)
           written == [ptermios EXCEPT !.timeouts = waits]
<1>1. PICK took \in Takes : ptermios' = written /\ port' = Taken(written, took)
    BY DEF UnixRead
<1>2. UNCHANGED <<build, isOpen, signals, pser_inf, asked>>
    BY DEF UnixRead
<1>3. waits \in Waits
    BY <1>0, ReadWaitIs DEF LineTypes, Remembered
<1> HIDE DEF waits
<1>4. /\ written \in Settings /\ written.rate = ptermios.rate /\ written.line = ptermios.line
      /\ written.flow = ptermios.flow /\ written.chars = ptermios.chars
    BY <1>0, <1>3 DEF Settings
<1> HIDE DEF written
<1>5. /\ port' \in Settings
      /\ port'.rate \in {ptermios.rate, port.rate} /\ port'.line \in {ptermios.line, port.line}
      /\ port'.flow \in {ptermios.flow, port.flow} /\ port'.chars \in {ptermios.chars, port.chars}
    BY <1>0, <1>1, <1>4, TakenIs
<1>6. LineTypes'
    BY <1>0, <1>1, <1>2, <1>4, <1>5 DEF LineTypes
<1>7. RateKnown' /\ LineKnown'
    BY <1>0, <1>1, <1>2, <1>4, <1>5 DEF SettingsKnown, RateKnown, LineKnown, RateFits, LineFits
<1>8. FlowKnown'
    BY <1>0, <1>1, <1>2, <1>4, <1>5 DEF SettingsKnown, FlowKnown, FlowFits
<1>9. CharsKnown'
    BY <1>0, <1>1, <1>2, <1>4, <1>5 DEF SettingsKnown, CharsKnown, CharsFit, CharsKept
<1>10. WaitsKnown' /\ SignalsKnown'
    BY <1>0, <1>2 DEF SettingsKnown, WaitsKnown, WaitsFit, SignalsKnown
<1> QED
    BY <1>0, <1>2, <1>6, <1>7, <1>8, <1>9, <1>10 DEF PortKnown, NothingAsked, SettingsKnown

LEMMA SignalKnows ==
    ASSUME PortKnown, NEW signal \in Signals, NEW on \in BOOLEAN, SetSignal(signal, on)
    PROVE  PortKnown'
<1>0. LineTypes /\ SettingsKnown /\ isOpen
    BY DEF PortKnown, SetSignal
<1>1. /\ UNCHANGED <<build, isOpen, port, pser_inf, ptermios>>
      /\ \/ /\ signals' = IF on THEN signals \cup {signal} ELSE signals \ {signal}
            /\ asked' = [asked EXCEPT ![signal] = {on}]
         \/ UNCHANGED signals /\ asked' = [asked EXCEPT ![signal] = {}]
    BY DEF SetSignal
<1>2. /\ asked' = [k \in Groups \cup Signals |-> asked'[k]]
      /\ \A k \in Groups \cup Signals : k # signal => asked'[k] = asked[k]
      /\ \/ signals' = signals /\ asked'[signal] = {}
         \/ /\ signals' = IF on THEN signals \cup {signal} ELSE signals \ {signal}
            /\ asked'[signal] = {on}
  <2>1. CASE /\ signals' = IF on THEN signals \cup {signal} ELSE signals \ {signal}
             /\ asked' = [asked EXCEPT ![signal] = {on}]
    BY <1>0, <2>1, AskedIs
  <2>2. CASE UNCHANGED signals /\ asked' = [asked EXCEPT ![signal] = {}]
    BY <1>0, <2>2, AskedIs
  <2> QED
    BY <1>1, <2>1, <2>2
<1>3. LineTypes'
    BY <1>0, <1>1, <1>2 DEF LineTypes
<1>4. /\ asked'["rate"] = asked["rate"] /\ asked'["line"] = asked["line"]
      /\ asked'["flow"] = asked["flow"] /\ asked'["chars"] = asked["chars"]
      /\ asked'["timeouts"] = asked["timeouts"]
    BY <1>2, PortAssumption DEF Groups
<1>5. RateKnown' /\ LineKnown' /\ WaitsKnown'
    BY <1>0, <1>1, <1>4
    DEF SettingsKnown, RateKnown, LineKnown, RateFits, LineFits, WaitsKnown, WaitsFit
<1>6. FlowKnown' /\ CharsKnown'
    BY <1>0, <1>1, <1>4 DEF SettingsKnown, FlowKnown, CharsKnown, FlowFits, CharsFit, CharsKept
<1>7. SignalsKnown'
    BY <1>0, <1>2 DEF SettingsKnown, SignalsKnown
<1> QED
    BY <1>0, <1>1, <1>3, <1>5, <1>6, <1>7 DEF PortKnown, NothingAsked, SettingsKnown

\* OS/2: one setting of the port changes, if the port takes it.
Written(dcb, group, value, took) ==
    /\ port' = Taken(dcb, took)
    /\ asked' = [asked EXCEPT ![group] = IF group \in took THEN {value} ELSE {}]

Differs(dcb, group, value) ==
    /\ IF group = "rate" THEN value \in Rates /\ dcb.rate = value % 65536
                         ELSE dcb.rate = port.rate
    /\ IF group = "line" THEN value \in Lines /\ dcb.line = value ELSE dcb.line = port.line
    /\ IF group = "flow" THEN value \in Flows /\ dcb.flow = value ELSE dcb.flow = port.flow
    /\ IF group = "chars"
       THEN /\ value \in Characters
            /\ \A c \in CharNames \ {"EOF", "EVENT"} : dcb.chars[c] = value[c]
       ELSE dcb.chars = port.chars
    /\ IF group = "timeouts"
       THEN value \in Timeouts /\ dcb.timeouts = DcbWaits(port.timeouts, value)
       ELSE dcb.timeouts = port.timeouts

LEMMA WrittenKnows ==
    ASSUME PortKnown, build = "os2", isOpen, NEW dcb \in Settings, NEW group \in Groups,
           NEW value, NEW took, Differs(dcb, group, value), Written(dcb, group, value, took),
           IF group = "timeouts" THEN pser_inf' = [pser_inf EXCEPT !.timeouts = value]
                                 ELSE UNCHANGED pser_inf,
           Os2Kept
    PROVE  PortKnown'
<1>0. LineTypes /\ SettingsKnown /\ port \in Settings /\ pser_inf \in Remembered
    BY DEF PortKnown, LineTypes
<1>1. UNCHANGED <<build, isOpen, signals, ptermios>>
    BY DEF Os2Kept
<1>2. /\ port' \in Settings
      /\ port'.rate = IF "rate" \in took THEN dcb.rate ELSE port.rate
      /\ port'.line = IF "line" \in took THEN dcb.line ELSE port.line
      /\ port'.flow = IF "flow" \in took THEN dcb.flow ELSE port.flow
      /\ port'.chars = IF "chars" \in took THEN dcb.chars ELSE port.chars
      /\ port'.timeouts = IF "timeouts" \in took THEN dcb.timeouts ELSE port.timeouts
    BY <1>0, TakenIs DEF Written
<1>3. /\ asked'[group] = IF group \in took THEN {value} ELSE {}
      /\ \A k \in Groups \cup Signals : k # group => asked'[k] = asked[k]
      /\ asked' = [k \in Groups \cup Signals |-> asked'[k]]
    BY <1>0, AskedIs DEF Written
<1>4. pser_inf' \in Remembered /\ (group # "timeouts" => pser_inf' = pser_inf)
      /\ (group = "timeouts" => pser_inf'.timeouts = value /\ value \in PortTimeouts)
    BY <1>0, RequestsAre DEF Remembered, Differs
<1>5. LineTypes'
    BY <1>0, <1>1, <1>2, <1>3, <1>4 DEF LineTypes
<1>6. RateKnown'
  <2>1. CASE group = "rate"
    BY <1>1, <1>2, <1>3, <2>1 DEF RateKnown, RateFits, Differs
  <2>2. CASE group # "rate"
    <3>1. asked'["rate"] = asked["rate"] /\ port'.rate = port.rate
      BY <1>2, <1>3, <2>2 DEF Differs, Groups
    <3> QED
      BY <1>0, <1>1, <3>1 DEF SettingsKnown, RateKnown, RateFits
  <2> QED
    BY <2>1, <2>2
<1>7. LineKnown'
  <2>1. CASE group = "line"
    BY <1>1, <1>2, <1>3, <2>1 DEF LineKnown, LineFits, Differs
  <2>2. CASE group # "line"
    <3>1. asked'["line"] = asked["line"] /\ port'.line = port.line
      BY <1>2, <1>3, <2>2 DEF Differs, Groups
    <3> QED
      BY <1>0, <1>1, <3>1 DEF SettingsKnown, LineKnown, LineFits
  <2> QED
    BY <2>1, <2>2
<1>8. FlowKnown'
  <2>1. CASE group = "flow"
    BY <1>1, <1>2, <1>3, <2>1 DEF FlowKnown, FlowFits, Differs
  <2>2. CASE group # "flow"
    <3>1. asked'["flow"] = asked["flow"] /\ port'.flow = port.flow
      BY <1>2, <1>3, <2>2 DEF Differs, Groups
    <3> QED
      BY <1>0, <1>1, <3>1 DEF SettingsKnown, FlowKnown, FlowFits
  <2> QED
    BY <2>1, <2>2
<1>9. CharsKnown'
  <2>1. CASE group = "chars"
    BY <1>1, <1>2, <1>3, <2>1 DEF CharsKnown, CharsFit, CharsKept, Differs
  <2>2. CASE group # "chars"
    <3>1. asked'["chars"] = asked["chars"] /\ port'.chars = port.chars
      BY <1>2, <1>3, <2>2 DEF Differs, Groups
    <3> QED
      BY <1>0, <1>1, <3>1 DEF SettingsKnown, CharsKnown, CharsFit, CharsKept
  <2> QED
    BY <2>1, <2>2
<1>10. WaitsKnown'
  <2>1. CASE group = "timeouts"
    <3>1. port.timeouts \in Waits
      BY <1>0 DEF Settings
    <3>2. asked'["timeouts"] \subseteq {value} /\ value \in Timeouts
      BY <1>3, <2>1 DEF Differs
    <3>3. "timeouts" \in took => port'.timeouts = DcbWaits(port.timeouts, value)
      BY <1>2, <2>1 DEF Differs
    <3>4. "timeouts" \in took => port'.timeouts = DcbWaits(port'.timeouts, value)
      BY <1>4, <2>1, <3>1, <3>3, DcbWaitsIs
    <3>5. asked'["timeouts"] # {} => "timeouts" \in took
      BY <1>3, <2>1
    <3> QED
      BY <1>4, <2>1, <3>2, <3>4, <3>5 DEF WaitsKnown, WaitsFit
  <2>2. CASE group # "timeouts"
    <3>1. /\ asked'["timeouts"] = asked["timeouts"] /\ port'.timeouts = port.timeouts
          /\ pser_inf' = pser_inf
      BY <1>2, <1>3, <1>4, <2>2 DEF Differs, Groups
    <3> QED
      BY <1>0, <1>1, <3>1 DEF SettingsKnown, WaitsKnown, WaitsFit
  <2> QED
    BY <2>1, <2>2
<1>11. SignalsKnown'
  <2>1. \A s \in Signals : asked'[s] = asked[s]
    BY <1>3, PortAssumption DEF Groups
  <2> QED
    BY <1>0, <1>1, <2>1 DEF SettingsKnown, SignalsKnown
<1> QED
    BY <1>1, <1>5, <1>6, <1>7, <1>8, <1>9, <1>10, <1>11 DEF PortKnown, NothingAsked, SettingsKnown

LEMMA Os2LineKnows ==
    ASSUME PortKnown, Os2SetLine
    PROVE  PortKnown'
<1>0. build = "os2" /\ isOpen /\ port \in Settings /\ UNCHANGED pser_inf /\ Os2Kept
    BY DEF Os2SetLine, PortKnown, LineTypes
<1>1. ASSUME NEW took, NEW v \in Rates, port' = Taken([port EXCEPT !.rate = v % 65536], took),
             Note("rate", v, took)
      PROVE  PortKnown'
  <2> DEFINE dcb == [port EXCEPT !.rate = v % 65536]
  <2>1. v % 65536 \in Nat
    BY RequestAssumption
  <2>2. dcb \in Settings /\ Differs(dcb, "rate", v)
    BY <1>0, <2>1 DEF Settings, Differs
  <2>3. Written(dcb, "rate", v, took)
    BY <1>1 DEF Written, Note
  <2> HIDE DEF dcb
  <2> QED
    BY <1>0, <2>2, <2>3, WrittenKnows DEF Groups
<1>2. ASSUME NEW took, NEW v \in Lines, port' = Taken([port EXCEPT !.line = v], took),
             Note("line", v, took)
      PROVE  PortKnown'
  <2> DEFINE dcb == [port EXCEPT !.line = v]
  <2>1. v \in Line
    BY RequestAssumption
  <2>2. dcb \in Settings /\ Differs(dcb, "line", v)
    BY <1>0, <2>1 DEF Settings, Differs
  <2>3. Written(dcb, "line", v, took)
    BY <1>2 DEF Written, Note
  <2> HIDE DEF dcb
  <2> QED
    BY <1>0, <2>2, <2>3, WrittenKnows DEF Groups
<1>3. PICK took \in Takes :
        \/ \E v \in Rates : port' = Taken([port EXCEPT !.rate = v % 65536], took)
                             /\ Note("rate", v, took)
        \/ \E v \in Lines : port' = Taken([port EXCEPT !.line = v], took)
                             /\ Note("line", v, took)
    BY DEF Os2SetLine
<1>4. ASSUME NEW v \in Rates, port' = Taken([port EXCEPT !.rate = v % 65536], took),
             Note("rate", v, took)
      PROVE  PortKnown'
    BY <1>1, <1>4
<1>5. ASSUME NEW v \in Lines, port' = Taken([port EXCEPT !.line = v], took),
             Note("line", v, took)
      PROVE  PortKnown'
    BY <1>2, <1>5
<1>6. CASE \E v \in Rates : port' = Taken([port EXCEPT !.rate = v % 65536], took)
                           /\ Note("rate", v, took)
    BY <1>4, <1>6
<1>7. CASE \E v \in Lines : port' = Taken([port EXCEPT !.line = v], took)
                           /\ Note("line", v, took)
    BY <1>5, <1>7
<1> QED
    BY <1>3, <1>6, <1>7

\* The DCB is written, or could not be read: then the port has what it had.
LEMMA WriteDcbIs ==
    ASSUME PortKnown, NEW dcb \in Settings, NEW group \in Groups, NEW value,
           WriteDcb(dcb, group, value)
    PROVE  \E took : Written(dcb, group, value, took)
<1>1. CASE \E took \in Takes : port' = Taken(dcb, took) /\ Note(group, value, took)
    BY <1>1 DEF Written, Note
<1>2. CASE UNCHANGED port /\ Note(group, value, {})
  <2>0. port \in Settings
    BY DEF PortKnown, LineTypes
  <2>1. Taken(dcb, {}) = port
    BY <2>0 DEF Taken, Settings, Groups
  <2>2. Written(dcb, group, value, {})
    BY <1>2, <2>1 DEF Written, Note
  <2> QED
    BY <2>2
<1> QED
    BY <1>1, <1>2 DEF WriteDcb

LEMMA Os2DcbKnows ==
    ASSUME PortKnown, Os2SetDcb
    PROVE  PortKnown'
<1>0. build = "os2" /\ isOpen /\ port \in Settings /\ Os2Kept
    BY DEF Os2SetDcb, PortKnown, LineTypes
<1>1. ASSUME NEW v \in Characters, WriteDcb(DcbWithChars(v), "chars", v), UNCHANGED pser_inf
      PROVE  PortKnown'
  <2> DEFINE chars == [v EXCEPT !["EOF"] = port.chars["EOF"], !["EVENT"] = port.chars["EVENT"]]
             dcb == DcbWithChars(v)
  <2>1. v \in [CharNames -> Nat] /\ port.chars \in [CharNames -> Nat]
    BY <1>0, RequestAssumption DEF Settings
  <2>2. chars \in [CharNames -> Nat]
        /\ \A c \in CharNames \ {"EOF", "EVENT"} : chars[c] = v[c]
    BY <2>1 DEF CharNames
  <2>3. dcb = [port EXCEPT !.chars = chars]
    BY DEF DcbWithChars
  <2> HIDE DEF chars, dcb
  <2>4. dcb \in Settings /\ Differs(dcb, "chars", v)
    BY <1>0, <2>2, <2>3 DEF Settings, Differs
  <2>5. WriteDcb(dcb, "chars", v)
    BY <1>1 DEF dcb
  <2> QED
    BY <1>0, <1>1, <2>4, <2>5, WriteDcbIs, WrittenKnows DEF Groups
<1>2. ASSUME NEW v \in Flows, WriteDcb([port EXCEPT !.flow = v], "flow", v), UNCHANGED pser_inf
      PROVE  PortKnown'
  <2> DEFINE dcb == [port EXCEPT !.flow = v]
  <2>1. v \in Flow
    BY RequestAssumption
  <2>2. dcb \in Settings /\ Differs(dcb, "flow", v)
    BY <1>0, <2>1 DEF Settings, Differs
  <2> HIDE DEF dcb
  <2>3. WriteDcb(dcb, "flow", v)
    BY <1>2 DEF dcb
  <2> QED
    BY <1>0, <1>2, <2>2, <2>3, WriteDcbIs, WrittenKnows DEF Groups
<1>3. ASSUME NEW v \in Timeouts,
             WriteDcb([port EXCEPT !.timeouts = DcbWaits(@, v)], "timeouts", v),
             pser_inf' = [pser_inf EXCEPT !.timeouts = v]
      PROVE  PortKnown'
  <2> DEFINE waits == DcbWaits(port.timeouts, v)
             dcb == [port EXCEPT !.timeouts = waits]
  <2>1. waits \in Waits
    BY <1>0, RequestAssumption, DcbWaitsIs DEF Settings
  <2>2. WriteDcb(dcb, "timeouts", v)
    BY <1>3
  <2>3. waits = DcbWaits(port.timeouts, v)
    OBVIOUS
  <2> HIDE DEF waits
  <2>4. dcb \in Settings /\ Differs(dcb, "timeouts", v)
    BY <1>0, <2>1, <2>3 DEF Settings, Differs
  <2> HIDE DEF dcb
  <2> QED
    BY <1>0, <1>3, <2>2, <2>4, WriteDcbIs, WrittenKnows DEF Groups
<1> QED
    BY <1>1, <1>2, <1>3 DEF Os2SetDcb

LEMMA LineStarts == LineInit => PortKnown
<1> SUFFICES ASSUME LineInit PROVE PortKnown
    OBVIOUS
<1> DEFINE line == [stop_bits |-> 0, parity |-> 0, word_length |-> 0]
           chars == [c \in CharNames |-> 0]
           timeouts == [interval |-> 0, multiplier |-> 0, constant |-> 0,
                        writeMultiplier |-> 0, writeConstant |-> 0]
<1>1. line \in Line /\ chars \in [CharNames -> Nat] /\ timeouts \in PortTimeouts /\ {} \in Flow
    BY DEF Line, PortTimeouts, Flow
<1>2. pser_inf = [rate |-> 0, line |-> line, flow |-> {}, chars |-> chars, timeouts |-> timeouts]
    BY DEF LineInit
<1> HIDE DEF line, chars, timeouts
<1>3. pser_inf \in Remembered
    BY <1>1, <1>2 DEF Remembered
<1>4. asked = [k \in Groups \cup Signals |-> {}]
    BY DEF LineInit
<1>5. LineTypes
    BY <1>3, <1>4, PortAssumption DEF LineInit, LineTypes
<1>6. /\ asked["rate"] = {} /\ asked["line"] = {} /\ asked["flow"] = {}
      /\ asked["chars"] = {} /\ asked["timeouts"] = {}
      /\ \A k \in Groups \cup Signals : asked[k] = {}
    BY <1>4 DEF Groups
<1> QED
    BY <1>5, <1>6 DEF PortKnown, NothingAsked, SettingsKnown, RateKnown, LineKnown, FlowKnown,
                      CharsKnown, WaitsKnown, SignalsKnown

LEMMA LineStays ==
    ASSUME PortKnown, UNCHANGED lineVars
    PROVE  PortKnown'
<1>1. UNCHANGED <<build, isOpen, port, signals, pser_inf, ptermios, asked>>
    BY DEF lineVars
<1>2. LineTypes' /\ NothingAsked'
    BY <1>1 DEF PortKnown, LineTypes, NothingAsked
<1>3. RateKnown' /\ LineKnown'
    BY <1>1 DEF PortKnown, SettingsKnown, RateKnown, LineKnown, RateFits, LineFits
<1>4. FlowKnown' /\ CharsKnown'
    BY <1>1 DEF PortKnown, SettingsKnown, FlowKnown, CharsKnown, FlowFits, CharsFit, CharsKept
<1>5. WaitsKnown' /\ SignalsKnown'
    BY <1>1 DEF PortKnown, SettingsKnown, WaitsKnown, SignalsKnown, WaitsFit
<1> QED
    BY <1>2, <1>3, <1>4, <1>5 DEF PortKnown, SettingsKnown

\* In both drivers the settings of a port stay what the server asked for, each
\* until the server asks for another value of it, whatever the port refuses.
THEOREM AsAsked == LineSpec => []LineAsAsked
<1>1. LineInit => PortKnown
    BY LineStarts
<1>2. ASSUME PortKnown, [LineNext]_lineVars
      PROVE  PortKnown'
  <2>1. ASSUME NEW signal \in Signals, NEW on \in BOOLEAN, SetSignal(signal, on)
        PROVE  PortKnown'
    BY <1>2, <2>1, SignalKnows
  <2>2. CASE UnixCreate \/ Os2Create
    BY <1>2, <2>2, CreateOpens
  <2>3. CASE LineClose \/ UsedElsewhere
    BY <1>2, <2>3, CloseEnds
  <2> QED
    BY <1>2, <2>1, <2>2, <2>3, UnixSetKnows, GetKnows, TimeoutsKnow, ReadKnows, Os2LineKnows,
       Os2DcbKnows, LineStays DEF LineNext
<1>3. PortKnown => LineAsAsked
  <2> SUFFICES ASSUME PortKnown PROVE LineAsAsked
    OBVIOUS
  <2>1. /\ \A rate \in asked["rate"] : RateFits(port.rate, rate)
        /\ build = "unix" => \A rate \in asked["rate"] : pser_inf.rate \in {rate, Speed(rate)}
    BY DEF PortKnown, SettingsKnown, RateKnown
  <2>2. /\ \A line \in asked["line"] : LineFits(port.line, line)
        /\ build = "unix" =>
              \A line \in asked["line"] : LineFlags(pser_inf.line) = LineFlags(line)
    BY DEF PortKnown, SettingsKnown, LineKnown
  <2>3. \A flow \in asked["flow"] : FlowFits(port.flow, flow)
    BY DEF PortKnown, SettingsKnown, FlowKnown
  <2>4. /\ \A chars \in asked["chars"] : CharsFit(port.chars, chars)
        /\ build = "unix" => \A chars \in asked["chars"] : pser_inf.chars = chars
    BY DEF PortKnown, SettingsKnown, CharsKnown
  <2>5. \A timeouts \in asked["timeouts"] :
            WaitsFit(port.timeouts, timeouts) /\ pser_inf.timeouts = timeouts
    BY DEF PortKnown, SettingsKnown, WaitsKnown
  <2>6. SignalsKnown
    BY DEF PortKnown, SettingsKnown
  <2> QED
    BY <2>1, <2>2, <2>3, <2>4, <2>5, <2>6 DEF LineAsAsked, SignalsKnown
<1> QED
    BY <1>1, <1>2, <1>3, PTL DEF LineSpec
=============================================================================
