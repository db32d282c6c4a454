---------------------------- MODULE SecureLayer ----------------------------
(***************************************************************************)
(* The security layer of a connection without TLS, secure.c, over the MCS  *)
(* layer, mcs.c: how both sides get their keys while the connection comes  *)
(* up, and how the key streams go on from packet to packet.  RC4 has no    *)
(* place of its own in a packet: a packet can be read only by a side whose *)
(* stream stands where the sender's stood, and keys are changed after so   *)
(* many packets.                                                           *)
(*                                                                         *)
(* Packets are sent by the main thread and by the threads of the smart     *)
(* cards.  Each builds its packet in one of the streams of tcp_init and    *)
(* encrypts and sends it under the lock of sec_send_to_channel.            *)
(*                                                                         *)
(* A key is named by the randoms and the size it was made from, its use    *)
(* and its generation; an RC4 state is a key and the number of packets     *)
(* since it was set.                                                       *)
(***************************************************************************)
EXTENDS Integers, Sequences

CONSTANTS
    UpdateAfter,        \* packets until a key is changed, 4096
    STREAM_COUNT,       \* streams of tcp_init, 8 with smart cards
    g_num_channels,     \* virtual channels to join
    KeySizes,           \* the sizes a server may ask for
    MaxConnections, MaxPackets,     \* bounds of the model
    Card, Main, Nobody

ASSUME SecureAssumption ==
    /\ {UpdateAfter, STREAM_COUNT} \subseteq Nat \ {0}
    /\ {g_num_channels, MaxConnections, MaxPackets} \subseteq Nat
    /\ Main # Card /\ Nobody \notin {Main, Card}

VARIABLES
    phase,          \* how far sec_connect came
    joined,         \* the MCS channels joined on this connection
    g_encryption, g_encryption_initial, licensed,
    keys, rc4, useCount,            \* of the client, for each direction
    g_client_random,
    server,         \* its keys, its streams and what it asked for
    streams, cur_stream_id,
    thread,         \* what each thread is sending
    secLock,
    connection,     \* counts them
    sent,           \* packets of this connection
    crossed,        \* a packet begun on an earlier connection was sent on this one
    heard           \* what was read in the last step, and what was meant

modeVars == <<g_encryption, g_encryption_initial>>
connectVars == <<phase, joined, modeVars, connection>>
cryptVars == <<keys, rc4, useCount>>
sendVars == <<streams, cur_stream_id, thread, secLock>>
secureVars == <<connectVars, licensed, cryptVars, g_client_random, server, sendVars,
                sent, crossed, heard>>

Threads == {Main, Card}
Directions == {"encrypt", "decrypt"}
Noise == "noise"
NothingHeard == [is |-> "none", meant |-> "none"]
Idle == [at |-> "idle", stream |-> 0, begun |-> 0, flags |-> {}, room |-> 0, others |-> 0,
         packet |-> "none"]

-----------------------------------------------------------------------------
(* Keys *)

\* All keys of a connection come from the two randoms and the size.
sec_generate_keys(client, serverRandom, size) ==
    [use \in Directions \cup {"sign"} |->
        [use |-> use, from |-> <<client, serverRandom, size>>, generation |-> 0]]

SetKey(key) == [key |-> key, at |-> 0]

\* A new key is made of the one in use and the first one.
sec_update(key, updateKey) == [updateKey EXCEPT !.generation = key.generation + 1]

UsedUp(uses) == uses = UpdateAfter

\* The RC4 state that the next packet meets, and the key it is set from.
KeyFor(state, uses) ==
    IF UsedUp(uses) THEN sec_update(state.key, [state.key EXCEPT !.generation = 0]) ELSE state.key
ReadyState(state, uses) == IF UsedUp(uses) THEN SetKey(KeyFor(state, uses)) ELSE state

Advanced(state) == [state EXCEPT !.at = @ + 1]
NextUse(uses) == IF UsedUp(uses) THEN 1 ELSE uses + 1

\* sec_encrypt and sec_decrypt, each with its own state and count.
Crypted(direction) ==
    LET ready == ReadyState(rc4[direction], useCount[direction])
    IN  /\ rc4' = [rc4 EXCEPT ![direction] = Advanced(ready)]
        /\ useCount' = [useCount EXCEPT ![direction] = NextUse(@)]
        /\ keys' = [keys EXCEPT ![direction] = ready.key]

\* The server counts its packets in the same way; it encrypts what the
\* client decrypts.
ServerReady(direction) ==
    LET state == server.rc4[direction]
    IN  IF server.uses[direction] = UpdateAfter
        THEN SetKey([state.key EXCEPT !.generation = @ + 1]) ELSE state
ServerCrypted(direction) ==
    [server EXCEPT !.rc4[direction] = Advanced(ServerReady(direction)),
                   !.uses[direction] = NextUse(@)]

NoKeys == sec_generate_keys(0, 0, 0)
NewStates(made) == [d \in Directions |-> SetKey(made[d])]
NoUses == [d \in Directions |-> 0]

-----------------------------------------------------------------------------
(* Coming up *)

NoServer == [random |-> 0, size |-> 0, keys |-> NoKeys, rc4 |-> NewStates(NoKeys), uses |-> NoUses,
             good |-> FALSE]

SecureInit ==
    /\ phase = "off" /\ joined = 0 /\ connection = 1 /\ sent = 0
    /\ g_encryption_initial \in BOOLEAN /\ g_encryption = g_encryption_initial
    /\ licensed = FALSE
    /\ keys = NoKeys /\ rc4 = NewStates(NoKeys) /\ useCount = NoUses
    /\ g_client_random = 0
    /\ server = NoServer
    /\ streams = [i \in 0..(STREAM_COUNT - 1) |-> "none"] /\ cur_stream_id = 0
    /\ thread = [t \in Threads |-> Idle]
    /\ secLock = Nobody
    /\ crossed = FALSE /\ heard = NothingHeard

\* mcs_connect_start; TLS leaves nothing to encrypt.  The request says
\* whether the client encrypts.
ConnectInitial ==
    /\ phase = "off"
    /\ phase' = "asked"
    /\ g_encryption' \in {g_encryption, FALSE}
    /\ heard' = NothingHeard
    /\ UNCHANGED <<joined, g_encryption_initial, connection, sent, licensed, cryptVars,
                   g_client_random, server, sendVars, crossed>>

\* iso_disconnect at any point, or the loss of the connection.
LoseIt ==
    /\ phase \notin {"off", "lost"} /\ thread[Main] = Idle
    /\ phase' = "lost"
    /\ heard' = NothingHeard
    /\ UNCHANGED <<joined, modeVars, connection, licensed, cryptVars, g_client_random,
                   server,
                   sendVars, sent, crossed>>

\* What the server may say of its key: nothing at all, a key of its own in
\* the manner of RDP 4, signed or not, or certificates.
CryptInfos ==
    [level : {0, 1}, random : BOOLEAN, style : {"rdp4", "x509"}, fits : BOOLEAN,
     certificates : 0..3, trusted : BOOLEAN]

sec_parse_public_key(info) == info.fits
sec_parse_public_sig(info) == info.trusted

sec_parse_crypt_info(info) ==
    /\ info.level # 0 /\ info.random
    /\ IF info.style = "rdp4"
       THEN sec_parse_public_key(info) /\ sec_parse_public_sig(info)
       ELSE info.certificates >= 2 /\ info.trusted /\ info.fits

\* The blocks of the answer are read up to one that is too short to be one.
Block(tag, readable) == [tag |-> tag, readable |-> readable]
Blocks == {Block("info", TRUE), Block("short", FALSE)}
          \cup {Block("crypt", sec_parse_crypt_info(info)) : info \in CryptInfos}
Answers == UNION {[1..n -> Blocks] : n \in 0..2}
sec_process_mcs_data(answer) ==
    \E i \in DOMAIN answer :
        /\ answer[i].tag = "crypt" /\ answer[i].readable
        /\ \A j \in 1..(i - 1) : answer[j].tag # "short"

\* The answer of the server with its random and its public key.  If it is
\* missing or cannot be read, the keys stay what they were, and nobody asks.
ConnectResponse(answer, size) ==
    /\ phase = "asked" /\ phase' = "attach"
    /\ server' = [NoServer EXCEPT !.random = connection, !.size = size,
                                  !.good = sec_process_mcs_data(answer)]
    /\ IF sec_process_mcs_data(answer)
       THEN LET made == sec_generate_keys(connection, connection, size)
            IN  /\ keys' = made /\ rc4' = NewStates(made)
                /\ g_client_random' = connection
       ELSE UNCHANGED <<keys, rc4, g_client_random>>
    /\ heard' = NothingHeard
    /\ UNCHANGED <<joined, modeVars, connection, licensed, useCount, sendVars, sent,
                   crossed>>

\* AUcf, then a CJcf for the user's channel, the global one and all others.
Attach ==
    /\ phase = "attach" /\ phase' = "join" /\ joined' = 0
    /\ heard' = NothingHeard
    /\ UNCHANGED <<modeVars, connection, licensed, cryptVars, g_client_random, server,
                   sendVars,
                   sent, crossed>>

JoinChannel ==
    /\ phase = "join" /\ joined < g_num_channels + 2
    /\ joined' = joined + 1
    /\ heard' = NothingHeard
    /\ UNCHANGED <<phase, modeVars, connection, licensed, cryptVars, g_client_random,
                   server,
                   sendVars, sent, crossed>>

\* sec_establish_key: the server gets the client's random, and has its keys.
EstablishKey ==
    /\ phase = "join" /\ joined = g_num_channels + 2
    /\ phase' = "up"
    /\ LET made == sec_generate_keys(g_client_random, server.random, server.size)
       IN  server' = IF g_encryption
                     THEN [server EXCEPT !.keys = made, !.rc4 = NewStates(made)] ELSE server
    /\ heard' = NothingHeard
    /\ UNCHANGED <<joined, modeVars, connection, licensed, cryptVars, g_client_random,
                   sendVars,
                   sent, crossed>>

\* sec_reset_state and the layers below, between two connections.
SecReset ==
    /\ phase = "lost" /\ connection < MaxConnections
    /\ phase' = "off" /\ joined' = 0 /\ connection' = connection + 1 /\ sent' = 0
    /\ useCount' = NoUses
    /\ licensed' = FALSE /\ crossed' = FALSE
    /\ server' = NoServer
    /\ heard' = NothingHeard
    /\ g_encryption' = g_encryption_initial
    /\ UNCHANGED <<g_encryption_initial, keys, rc4, g_client_random, sendVars>>

-----------------------------------------------------------------------------
(* Sending *)

\* What sec_init leaves room for, and what sec_send_to_channel fills.
RoomFor(flags) == IF "ENCRYPT" \in flags THEN 12 ELSE IF licensed THEN 0 ELSE 4
FilledIn(flags) == (IF ~licensed \/ "ENCRYPT" \in flags THEN 4 ELSE 0)
                   + (IF "ENCRYPT" \in flags THEN 8 ELSE 0)

\* tcp_init gives the next stream, in use or not; the packet is written
\* into it at once.
SecInit(t, packet, flags) ==
    /\ thread[t] = Idle
    /\ sent < MaxPackets /\ sent' = sent + 1
    /\ cur_stream_id' = (cur_stream_id + 1) % STREAM_COUNT
    /\ streams' = [streams EXCEPT ![cur_stream_id] = packet]
    /\ thread' = [u \in Threads |->
                     IF u = t
                     THEN [at |-> "built", stream |-> cur_stream_id, begun |-> connection,
                           flags |-> flags, room |-> RoomFor(flags), others |-> 0,
                           packet |-> packet]
                     ELSE [thread[u] EXCEPT !.others = IF thread[u] = Idle THEN 0 ELSE @ + 1]]
    /\ heard' = NothingHeard
    /\ UNCHANGED <<connectVars, licensed, cryptVars, g_client_random, server, secLock,
                   crossed>>

EncryptIf == IF g_encryption THEN {"ENCRYPT"} ELSE {}

\* Licence packets are never encrypted, all others are if the client encrypts.
MainSends == \/ phase = "up" /\ ~licensed /\ SecInit(Main, "licence", {"LICENCE"})
             \/ phase = "up" /\ SecInit(Main, "data", EncryptIf)
CardAnswers == phase = "up" /\ licensed /\ SecInit(Card, "answer", EncryptIf)

\* Mutant: a thread does not wait for the other to have sent.
NoLock(t) == TRUE

MayEncrypt(t) == secLock = Nobody

\* The first half of sec_send_to_channel: the lock, the signature and RC4.
\* What a packet holds is fixed here.
Encrypt(t) ==
    LET text == streams[thread[t].stream]
        state == ReadyState(rc4["encrypt"], useCount["encrypt"])
        whole == thread[t].room = FilledIn(thread[t].flags)
    IN  /\ thread[t].at = "built" /\ MayEncrypt(t)
        /\ secLock' = t
        /\ IF "ENCRYPT" \in thread[t].flags
           THEN /\ Crypted("encrypt")
                /\ thread' = [thread EXCEPT ![t].at = "encrypted",
                                 ![t].packet = <<@, [text |-> IF whole THEN text ELSE Noise,
                                                     sign |-> keys["sign"], state |-> state]>>]
           ELSE /\ thread' = [thread EXCEPT ![t].at = "encrypted",
                                 ![t].packet = <<@, [text |-> IF whole THEN text ELSE Noise]>>]
                /\ UNCHANGED cryptVars
        /\ crossed' = (crossed \/ thread[t].begun # connection)
        /\ heard' = NothingHeard
        /\ UNCHANGED <<connectVars, licensed, g_client_random, server, streams,
                       cur_stream_id, sent>>

\* What the server makes of a packet.
ServerReads(packet, flags) ==
    IF "ENCRYPT" \notin flags THEN packet.text
    ELSE IF packet.sign = server.keys["sign"] /\ packet.state = ServerReady("encrypt")
         THEN packet.text ELSE Noise

\* The second half: the packet goes out and the lock is given back.  A lost
\* connection swallows it.
SendOut(t) ==
    LET meant == thread[t].packet[1]
        flags == thread[t].flags
        old == thread[t].begun # connection
        reaches == phase \notin {"lost", "off"}
        counts == reaches /\ ~old /\ ~crossed /\ thread[t].others < STREAM_COUNT
                  /\ (g_encryption => server.good)
    IN  /\ thread[t].at = "encrypted"
        /\ heard' = IF counts THEN [is |-> ServerReads(thread[t].packet[2], flags), meant |-> meant]
                    ELSE NothingHeard
        /\ server' = IF reaches /\ "ENCRYPT" \in flags THEN ServerCrypted("encrypt") ELSE server
        /\ crossed' = (crossed \/ (old /\ reaches))
        /\ thread' = [thread EXCEPT ![t] = Idle]
        /\ secLock' = Nobody
        /\ UNCHANGED <<connectVars, licensed, cryptVars, g_client_random, streams,
                       cur_stream_id, sent>>

-----------------------------------------------------------------------------
(* Receiving *)

\* How the server sends a packet: with the header of the fast path or of
\* sec_recv, encrypted or not.
Kinds == {"fast", "data", "licence", "redirect"}

\* sec_recv: which packets of an encrypting client are decrypted.
Decrypts(kind, encrypted) ==
    CASE kind = "fast" -> encrypted
      [] kind = "redirect" -> g_encryption
      [] OTHER -> g_encryption /\ encrypted

\* The server encrypts what follows its keys, except that a redirection is
\* only marked as such.
SecRecv(kind, encrypted) ==
    LET state == ReadyState(rc4["decrypt"], useCount["decrypt"])
    IN  /\ phase = "up" /\ thread[Main] = Idle
        /\ sent < MaxPackets /\ sent' = sent + 1
        /\ encrypted => g_encryption
        /\ (kind = "redirect" /\ g_encryption) => encrypted
        /\ kind = "licence" => ~licensed
        /\ licensed' = (licensed \/ kind = "licence")
        /\ server' = IF encrypted THEN ServerCrypted("decrypt") ELSE server
        /\ IF Decrypts(kind, encrypted) THEN Crypted("decrypt") ELSE UNCHANGED cryptVars
        /\ heard' = IF crossed \/ (g_encryption /\ ~server.good) THEN NothingHeard
                    ELSE [is |-> IF Decrypts(kind, encrypted) = encrypted
                                    /\ (encrypted => state = ServerReady("decrypt"))
                                 THEN kind ELSE Noise,
                          meant |-> kind]
        /\ UNCHANGED <<connectVars, g_client_random, sendVars, crossed>>

SecureNext ==
    \/ ConnectInitial \/ LoseIt \/ Attach \/ JoinChannel \/ EstablishKey \/ SecReset
    \/ \E answer \in Answers, size \in KeySizes : ConnectResponse(answer, size)
    \/ MainSends \/ CardAnswers
    \/ \E t \in Threads : Encrypt(t) \/ SendOut(t)
    \/ \E kind \in Kinds, encrypted \in BOOLEAN : SecRecv(kind, encrypted)

SecureSpec == SecureInit /\ [][SecureNext]_secureVars

-----------------------------------------------------------------------------
(* Properties *)

\* Over all connections, changes of keys and threads, server and client read
\* what the other side wrote.  Left out are connections whose keys could not
\* be read from the answer of the server, which the program uses all the
\* same, packets overtaken by as many others as there are streams, and what
\* follows a packet that a thread began before the connection was lost.
ReadAsWritten == heard.is = heard.meant
=============================================================================
