-------------------------- MODULE ServerDataProofs --------------------------
(***************************************************************************)
(* SecureLayer, Channels and XScreen.                                      *)
(*                                                                         *)
(* Why what one side encrypts the other can read, over all connections,    *)
(* changes of keys and threads of SecureLayer.  Both sides make the same   *)
(* keys; from then on each packet takes both to the same next state, and   *)
(* the lock of sec_send_to_channel leaves at most one packet that one side *)
(* has counted and the other has not.                                      *)
(*                                                                         *)
(* Why messages of Channels arrive whole.  What has come of a message is   *)
(* at the front of the buffer, whatever is behind it.  What is left of a   *)
(* message to send is in the stream behind the place where fragments are   *)
(* built, so that building one destroys none of it.                        *)
(*                                                                         *)
(* Why all windows of XScreen show what the orders mean.  For each cell it *)
(* is said what it should show, and which windows are excused: those where *)
(* it is covered, and those X will ask to draw it anew.  Drawing in a      *)
(* place takes what is shown to what is meant (Draws), drawing that is     *)
(* composed does as its parts do, and a copy within the screen comes from  *)
(* where window and store agree.  Without own backing store X keeps what   *)
(* is covered, so that nothing is excused.                                 *)
(***************************************************************************)
EXTENDS SecureLayer, Channels, XScreen, ProofLemmas

Phases == {"off", "asked", "attach", "join", "up", "lost"}
Keys == [use : Directions \cup {"sign"}, from : Nat \X Nat \X (KeySizes \cup {0}), generation : Nat]
States == [key : Keys, at : Nat]
Texts == {"none", "licence", "data", "answer", Noise}
Signed == [text : Texts, sign : Keys, state : States]
Sendings == [at : {"idle", "built", "encrypted"}, stream : 0..(STREAM_COUNT - 1), begun : Nat,
             flags : SUBSET {"ENCRYPT", "LICENCE"}, room : Nat, others : Nat,
             packet : Texts \cup (Texts \X ([text : Texts] \cup Signed))]
Servers == [random : Nat, size : KeySizes \cup {0}, keys : [Directions \cup {"sign"} -> Keys],
            rc4 : [Directions -> States], uses : [Directions -> Nat], good : BOOLEAN]

SecureTypeOK ==
    /\ phase \in Phases /\ joined \in Nat /\ connection \in Nat \ {0} /\ sent \in Nat
    /\ g_encryption \in BOOLEAN /\ g_encryption_initial \in BOOLEAN /\ licensed \in BOOLEAN
    /\ keys \in [Directions \cup {"sign"} -> Keys] /\ rc4 \in [Directions -> States]
    /\ useCount \in [Directions -> Nat] /\ g_client_random \in Nat
    /\ server \in Servers
    /\ streams \in [0..(STREAM_COUNT - 1) -> Texts] /\ cur_stream_id \in 0..(STREAM_COUNT - 1)
    /\ thread \in [Threads -> Sendings] /\ secLock \in Threads \cup {Nobody}
    /\ \A t \in Threads : thread[t].at = "built" => thread[t].packet \in Texts
    /\ crossed \in BOOLEAN

\* A thread that sends nothing is as at first, and one that has encrypted its
\* packet is the one that holds the lock.
Held ==
    \A t \in Threads : /\ thread[t].at = "idle" => thread[t] = Idle
                       /\ thread[t].at = "encrypted" <=> secLock = t

\* A packet that was begun on this connection was begun when it was up, and is
\* encrypted only if this connection is.
Begun ==
    \A t \in Threads :
        /\ thread[t].begun <= connection
        /\ thread[t].at # "idle" /\ thread[t].begun = connection =>
              /\ phase \in {"up", "lost"}
              /\ "ENCRYPT" \in thread[t].flags => g_encryption

\* Its header has the size it gets: no licence comes while the main thread
\* sends, and the cards' threads answer when there is one.
Headers ==
    \A t \in Threads :
        thread[t].at # "idle" /\ thread[t].begun = connection =>
            /\ thread[t].at = "built" => thread[t].room = RoomFor(thread[t].flags)
            /\ t = Card => licensed

\* As many packets as "others" counts were begun after it in the streams that
\* follow, so that it still has its own until they are back at the first.
Ahead(t) == LET next == thread[t].stream + 1 + thread[t].others
            IN  cur_stream_id = next \/ cur_stream_id = next - STREAM_COUNT
Streams ==
    \A t \in Threads :
        (thread[t].at # "idle" /\ thread[t].others < STREAM_COUNT) =>
            /\ Ahead(t)
            /\ thread[t].at = "built" => streams[thread[t].stream] = thread[t].packet

\* What was encrypted is what was meant.
Written ==
    \A t \in Threads :
        thread[t].at = "encrypted" /\ thread[t].begun = connection
        /\ thread[t].others < STREAM_COUNT
            => thread[t].packet[2].text = thread[t].packet[1]

\* Before there are keys, no packet of this connection is counted; then both
\* sides make the same keys of the same randoms.
NotYetUp ==
    ~crossed =>
        /\ phase \in {"off", "asked"} => useCount = NoUses
        /\ phase \in {"attach", "join"} /\ server.good =>
              /\ useCount = NoUses /\ server.uses = NoUses
              /\ g_client_random = connection /\ server.random = connection
              /\ keys = sec_generate_keys(connection, connection, server.size)
              /\ rc4 = NewStates(keys)

\* The encrypted packet of this connection that is not sent yet
InFlight(t) ==
    thread[t].at = "encrypted" /\ thread[t].begun = connection /\ "ENCRYPT" \in thread[t].flags

\* Once it is up, both sides are at the same place of the same streams, except
\* for the one packet that is in flight.
Agreed ==
    phase = "up" /\ ~crossed /\ g_encryption /\ server.good =>
        /\ keys["sign"] = server.keys["sign"]
        /\ rc4["decrypt"] = server.rc4["decrypt"]
        /\ useCount["decrypt"] = server.uses["decrypt"]
        /\ (\A t \in Threads : ~InFlight(t)) =>
              /\ rc4["encrypt"] = server.rc4["encrypt"]
              /\ useCount["encrypt"] = server.uses["encrypt"]
        /\ \A t \in Threads : InFlight(t) =>
              /\ rc4["encrypt"] = Advanced(ServerReady("encrypt"))
              /\ useCount["encrypt"] = NextUse(server.uses["encrypt"])
              /\ thread[t].packet[2].sign = server.keys["sign"]
              /\ thread[t].packet[2].state = ServerReady("encrypt")

-----------------------------------------------------------------------------
(* Facts about keys and streams *)

LEMMA SecureConstants ==
    /\ UpdateAfter \in Nat \ {0} /\ STREAM_COUNT \in Nat \ {0}
    /\ g_num_channels \in Nat /\ MaxConnections \in Nat /\ MaxPackets \in Nat
    /\ Main # Card /\ Nobody \notin Threads
BY SecureAssumption DEF Threads

LEMMA KeysMade ==
    ASSUME NEW a \in Nat, NEW b \in Nat, NEW size \in KeySizes \cup {0}
    PROVE  /\ sec_generate_keys(a, b, size) \in [Directions \cup {"sign"} -> Keys]
           /\ NewStates(sec_generate_keys(a, b, size)) \in [Directions -> States]
<1>1. sec_generate_keys(a, b, size) \in [Directions \cup {"sign"} -> Keys]
    BY DEF sec_generate_keys, Keys
<1> QED
    BY <1>1 DEF NewStates, SetKey, States, Directions

\* The client's way to the state that meets the next packet, over the first
\* key, is the server's.
LEMMA SameReady ==
    ASSUME NEW state \in States, NEW uses \in Nat
    PROVE  /\ ReadyState(state, uses) \in States
           /\ Advanced(state) \in States
           /\ NextUse(uses) \in Nat
           /\ ReadyState(state, uses) =
                 IF uses = UpdateAfter
                 THEN SetKey([state.key EXCEPT !.generation = state.key.generation + 1])
                 ELSE state
<1>1. state.key \in Keys /\ state.key.generation \in Nat
    BY DEF States, Keys
<1>2. [state.key EXCEPT !.generation = state.key.generation + 1] \in Keys
    BY <1>1 DEF Keys
<1>3. sec_update(state.key, [state.key EXCEPT !.generation = 0])
          = [state.key EXCEPT !.generation = state.key.generation + 1]
    BY <1>1 DEF sec_update, Keys
<1>4. ReadyState(state, uses) = IF uses = UpdateAfter
                 THEN SetKey([state.key EXCEPT !.generation = state.key.generation + 1])
                 ELSE state
    BY <1>3 DEF ReadyState, KeyFor, UsedUp
<1>5. ReadyState(state, uses) \in States
    BY <1>2, <1>4 DEF SetKey, States
<1>6. Advanced(state) \in States
    BY DEF Advanced, States
<1> QED
    BY <1>4, <1>5, <1>6 DEF NextUse

LEMMA ServerReadyIs ==
    ASSUME NEW d \in Directions, SecureTypeOK
    PROVE  ServerReady(d) = ReadyState(server.rc4[d], server.uses[d])
<1>1. server.rc4[d] \in States /\ server.uses[d] \in Nat
    BY DEF SecureTypeOK, Servers
<1> QED
    BY <1>1, SameReady DEF ServerReady

\* What a packet does to the server's record.
LEMMA ServerMoves ==
    ASSUME NEW d \in Directions, SecureTypeOK
    PROVE  /\ ServerCrypted(d) \in Servers
           /\ ServerCrypted(d).rc4 = [server.rc4 EXCEPT ![d] = Advanced(ServerReady(d))]
           /\ ServerCrypted(d).uses = [server.uses EXCEPT ![d] = NextUse(server.uses[d])]
           /\ ServerCrypted(d).keys = server.keys /\ ServerCrypted(d).good = server.good
<1>1. server \in Servers /\ server.rc4[d] \in States /\ server.uses[d] \in Nat
    BY DEF SecureTypeOK, Servers
<1>2. ServerReady(d) \in States
    BY <1>1, ServerReadyIs, SameReady
<1>3. Advanced(ServerReady(d)) \in States /\ NextUse(server.uses[d]) \in Nat
    BY <1>1, <1>2, SameReady
<1> HIDE DEF ServerReady, Advanced, NextUse
<1> QED
    BY <1>1, <1>3 DEF ServerCrypted, Servers

-----------------------------------------------------------------------------
(* The types *)

LEMMA IdleIsSending == Idle \in Sendings
<1>1. 0 \in 0..(STREAM_COUNT - 1)
    BY SecureConstants
<1> QED
    BY <1>1 DEF Idle, Sendings, Texts

LEMMA NoServerIsServer ==
    ASSUME NEW r \in Nat, NEW z \in KeySizes \cup {0}, NEW b \in BOOLEAN
    PROVE  /\ [NoServer EXCEPT !.random = r, !.size = z, !.good = b] \in Servers
           /\ NoServer \in Servers
<1>1. NoKeys \in [Directions \cup {"sign"} -> Keys] /\ NewStates(NoKeys) \in [Directions -> States]
    BY KeysMade DEF NoKeys
<1>2. NoUses \in [Directions -> Nat]
    BY DEF NoUses
<1> HIDE DEF NoKeys
<1> QED
    BY <1>1, <1>2 DEF NoServer, Servers

LEMMA SecureTypeInit == SecureInit => SecureTypeOK
<1> SUFFICES ASSUME SecureInit PROVE SecureTypeOK
    OBVIOUS
<1>1. keys \in [Directions \cup {"sign"} -> Keys] /\ rc4 \in [Directions -> States]
    BY KeysMade DEF NoKeys, SecureInit
<1>2. server \in Servers
    BY NoServerIsServer DEF SecureInit
<1>3. thread \in [Threads -> Sendings] /\ useCount \in [Directions -> Nat]
    BY IdleIsSending DEF SecureInit, NoUses
<1>4. streams \in [0..(STREAM_COUNT - 1) -> Texts] /\ cur_stream_id \in 0..(STREAM_COUNT - 1)
    BY SecureConstants DEF SecureInit, Texts
<1>5. /\ phase \in Phases /\ joined \in Nat /\ connection \in Nat \ {0} /\ sent \in Nat
      /\ g_client_random \in Nat /\ secLock \in Threads \cup {Nobody}
    BY DEF SecureInit, Phases
<1>6. /\ g_encryption \in BOOLEAN /\ g_encryption_initial \in BOOLEAN /\ licensed \in BOOLEAN
      /\ crossed \in BOOLEAN
    BY Zenon DEF SecureInit
<1>7. \A t \in Threads : thread[t].at # "built"
    BY DEF SecureInit, Idle
<1> QED
    BY <1>1, <1>2, <1>3, <1>4, <1>5, <1>6, <1>7 DEF SecureTypeOK

\* The client's half of a packet
LEMMA ClientMoves ==
    ASSUME NEW d \in Directions, SecureTypeOK, Crypted(d)
    PROVE  /\ rc4' = [rc4 EXCEPT ![d] = Advanced(ReadyState(rc4[d], useCount[d]))]
           /\ useCount' = [useCount EXCEPT ![d] = NextUse(useCount[d])]
           /\ keys'["sign"] = keys["sign"]
           /\ rc4' \in [Directions -> States] /\ useCount' \in [Directions -> Nat]
           /\ keys' \in [Directions \cup {"sign"} -> Keys]
<1>1. rc4[d] \in States /\ useCount[d] \in Nat
    BY DEF SecureTypeOK
<1> DEFINE ready == ReadyState(rc4[d], useCount[d])
<1>2. ready \in States /\ Advanced(ready) \in States /\ NextUse(useCount[d]) \in Nat
    BY <1>1, SameReady
<1>3. ready.key \in Keys
    BY <1>2 DEF States
<1>4. rc4' = [rc4 EXCEPT ![d] = Advanced(ready)]
    BY DEF Crypted
<1>5. useCount' = [useCount EXCEPT ![d] = NextUse(useCount[d])]
    BY DEF Crypted
<1>6. keys' = [keys EXCEPT ![d] = ready.key]
    BY DEF Crypted
<1>7. d # "sign"
    BY DEF Directions
<1> HIDE DEF ready
<1>8. /\ rc4' \in [Directions -> States] /\ useCount' \in [Directions -> Nat]
      /\ keys' \in [Directions \cup {"sign"} -> Keys]
    BY <1>2, <1>3, <1>4, <1>5, <1>6 DEF SecureTypeOK
<1>9. keys'["sign"] = keys["sign"]
    BY <1>6, <1>7 DEF SecureTypeOK
<1> QED
    BY <1>4, <1>5, <1>8, <1>9 DEF ready

\* One more packet was begun after the one of u, if it sends one.
Overtaken(u) ==
    /\ thread'[u].at = thread[u].at /\ thread'[u].stream = thread[u].stream
    /\ thread'[u].begun = thread[u].begun /\ thread'[u].flags = thread[u].flags
    /\ thread'[u].room = thread[u].room /\ thread'[u].packet = thread[u].packet
    /\ thread'[u].others = IF thread[u] = Idle THEN 0 ELSE thread[u].others + 1

\* What a thread begins
LEMMA SecInitThread ==
    ASSUME SecureTypeOK, NEW t \in Threads, NEW packet \in Texts \ {Noise},
           NEW flags \in SUBSET {"ENCRYPT", "LICENCE"}, SecInit(t, packet, flags)
    PROVE  /\ thread[t] = Idle
           /\ thread' \in [Threads -> Sendings]
           /\ thread'[t].at = "built" /\ thread'[t].stream = cur_stream_id
           /\ thread'[t].begun = connection /\ thread'[t].flags = flags
           /\ thread'[t].room = RoomFor(flags) /\ thread'[t].others = 0
           /\ thread'[t].packet = packet
           /\ \A u \in Threads \ {t} : Overtaken(u)
           /\ cur_stream_id' = IF cur_stream_id + 1 = STREAM_COUNT THEN 0 ELSE cur_stream_id + 1
           /\ streams' = [streams EXCEPT ![cur_stream_id] = packet]
           /\ streams' \in [0..(STREAM_COUNT - 1) -> Texts]
           /\ cur_stream_id' \in 0..(STREAM_COUNT - 1) /\ sent' \in Nat
<1>1. cur_stream_id' = (cur_stream_id + 1) % STREAM_COUNT
    BY DEF SecInit
<1>2. cur_stream_id \in Nat /\ cur_stream_id < STREAM_COUNT /\ STREAM_COUNT \in Nat \ {0}
    BY SecureConstants DEF SecureTypeOK
<1>3. cur_stream_id' = IF cur_stream_id + 1 = STREAM_COUNT THEN 0 ELSE cur_stream_id + 1
    BY <1>1, <1>2
<1>4. streams' = [streams EXCEPT ![cur_stream_id] = packet] /\ sent' = sent + 1
    BY DEF SecInit
<1>5. RoomFor(flags) \in Nat
    BY DEF RoomFor
<1> DEFINE new == [at |-> "built", stream |-> cur_stream_id, begun |-> connection,
                   flags |-> flags, room |-> RoomFor(flags), others |-> 0, packet |-> packet]
           old(u) == [thread[u] EXCEPT !.others = IF thread[u] = Idle THEN 0
                                                  ELSE thread[u].others + 1]
<1>6. thread' = [u \in Threads |-> IF u = t THEN new ELSE old(u)]
    BY DEF SecInit
<1>7. new \in Sendings
    BY <1>2, <1>5 DEF Sendings, SecureTypeOK
<1>8. \A u \in Threads : old(u) \in Sendings
  <2> SUFFICES ASSUME NEW u \in Threads PROVE old(u) \in Sendings
    OBVIOUS
  <2>1. thread[u] \in Sendings
    BY DEF SecureTypeOK
  <2>2. (IF thread[u] = Idle THEN 0 ELSE thread[u].others + 1) \in Nat
    BY <2>1 DEF Sendings
  <2> QED
    BY <2>1, <2>2 DEF Sendings
<1> HIDE DEF new, old
<1>9. /\ thread' \in [Threads -> Sendings] /\ thread'[t] = new
      /\ \A u \in Threads \ {t} : thread'[u] = old(u)
    BY <1>6, <1>7, <1>8
<1>10. \A u \in Threads \ {t} : Overtaken(u)
  <2> SUFFICES ASSUME NEW u \in Threads \ {t} PROVE Overtaken(u)
    OBVIOUS
  <2>1. thread[u] \in Sendings /\ thread'[u] = old(u)
    BY <1>9 DEF SecureTypeOK
  <2> QED
    BY <2>1 DEF old, Sendings, Overtaken
<1>11. /\ thread'[t].at = "built" /\ thread'[t].stream = cur_stream_id
       /\ thread'[t].begun = connection /\ thread'[t].flags = flags
       /\ thread'[t].room = RoomFor(flags) /\ thread'[t].others = 0
       /\ thread'[t].packet = packet
    BY <1>9 DEF new
<1>12. thread[t] = Idle
    BY DEF SecInit
<1>13. /\ streams' \in [0..(STREAM_COUNT - 1) -> Texts] /\ sent' \in Nat
       /\ cur_stream_id' \in 0..(STREAM_COUNT - 1)
    BY <1>2, <1>3, <1>4 DEF SecureTypeOK
<1> QED
    BY <1>3, <1>4, <1>9, <1>10, <1>11, <1>12, <1>13

\* What sec_send_to_channel encrypts
LEMMA EncryptThread ==
    ASSUME SecureTypeOK, NEW t \in Threads, Encrypt(t)
    PROVE  /\ thread' \in [Threads -> Sendings]
           /\ \A u \in Threads \ {t} : thread'[u] = thread[u]
           /\ thread'[t].at = "encrypted"
           /\ thread'[t].stream = thread[t].stream /\ thread'[t].begun = thread[t].begun
           /\ thread'[t].flags = thread[t].flags /\ thread'[t].others = thread[t].others
           /\ thread'[t].packet[1] = thread[t].packet
           /\ thread[t].room = FilledIn(thread[t].flags)
                 => thread'[t].packet[2].text = streams[thread[t].stream]
           /\ "ENCRYPT" \in thread[t].flags
                 => /\ thread'[t].packet[2].sign = keys["sign"]
                    /\ thread'[t].packet[2].state = ReadyState(rc4["encrypt"], useCount["encrypt"])
<1>1. /\ thread[t] \in Sendings /\ thread[t].at = "built" /\ thread[t].packet \in Texts
      /\ streams[thread[t].stream] \in Texts
    BY DEF Encrypt, SecureTypeOK, Sendings
<1> DEFINE state == ReadyState(rc4["encrypt"], useCount["encrypt"])
           text == IF thread[t].room = FilledIn(thread[t].flags)
                   THEN streams[thread[t].stream] ELSE Noise
           body == IF "ENCRYPT" \in thread[t].flags
                   THEN [text |-> text, sign |-> keys["sign"], state |-> state]
                   ELSE [text |-> text]
           new == [thread[t] EXCEPT !.at = "encrypted", !.packet = <<thread[t].packet, body>>]
<1>2. text \in Texts
    BY <1>1 DEF Texts
<1>3. state \in States /\ keys["sign"] \in Keys
  <2>1. rc4["encrypt"] \in States /\ useCount["encrypt"] \in Nat /\ keys["sign"] \in Keys
    BY DEF SecureTypeOK, Directions
  <2> QED
    BY <2>1, SameReady
<1> HIDE DEF text, state
<1>4. body \in [text : Texts] \cup Signed
    BY <1>2, <1>3 DEF Signed
<1>5. /\ "ENCRYPT" \in thread[t].flags => body.sign = keys["sign"] /\ body.state = state
      /\ body.text = text
    OBVIOUS
<1>6. thread' = [thread EXCEPT ![t] = new]
    BY DEF Encrypt, text, state
<1> HIDE DEF body
<1>7. /\ new \in Sendings /\ new.at = "encrypted" /\ new.packet = <<thread[t].packet, body>>
      /\ new.stream = thread[t].stream /\ new.begun = thread[t].begun
      /\ new.flags = thread[t].flags /\ new.others = thread[t].others
    BY <1>1, <1>4 DEF Sendings
<1> HIDE DEF new
<1>8. /\ thread' \in [Threads -> Sendings] /\ thread'[t] = new
      /\ \A u \in Threads \ {t} : thread'[u] = thread[u]
    BY <1>6, <1>7 DEF SecureTypeOK
<1> QED
    BY <1>5, <1>7, <1>8 DEF text, state

LEMMA SecureTypeKept == SecureTypeOK /\ [SecureNext]_secureVars => SecureTypeOK'
<1> SUFFICES ASSUME SecureTypeOK, [SecureNext]_secureVars PROVE SecureTypeOK'
    OBVIOUS
<1> DEFINE Crypt == /\ keys \in [Directions \cup {"sign"} -> Keys]
                    /\ rc4 \in [Directions -> States] /\ useCount \in [Directions -> Nat]
<1> USE DEF connectVars, modeVars, cryptVars, sendVars
<1>1. CASE ConnectInitial
  <2>1. g_encryption' \in BOOLEAN
    BY <1>1, Zenon DEF ConnectInitial, SecureTypeOK
  <2> QED
    BY <1>1, <2>1 DEF ConnectInitial, SecureTypeOK, Phases
<1>2. CASE LoseIt
    BY <1>2 DEF LoseIt, SecureTypeOK, Phases
<1>3. CASE Attach
    BY <1>3 DEF Attach, SecureTypeOK, Phases
<1>4. CASE JoinChannel
    BY <1>4 DEF JoinChannel, SecureTypeOK, Phases
<1>5. CASE EstablishKey
  <2>1. /\ server \in Servers /\ g_client_random \in Nat /\ server.random \in Nat
        /\ server.size \in KeySizes \cup {0}
    BY DEF SecureTypeOK, Servers
  <2>2. server' \in Servers
    <3> DEFINE made == sec_generate_keys(g_client_random, server.random, server.size)
    <3>1. made \in [Directions \cup {"sign"} -> Keys] /\ NewStates(made) \in [Directions -> States]
      BY <2>1, KeysMade
    <3> HIDE DEF made
    <3>2. [server EXCEPT !.keys = made, !.rc4 = NewStates(made)] \in Servers
      BY <2>1, <3>1 DEF Servers
    <3> QED
      BY <1>5, <2>1, <3>2 DEF EstablishKey, made
  <2> QED
    BY <1>5, <2>2 DEF EstablishKey, SecureTypeOK, Phases
<1>6. CASE SecReset
  <2>1. server' \in Servers /\ useCount' \in [Directions -> Nat]
    BY <1>6, NoServerIsServer DEF SecReset, NoUses
  <2> QED
    <3>1. g_encryption' \in BOOLEAN /\ licensed' \in BOOLEAN /\ crossed' \in BOOLEAN
      BY <1>6, Zenon DEF SecReset, SecureTypeOK
    <3> QED
      BY <1>6, <2>1, <3>1 DEF SecReset, SecureTypeOK, Phases
<1>7. ASSUME NEW answer \in Answers, NEW size \in KeySizes, ConnectResponse(answer, size)
      PROVE  SecureTypeOK'
  <2>1. connection \in Nat /\ size \in KeySizes \cup {0}
    BY DEF SecureTypeOK
  <2>2. sec_process_mcs_data(answer) \in BOOLEAN
    BY DEF sec_process_mcs_data
  <2>3. server' \in Servers
    BY <1>7, <2>1, <2>2, NoServerIsServer DEF ConnectResponse
  <2>4. Crypt' /\ g_client_random' \in Nat
    BY <1>7, <2>1, KeysMade, SMTT(60) DEF ConnectResponse, SecureTypeOK
  <2> QED
    BY <1>7, <2>3, <2>4 DEF ConnectResponse, SecureTypeOK, Phases
<1>8. ASSUME NEW t \in Threads, NEW packet \in Texts \ {Noise},
             NEW flags \in SUBSET {"ENCRYPT", "LICENCE"}, SecInit(t, packet, flags)
      PROVE  SecureTypeOK'
  <2>1. ASSUME NEW u \in Threads \ {t}, thread'[u].at = "built"
        PROVE  thread'[u].packet \in Texts
    BY <1>8, <2>1, SecInitThread DEF SecureTypeOK, Overtaken
  <2>2. thread'[t].packet \in Texts
    BY <1>8, SecInitThread
  <2>3. /\ thread' \in [Threads -> Sendings] /\ sent' \in Nat
        /\ streams' \in [0..(STREAM_COUNT - 1) -> Texts]
        /\ cur_stream_id' \in 0..(STREAM_COUNT - 1)
    BY <1>8, SecInitThread
  <2>4. UNCHANGED <<connectVars, licensed, cryptVars, g_client_random, server, secLock, crossed>>
    BY <1>8 DEF SecInit
  <2> QED
    BY <2>1, <2>2, <2>3, <2>4 DEF SecureTypeOK
<1>9. CASE MainSends
  <2>1. EncryptIf \in SUBSET {"ENCRYPT", "LICENCE"} /\ {"licence", "data"} \subseteq Texts \ {Noise}
    BY DEF EncryptIf, Texts, Noise
  <2> QED
    BY <1>8, <1>9, <2>1 DEF MainSends, Threads
<1>10. CASE CardAnswers
  <2>1. EncryptIf \in SUBSET {"ENCRYPT", "LICENCE"} /\ "answer" \in Texts \ {Noise}
    BY DEF EncryptIf, Texts, Noise
  <2> QED
    BY <1>8, <1>10, <2>1 DEF CardAnswers, Threads
<1>11. ASSUME NEW t \in Threads, Encrypt(t)
       PROVE  SecureTypeOK'
  <2>1. Crypt'
    BY <1>11, ClientMoves DEF Encrypt, Directions, SecureTypeOK
  <2>2. \A u \in Threads : thread'[u].at = "built" => thread'[u].packet \in Texts
    BY <1>11, EncryptThread DEF SecureTypeOK
  <2>3. thread' \in [Threads -> Sendings]
    BY <1>11, EncryptThread
  <2>4. crossed' \in BOOLEAN
    BY <1>11 DEF Encrypt
  <2> QED
    BY <1>11, <2>1, <2>2, <2>3, <2>4 DEF Encrypt, SecureTypeOK
<1>12. ASSUME NEW t \in Threads, SendOut(t)
       PROVE  SecureTypeOK'
  <2>1. server' \in Servers
    BY <1>12, ServerMoves DEF SendOut, SecureTypeOK, Directions
  <2>2. /\ thread' \in [Threads -> Sendings]
        /\ \A u \in Threads : thread'[u].at = "built" => thread'[u].packet \in Texts
    BY <1>12, IdleIsSending DEF SendOut, SecureTypeOK, Idle
  <2>3. crossed' \in BOOLEAN
    BY <1>12 DEF SendOut
  <2> QED
    BY <1>12, <2>1, <2>2, <2>3 DEF SendOut, SecureTypeOK
<1>13. ASSUME NEW kind \in Kinds, NEW encrypted \in BOOLEAN, SecRecv(kind, encrypted)
       PROVE  SecureTypeOK'
  <2>1. server' \in Servers
    BY <1>13, ServerMoves DEF SecRecv, SecureTypeOK, Directions
  <2>2. Crypt'
    BY <1>13, ClientMoves DEF SecRecv, SecureTypeOK, Directions
  <2>3. licensed' \in BOOLEAN
    BY <1>13 DEF SecRecv
  <2> QED
    BY <1>13, <2>1, <2>2, <2>3 DEF SecRecv, SecureTypeOK
<1>14. CASE UNCHANGED secureVars
    BY <1>14 DEF secureVars, SecureTypeOK
<1> QED
    BY <1>1, <1>2, <1>3, <1>4, <1>5, <1>6, <1>7, <1>9, <1>10, <1>11, <1>12, <1>13, <1>14
    DEF SecureNext

-----------------------------------------------------------------------------
(* The packets of the threads *)

Packets == Held /\ Begun /\ Headers /\ Streams /\ Written

LEMMA PacketsInit == SecureInit => Packets
<1> SUFFICES ASSUME SecureInit PROVE Packets
    OBVIOUS
<1>1. \A t \in Threads : thread[t] = Idle /\ thread[t].at = "idle" /\ thread[t].begun = 0
    BY DEF SecureInit, Idle
<1>2. secLock \notin Threads /\ connection = 1
    BY SecureConstants DEF SecureInit
<1> QED
    BY <1>1, <1>2 DEF Packets, Held, Begun, Headers, Streams, Written

\* Whatever leaves the threads alone leaves the packets right, if it is not the
\* licence of a connection on which the main thread is sending.
LEMMA ThreadsAlone ==
    ASSUME SecureTypeOK, Packets, UNCHANGED sendVars,
           \/ UNCHANGED <<connection, g_encryption, licensed>> /\ (phase' \in {"up", "lost"} \/ phase' = phase)
           \/ connection' = connection + 1
           \/ phase \notin {"up", "lost"} /\ UNCHANGED connection
           \/ /\ UNCHANGED <<phase, connection, g_encryption>> /\ thread[Main] = Idle
              /\ licensed' \in BOOLEAN /\ (licensed => licensed')
    PROVE  Packets'
<1> USE DEF sendVars
<1>1. /\ \A t \in Threads : thread[t] \in Sendings
      /\ connection \in Nat
    BY DEF SecureTypeOK
<1>2. Held' /\ Streams'
    BY DEF Packets, Held, Streams, Ahead
<1>3. Begun'
    BY <1>1 DEF Packets, Begun, Sendings
<1>4. Headers'
    BY <1>1, <1>3 DEF Packets, Headers, Begun, Sendings, RoomFor, Threads, Idle
<1>5. Written'
    BY <1>1 DEF Packets, Written, Begun, Sendings
<1> QED
    BY <1>2, <1>3, <1>4, <1>5 DEF Packets

\* A packet that is begun takes the next stream; the streams of packets that
\* fewer others have overtaken are not it.
LEMMA BegunPackets ==
    ASSUME SecureTypeOK, Packets, NEW t \in Threads, NEW packet \in Texts \ {Noise},
           NEW flags \in SUBSET {"ENCRYPT", "LICENCE"}, SecInit(t, packet, flags),
           phase = "up", t = Card => licensed, "ENCRYPT" \in flags => g_encryption
    PROVE  Packets'
<1>1. UNCHANGED <<connectVars, licensed, secLock>>
    BY DEF SecInit
<1>2. connection \in Nat /\ cur_stream_id \in 0..(STREAM_COUNT - 1)
    BY DEF SecureTypeOK
<1>3. /\ thread[t] = Idle
      /\ thread'[t].at = "built" /\ thread'[t].stream = cur_stream_id
      /\ thread'[t].begun = connection /\ thread'[t].flags = flags
      /\ thread'[t].room = RoomFor(flags) /\ thread'[t].others = 0
      /\ thread'[t].packet = packet
      /\ \A u \in Threads \ {t} : Overtaken(u)
    BY SecInitThread
<1>4. /\ cur_stream_id' = IF cur_stream_id + 1 = STREAM_COUNT THEN 0 ELSE cur_stream_id + 1
      /\ streams' = [streams EXCEPT ![cur_stream_id] = packet]
    BY SecInitThread
<1>5. \A u \in Threads : thread[u] \in Sendings
    BY DEF SecureTypeOK
<1>6. thread[t].at = "idle"
    BY <1>3 DEF Idle
<1>7. Held'
  <2>1. ASSUME NEW u \in Threads, thread'[u].at = "idle"
        PROVE  thread'[u] = Idle
    <3>1. u # t /\ Overtaken(u) /\ thread[u] = Idle
      BY <1>3, <2>1 DEF Packets, Held, Overtaken
    <3>2. thread'[u] \in Sendings
      BY SecInitThread
    <3>3. thread'[u] = [at |-> thread'[u].at, stream |-> thread'[u].stream,
                        begun |-> thread'[u].begun, flags |-> thread'[u].flags,
                        room |-> thread'[u].room, others |-> thread'[u].others,
                        packet |-> thread'[u].packet]
      BY <3>2 DEF Sendings
    <3>4. /\ thread'[u].at = "idle" /\ thread'[u].stream = 0 /\ thread'[u].begun = 0
          /\ thread'[u].flags = {} /\ thread'[u].room = 0 /\ thread'[u].others = 0
          /\ thread'[u].packet = "none"
      BY <3>1 DEF Overtaken, Idle
    <3> QED
      BY <3>3, <3>4 DEF Idle
  <2>2. ASSUME NEW u \in Threads
        PROVE  thread'[u].at = "encrypted" <=> secLock' = u
    BY <1>1, <1>3, <1>6 DEF Packets, Held, Overtaken
  <2> QED
    BY <2>1, <2>2 DEF Held
<1>8. Begun'
    BY <1>1, <1>2, <1>3 DEF Packets, Begun, Overtaken, connectVars, modeVars
<1>9. Headers'
    BY <1>1, <1>3 DEF Packets, Headers, Overtaken, RoomFor, connectVars, modeVars
<1>10. Streams'
  <2>1. ASSUME NEW u \in Threads, thread'[u].at # "idle", thread'[u].others < STREAM_COUNT
        PROVE  Ahead(u)' /\ (thread'[u].at = "built" => streams'[thread'[u].stream] = thread'[u].packet)
    <3>1. CASE u = t
      BY <1>2, <1>3, <1>4, <3>1, SecureConstants DEF Ahead, SecureTypeOK
    <3>2. CASE u # t
      <4>1. /\ thread[u].at # "idle" /\ thread'[u].others = thread[u].others + 1
            /\ thread[u].others < STREAM_COUNT /\ thread'[u].stream = thread[u].stream
        BY <1>3, <1>5, <2>1, <3>2, SecureConstants DEF Overtaken, Sendings, Idle
      <4>2. /\ Ahead(u) /\ thread[u].stream \in 0..(STREAM_COUNT - 1) /\ thread[u].others \in Nat
            /\ thread[u].at = "built" => streams[thread[u].stream] = thread[u].packet
        BY <1>5, <4>1 DEF Packets, Streams, Sendings
      <4>3. cur_stream_id # thread[u].stream
        BY <1>2, <2>1, <4>1, <4>2, SecureConstants DEF Ahead
      <4>4. Ahead(u)'
        BY <1>2, <1>4, <2>1, <4>1, <4>2, SecureConstants DEF Ahead
      <4> QED
        BY <1>3, <1>4, <3>2, <4>1, <4>2, <4>3, <4>4 DEF Overtaken, SecureTypeOK
    <3> QED
      BY <3>1, <3>2
  <2> QED
    BY <2>1 DEF Streams
<1>11. Written'
  <2>1. ASSUME NEW u \in Threads, thread'[u].at = "encrypted", thread'[u].begun = connection',
               thread'[u].others < STREAM_COUNT
        PROVE  thread'[u].packet[2].text = thread'[u].packet[1]
    <3>1. u # t /\ Overtaken(u) /\ connection' = connection
      BY <1>1, <1>3, <2>1 DEF connectVars
    <3>2. thread[u].at = "encrypted" /\ thread[u].begun = connection /\ thread[u].others < STREAM_COUNT
      <4>1. thread[u].at = "encrypted" /\ thread[u].begun = connection
        BY <2>1, <3>1 DEF Overtaken
      <4>2. thread[u] # Idle /\ thread[u].others \in Nat
        BY <1>5, <4>1 DEF Sendings, Idle
      <4> QED
        BY <2>1, <3>1, <4>1, <4>2, SecureConstants DEF Overtaken
    <3> QED
      BY <3>1, <3>2 DEF Packets, Written, Overtaken
  <2> QED
    BY <2>1 DEF Written
<1> QED
    BY <1>7, <1>8, <1>9, <1>10, <1>11 DEF Packets

LEMMA EncryptedPackets ==
    ASSUME SecureTypeOK, Packets, NEW t \in Threads, Encrypt(t)
    PROVE  Packets'
<1>1. UNCHANGED <<connectVars, licensed, streams, cur_stream_id>> /\ secLock' = t
    BY DEF Encrypt
<1>2. /\ thread[t].at = "built" /\ secLock = Nobody
      /\ \A u \in Threads : thread[u].at # "encrypted"
    BY SecureConstants DEF Encrypt, MayEncrypt, Packets, Held
<1>3. /\ \A u \in Threads \ {t} : thread'[u] = thread[u]
      /\ thread'[t].at = "encrypted"
      /\ thread'[t].stream = thread[t].stream /\ thread'[t].begun = thread[t].begun
      /\ thread'[t].flags = thread[t].flags /\ thread'[t].others = thread[t].others
      /\ thread'[t].packet[1] = thread[t].packet
      /\ thread[t].room = FilledIn(thread[t].flags)
            => thread'[t].packet[2].text = streams[thread[t].stream]
    BY EncryptThread
<1>4. connection' = connection /\ phase' = phase /\ g_encryption' = g_encryption
    BY <1>1 DEF connectVars, modeVars
<1>5. Held'
    BY <1>1, <1>2, <1>3 DEF Packets, Held
<1>6. Begun'
    BY <1>2, <1>3, <1>4 DEF Packets, Begun
<1>7. Headers'
    BY <1>1, <1>2, <1>3, <1>4 DEF Packets, Headers, RoomFor
<1>8. Streams'
    BY <1>1, <1>2, <1>3 DEF Packets, Streams, Ahead
<1>9. Written'
  <2>1. ASSUME NEW u \in Threads, thread'[u].at = "encrypted", thread'[u].begun = connection',
               thread'[u].others < STREAM_COUNT
        PROVE  thread'[u].packet[2].text = thread'[u].packet[1]
    <3>1. u = t
      BY <1>2, <1>3, <2>1
    <3>2. thread[t].room = RoomFor(thread[t].flags) /\ (t = Card => licensed)
      BY <1>2, <1>3, <1>4, <2>1, <3>1 DEF Packets, Headers
    <3>3. thread[t].room = FilledIn(thread[t].flags)
      BY <3>2 DEF RoomFor, FilledIn
    <3>4. streams[thread[t].stream] = thread[t].packet
      BY <1>2, <1>3, <2>1, <3>1 DEF Packets, Streams
    <3> QED
      BY <1>3, <3>1, <3>3, <3>4
  <2> QED
    BY <2>1 DEF Written
<1> QED
    BY <1>5, <1>6, <1>7, <1>8, <1>9 DEF Packets

LEMMA SentPackets ==
    ASSUME SecureTypeOK, Packets, NEW t \in Threads, SendOut(t)
    PROVE  Packets'
<1>1. /\ UNCHANGED <<connectVars, licensed, streams, cur_stream_id>> /\ secLock' = Nobody
      /\ thread[t].at = "encrypted"
      /\ thread' = [thread EXCEPT ![t] = Idle]
    BY DEF SendOut
<1>2. /\ thread'[t] = Idle /\ Idle.at = "idle" /\ Idle.begun = 0
      /\ \A u \in Threads \ {t} : thread'[u] = thread[u] /\ thread[u].at # "encrypted"
    BY <1>1 DEF SecureTypeOK, Idle, Packets, Held
<1>3. connection' = connection /\ phase' = phase /\ g_encryption' = g_encryption
    BY <1>1 DEF connectVars, modeVars
<1>4. Held'
    BY <1>1, <1>2, SecureConstants DEF Packets, Held
<1>5. Begun'
    BY <1>2, <1>3 DEF Packets, Begun, SecureTypeOK
<1>6. Headers'
    BY <1>1, <1>2, <1>3 DEF Packets, Headers, RoomFor
<1>7. Streams'
    BY <1>1, <1>2 DEF Packets, Streams, Ahead
<1>8. Written'
    BY <1>2, <1>3 DEF Packets, Written
<1> QED
    BY <1>4, <1>5, <1>6, <1>7, <1>8 DEF Packets

LEMMA PacketsKept == SecureTypeOK /\ Packets /\ [SecureNext]_secureVars => Packets'
<1> SUFFICES ASSUME SecureTypeOK, Packets, [SecureNext]_secureVars PROVE Packets'
    OBVIOUS
<1> USE DEF connectVars, modeVars
<1>1. CASE ConnectInitial
    BY <1>1, ThreadsAlone DEF ConnectInitial
<1>2. CASE LoseIt
    BY <1>2, ThreadsAlone DEF LoseIt
<1>3. CASE Attach
    BY <1>3, ThreadsAlone DEF Attach
<1>4. CASE JoinChannel
    BY <1>4, ThreadsAlone DEF JoinChannel
<1>5. CASE EstablishKey
    BY <1>5, ThreadsAlone DEF EstablishKey
<1>6. CASE SecReset
    BY <1>6, ThreadsAlone DEF SecReset
<1>7. CASE \E answer \in Answers, size \in KeySizes : ConnectResponse(answer, size)
    BY <1>7, ThreadsAlone DEF ConnectResponse
<1>8. {"licence", "data", "answer"} \subseteq Texts \ {Noise}
    BY DEF Texts, Noise
<1>9. /\ {"LICENCE"} \in SUBSET {"ENCRYPT", "LICENCE"} /\ EncryptIf \in SUBSET {"ENCRYPT", "LICENCE"}
      /\ "ENCRYPT" \in EncryptIf => g_encryption
      /\ "ENCRYPT" \notin {"LICENCE"}
    BY DEF EncryptIf
<1>10. CASE MainSends
    BY <1>8, <1>9, <1>10, BegunPackets, SecureConstants DEF MainSends, Threads
<1>11. CASE CardAnswers
    BY <1>8, <1>9, <1>11, BegunPackets DEF CardAnswers, Threads
<1>12. CASE \E t \in Threads : Encrypt(t) \/ SendOut(t)
    BY <1>12, EncryptedPackets, SentPackets
<1>13. CASE \E kind \in Kinds, encrypted \in BOOLEAN : SecRecv(kind, encrypted)
    BY <1>13, ThreadsAlone DEF SecRecv, SecureTypeOK
<1>14. CASE UNCHANGED secureVars
    BY <1>14, ThreadsAlone DEF secureVars
<1> QED
    BY <1>1, <1>2, <1>3, <1>4, <1>5, <1>6, <1>7, <1>10, <1>11, <1>12, <1>13, <1>14
    DEF SecureNext

-----------------------------------------------------------------------------
(* The keys of both sides *)

LEMMA NotYetUpKept == SecureTypeOK /\ Packets /\ NotYetUp /\ [SecureNext]_secureVars => NotYetUp'
<1> SUFFICES ASSUME SecureTypeOK, Packets, NotYetUp, [SecureNext]_secureVars, ~crossed'
             PROVE  /\ phase' \in {"off", "asked"} => useCount' = NoUses
                    /\ phase' \in {"attach", "join"} /\ server'.good =>
                          /\ useCount' = NoUses /\ server'.uses = NoUses
                          /\ g_client_random' = connection' /\ server'.random = connection'
                          /\ keys' = sec_generate_keys(connection', connection', server'.size)
                          /\ rc4' = NewStates(keys')
    BY DEF NotYetUp
<1> USE DEF NotYetUp, connectVars, modeVars, cryptVars
<1>1. CASE ConnectInitial
    BY <1>1 DEF ConnectInitial
<1>2. CASE LoseIt
    BY <1>2 DEF LoseIt
<1>3. CASE Attach
    BY <1>3 DEF Attach
<1>4. CASE JoinChannel
    BY <1>4 DEF JoinChannel
<1>5. CASE EstablishKey
    BY <1>5 DEF EstablishKey
<1>6. CASE SecReset
    BY <1>6 DEF SecReset
<1>7. ASSUME NEW answer \in Answers, NEW size \in KeySizes, ConnectResponse(answer, size)
      PROVE  /\ phase' = "attach"
             /\ server'.good =>
                /\ useCount' = NoUses /\ server'.uses = NoUses
                /\ g_client_random' = connection' /\ server'.random = connection'
                /\ keys' = sec_generate_keys(connection', connection', server'.size)
                /\ rc4' = NewStates(keys')
  <2>1. phase = "asked" /\ phase' = "attach" /\ ~crossed /\ UNCHANGED <<useCount, connection>>
    BY <1>7 DEF ConnectResponse
  <2>2. /\ server'.random = connection /\ server'.size = size /\ server'.uses = NoUses
        /\ server'.good = sec_process_mcs_data(answer)
    BY <1>7 DEF ConnectResponse, NoServer
  <2>3. sec_process_mcs_data(answer) =>
           /\ keys' = sec_generate_keys(connection, connection, size)
           /\ rc4' = NewStates(keys') /\ g_client_random' = connection
    BY <1>7 DEF ConnectResponse
  <2> QED
    BY <2>1, <2>2, <2>3
<1>8. ASSUME NEW t \in Threads, NEW packet, NEW flags, SecInit(t, packet, flags)
      PROVE  UNCHANGED <<phase, crossed, connection, cryptVars, g_client_random, server>>
    BY <1>8 DEF SecInit
<1>9. CASE MainSends \/ CardAnswers
    BY <1>8, <1>9 DEF MainSends, CardAnswers, Threads
<1>10. ASSUME NEW t \in Threads, Encrypt(t)
       PROVE  phase' \in {"up", "lost"}
    BY <1>10 DEF Encrypt, Packets, Begun
<1>11. ASSUME NEW t \in Threads, SendOut(t)
       PROVE  \/ UNCHANGED <<phase, crossed, connection, cryptVars, g_client_random, server>>
              \/ phase' \in {"up", "lost"}
              \/ phase' = "off" /\ ~crossed /\ UNCHANGED <<phase, useCount>>
  <2>1. CASE thread[t].begun = connection
    BY <1>11, <2>1 DEF SendOut, Packets, Begun
  <2>2. CASE thread[t].begun # connection
    BY <1>11, <2>2 DEF SendOut
  <2> QED
    BY <2>1, <2>2
<1>12. CASE \E kind \in Kinds, encrypted \in BOOLEAN : SecRecv(kind, encrypted)
    BY <1>12 DEF SecRecv
<1>13. CASE UNCHANGED secureVars
    BY <1>13 DEF secureVars
<1> QED
    BY <1>1, <1>2, <1>3, <1>4, <1>5, <1>6, <1>7, <1>9, <1>10, <1>11, <1>12, <1>13
    DEF SecureNext

\* The server got the client's random, and makes the keys the client has.
LEMMA KeysAgree ==
    ASSUME SecureTypeOK, Packets, NotYetUp, EstablishKey
    PROVE  Agreed'
<1> SUFFICES ASSUME ~crossed, g_encryption, server.good
             PROVE  /\ keys' = server'.keys /\ rc4' = server'.rc4 /\ useCount' = server'.uses
                    /\ \A t \in Threads : ~InFlight(t)'
    BY DEF Agreed, EstablishKey, connectVars, modeVars, SecureTypeOK, Servers
<1>1. phase = "join" /\ UNCHANGED <<keys, rc4, useCount, thread, connection>>
    BY DEF EstablishKey, cryptVars, sendVars, connectVars
<1>2. /\ useCount = NoUses /\ server.uses = NoUses
      /\ g_client_random = connection /\ server.random = connection
      /\ keys = sec_generate_keys(connection, connection, server.size)
      /\ rc4 = NewStates(keys)
    BY <1>1 DEF NotYetUp
<1>3. server' = [server EXCEPT !.keys = keys, !.rc4 = rc4]
    BY <1>2 DEF EstablishKey
<1>4. server'.keys = keys /\ server'.rc4 = rc4 /\ server'.uses = server.uses
    BY <1>3 DEF SecureTypeOK, Servers
<1>5. \A t \in Threads : ~InFlight(t)'
    BY <1>1 DEF Packets, Begun, InFlight
<1> QED
    BY <1>1, <1>2, <1>4, <1>5

\* A packet that is encrypted is one step ahead of the server.
LEMMA OneAhead ==
    ASSUME SecureTypeOK, Packets, Agreed, NEW t \in Threads, Encrypt(t)
    PROVE  Agreed'
<1> SUFFICES ASSUME phase = "up", ~crossed, thread[t].begun = connection, g_encryption, server.good
             PROVE  Agreed'
    BY DEF Agreed, Encrypt, connectVars, modeVars
<1>1. /\ UNCHANGED <<phase, g_encryption, connection, server>>
      /\ thread[t].at = "built" /\ \A u \in Threads : thread[u].at # "encrypted"
    BY SecureConstants DEF Encrypt, MayEncrypt, Packets, Held, connectVars, modeVars
<1>2. /\ \A u \in Threads \ {t} : thread'[u] = thread[u]
      /\ thread'[t].at = "encrypted"
      /\ thread'[t].begun = thread[t].begun /\ thread'[t].flags = thread[t].flags
      /\ "ENCRYPT" \in thread[t].flags
            => /\ thread'[t].packet[2].sign = keys["sign"]
               /\ thread'[t].packet[2].state = ReadyState(rc4["encrypt"], useCount["encrypt"])
    BY EncryptThread
<1>3. /\ \A u \in Threads : ~InFlight(u)
      /\ \A u \in Threads \ {t} : ~InFlight(u)'
      /\ InFlight(t)' <=> "ENCRYPT" \in thread[t].flags
    BY <1>1, <1>2 DEF InFlight
<1>4. /\ keys["sign"] = server.keys["sign"]
      /\ rc4["decrypt"] = server.rc4["decrypt"] /\ useCount["decrypt"] = server.uses["decrypt"]
      /\ rc4["encrypt"] = server.rc4["encrypt"] /\ useCount["encrypt"] = server.uses["encrypt"]
    BY <1>3 DEF Agreed
<1>5. CASE "ENCRYPT" \notin thread[t].flags
  <2>1. UNCHANGED cryptVars
    BY <1>5 DEF Encrypt
  <2> QED
    BY <1>1, <1>3, <1>4, <1>5, <2>1 DEF Agreed, cryptVars
<1>6. CASE "ENCRYPT" \in thread[t].flags
  <2>1. "encrypt" \in Directions /\ "decrypt" \in Directions /\ "encrypt" # "decrypt"
    BY DEF Directions
  <2>2. Crypted("encrypt")
    BY <1>6 DEF Encrypt
  <2>3. /\ rc4' = [rc4 EXCEPT !["encrypt"] = Advanced(ReadyState(rc4["encrypt"], useCount["encrypt"]))]
        /\ useCount' = [useCount EXCEPT !["encrypt"] = NextUse(useCount["encrypt"])]
        /\ keys'["sign"] = keys["sign"]
    BY <2>1, <2>2, ClientMoves
  <2>4. ServerReady("encrypt") = ReadyState(rc4["encrypt"], useCount["encrypt"])
    BY <1>4, <2>1, ServerReadyIs
  <2>5. ServerReady("encrypt")' = ServerReady("encrypt")
    BY <1>1 DEF ServerReady
  <2>6. /\ rc4'["encrypt"] = Advanced(ServerReady("encrypt"))
        /\ useCount'["encrypt"] = NextUse(server.uses["encrypt"])
        /\ rc4'["decrypt"] = rc4["decrypt"] /\ useCount'["decrypt"] = useCount["decrypt"]
    BY <1>4, <2>1, <2>3, <2>4 DEF SecureTypeOK
  <2> QED
    BY <1>1, <1>2, <1>3, <1>4, <1>6, <2>3, <2>4, <2>5, <2>6 DEF Agreed
<1> QED
    BY <1>5, <1>6

\* When it is sent, the server catches up, and reads it.
LEMMA CaughtUp ==
    ASSUME SecureTypeOK, Packets, Agreed, NEW t \in Threads, SendOut(t)
    PROVE  Agreed' /\ heard'.is = heard'.meant
<1>1. /\ UNCHANGED <<phase, g_encryption, connection, keys, rc4, useCount>>
      /\ thread[t].at = "encrypted" /\ thread' = [thread EXCEPT ![t] = Idle]
    BY DEF SendOut, connectVars, modeVars, cryptVars
<1>2. /\ thread'[t] = Idle /\ Idle.at = "idle"
      /\ \A u \in Threads \ {t} : thread'[u] = thread[u] /\ thread[u].at # "encrypted"
    BY <1>1 DEF SecureTypeOK, Idle, Packets, Held
<1>3. \A u \in Threads : ~InFlight(u)'
    BY <1>2 DEF InFlight
<1>4. \A u \in Threads \ {t} : ~InFlight(u)
    BY <1>2 DEF InFlight
<1>5. "encrypt" \in Directions /\ "decrypt" \in Directions /\ "encrypt" # "decrypt"
    BY DEF Directions
<1>6. ASSUME phase = "up", ~crossed', g_encryption, server'.good
      PROVE  /\ keys'["sign"] = server'.keys["sign"]
             /\ rc4'["decrypt"] = server'.rc4["decrypt"]
             /\ useCount'["decrypt"] = server'.uses["decrypt"]
             /\ rc4'["encrypt"] = server'.rc4["encrypt"]
             /\ useCount'["encrypt"] = server'.uses["encrypt"]
  <2>1. ~crossed /\ thread[t].begun = connection
    BY <1>6 DEF SendOut
  <2>2. InFlight(t) <=> "ENCRYPT" \in thread[t].flags
    BY <1>1, <2>1 DEF InFlight
  <2>3. CASE "ENCRYPT" \notin thread[t].flags
    <3>1. server' = server
      BY <2>3 DEF SendOut
    <3> QED
      BY <1>1, <1>4, <1>6, <2>1, <2>2, <2>3, <3>1 DEF Agreed
  <2>4. CASE "ENCRYPT" \in thread[t].flags
    <3>1. server' = ServerCrypted("encrypt")
      BY <1>6, <2>4 DEF SendOut
    <3>2. /\ server'.rc4 = [server.rc4 EXCEPT !["encrypt"] = Advanced(ServerReady("encrypt"))]
          /\ server'.uses = [server.uses EXCEPT !["encrypt"] = NextUse(server.uses["encrypt"])]
          /\ server'.keys = server.keys /\ server'.good = server.good
      BY <1>5, <3>1, ServerMoves
    <3>3. /\ keys["sign"] = server.keys["sign"]
          /\ rc4["decrypt"] = server.rc4["decrypt"] /\ useCount["decrypt"] = server.uses["decrypt"]
          /\ rc4["encrypt"] = Advanced(ServerReady("encrypt"))
          /\ useCount["encrypt"] = NextUse(server.uses["encrypt"])
      BY <1>6, <2>1, <2>2, <2>4, <3>2 DEF Agreed
    <3>4. server.rc4 \in [Directions -> States] /\ server.uses \in [Directions -> Nat]
      BY DEF SecureTypeOK, Servers
    <3> QED
      BY <1>1, <1>5, <3>2, <3>3, <3>4
  <2> QED
    BY <2>3, <2>4
<1>7. Agreed'
    BY <1>1, <1>3, <1>6 DEF Agreed
<1>8. heard'.is = heard'.meant
  <2> DEFINE counts == /\ phase \notin {"lost", "off"} /\ thread[t].begun = connection
                       /\ ~crossed /\ thread[t].others < STREAM_COUNT /\ (g_encryption => server.good)
  <2>1. CASE ~counts
    <3>1. heard' = NothingHeard
      BY <2>1 DEF SendOut
    <3> QED
      BY <3>1 DEF NothingHeard
  <2>2. CASE counts
    <3>1. heard' = [is |-> ServerReads(thread[t].packet[2], thread[t].flags),
                    meant |-> thread[t].packet[1]]
      BY <2>2 DEF SendOut
    <3>2. thread[t].packet[2].text = thread[t].packet[1]
      BY <1>1, <2>2 DEF Packets, Written
    <3>3. phase = "up" /\ ("ENCRYPT" \in thread[t].flags => g_encryption)
      BY <1>1, <2>2 DEF Packets, Begun
    <3>4. "ENCRYPT" \in thread[t].flags =>
             /\ thread[t].packet[2].sign = server.keys["sign"]
             /\ thread[t].packet[2].state = ServerReady("encrypt")
      BY <1>1, <2>2, <3>3 DEF Agreed, InFlight
    <3> QED
      BY <3>1, <3>2, <3>4 DEF ServerReads
  <2> QED
    BY <2>1, <2>2
<1> QED
    BY <1>7, <1>8

\* A packet of the server takes both to the same next state.
LEMMA ReceivedAlike ==
    ASSUME SecureTypeOK, Packets, Agreed, NEW kind \in Kinds, NEW encrypted \in BOOLEAN,
           SecRecv(kind, encrypted)
    PROVE  Agreed' /\ heard'.is = heard'.meant
<1>1. /\ phase = "up" /\ UNCHANGED <<phase, g_encryption, connection, thread, crossed>>
      /\ encrypted => g_encryption
      /\ (kind = "redirect" /\ g_encryption) => encrypted
    BY DEF SecRecv, connectVars, modeVars, sendVars
<1>2. Decrypts(kind, encrypted) <=> encrypted
    BY <1>1 DEF Decrypts
<1>3. \A t \in Threads : InFlight(t)' <=> InFlight(t)
    BY <1>1 DEF InFlight
<1>4. "encrypt" \in Directions /\ "decrypt" \in Directions /\ "encrypt" # "decrypt"
    BY DEF Directions
<1>5. ASSUME ~encrypted
      PROVE  UNCHANGED <<server, keys, rc4, useCount>>
    BY <1>2, <1>5 DEF SecRecv, cryptVars
<1>6. ASSUME encrypted
      PROVE  /\ rc4' = [rc4 EXCEPT !["decrypt"] = Advanced(ReadyState(rc4["decrypt"], useCount["decrypt"]))]
             /\ useCount' = [useCount EXCEPT !["decrypt"] = NextUse(useCount["decrypt"])]
             /\ keys'["sign"] = keys["sign"]
             /\ server'.rc4 = [server.rc4 EXCEPT !["decrypt"] = Advanced(ServerReady("decrypt"))]
             /\ server'.uses = [server.uses EXCEPT !["decrypt"] = NextUse(server.uses["decrypt"])]
             /\ server'.keys = server.keys /\ server'.good = server.good
             /\ server.rc4 \in [Directions -> States] /\ server.uses \in [Directions -> Nat]
             /\ ServerReady("decrypt") = ReadyState(server.rc4["decrypt"], server.uses["decrypt"])
             /\ ServerReady("encrypt")' = ServerReady("encrypt")
  <2>1. server' = ServerCrypted("decrypt") /\ Crypted("decrypt")
    BY <1>2, <1>6 DEF SecRecv
  <2>2. /\ server'.rc4 = [server.rc4 EXCEPT !["decrypt"] = Advanced(ServerReady("decrypt"))]
        /\ server'.uses = [server.uses EXCEPT !["decrypt"] = NextUse(server.uses["decrypt"])]
        /\ server'.keys = server.keys /\ server'.good = server.good
    BY <1>4, <2>1, ServerMoves
  <2>3. /\ rc4' = [rc4 EXCEPT !["decrypt"] = Advanced(ReadyState(rc4["decrypt"], useCount["decrypt"]))]
        /\ useCount' = [useCount EXCEPT !["decrypt"] = NextUse(useCount["decrypt"])]
        /\ keys'["sign"] = keys["sign"]
    BY <1>4, <2>1, ClientMoves
  <2>4. server.rc4 \in [Directions -> States] /\ server.uses \in [Directions -> Nat]
    BY DEF SecureTypeOK, Servers
  <2>5. ServerReady("decrypt") = ReadyState(server.rc4["decrypt"], server.uses["decrypt"])
    BY <1>4, ServerReadyIs
  <2>6. server'.rc4["encrypt"] = server.rc4["encrypt"] /\ server'.uses["encrypt"] = server.uses["encrypt"]
    BY <1>4, <2>2, <2>4
  <2>7. ServerReady("encrypt")' = ServerReady("encrypt")
    BY <2>6 DEF ServerReady
  <2> QED
    BY <2>2, <2>3, <2>4, <2>5, <2>7
<1>7. ASSUME ~crossed, g_encryption, server.good
      PROVE  /\ keys["sign"] = server.keys["sign"]
             /\ rc4["decrypt"] = server.rc4["decrypt"] /\ useCount["decrypt"] = server.uses["decrypt"]
    BY <1>1, <1>7 DEF Agreed
<1>8. Agreed'
  <2>1. CASE ~encrypted
    <3>1. ServerReady("encrypt")' = ServerReady("encrypt")
      BY <1>5, <2>1 DEF ServerReady
    <3> QED
      BY <1>1, <1>3, <1>5, <2>1, <3>1 DEF Agreed
  <2>2. CASE encrypted
    <3>1. SUFFICES ASSUME ~crossed, g_encryption, server.good PROVE Agreed'
      BY <1>1, <1>6, <2>2 DEF Agreed
    <3>2. /\ keys'["sign"] = server'.keys["sign"]
          /\ rc4'["decrypt"] = server'.rc4["decrypt"] /\ useCount'["decrypt"] = server'.uses["decrypt"]
      BY <1>4, <1>6, <1>7, <2>2, <3>1 DEF SecureTypeOK
    <3>3. /\ rc4'["encrypt"] = rc4["encrypt"] /\ useCount'["encrypt"] = useCount["encrypt"]
          /\ server'.rc4["encrypt"] = server.rc4["encrypt"]
          /\ server'.uses["encrypt"] = server.uses["encrypt"]
      BY <1>4, <1>6, <2>2 DEF SecureTypeOK
    <3> QED
      BY <1>1, <1>3, <1>6, <2>2, <3>1, <3>2, <3>3 DEF Agreed
  <2> QED
    BY <2>1, <2>2
<1>9. heard'.is = heard'.meant
  <2>1. CASE crossed \/ (g_encryption /\ ~server.good)
    <3>1. heard' = NothingHeard
      BY <2>1 DEF SecRecv
    <3> QED
      BY <3>1 DEF NothingHeard
  <2>2. CASE ~(crossed \/ (g_encryption /\ ~server.good))
    <3>1. encrypted => ReadyState(rc4["decrypt"], useCount["decrypt"]) = ServerReady("decrypt")
      BY <1>1, <1>6, <1>7, <2>2
    <3>2. Decrypts(kind, encrypted) = encrypted
      BY <1>2 DEF Decrypts, SecureTypeOK
    <3>3. heard' = [is |-> kind, meant |-> kind]
      BY <2>2, <3>1, <3>2 DEF SecRecv
    <3> QED
      BY <3>3
  <2> QED
    BY <2>1, <2>2
<1> QED
    BY <1>8, <1>9

LEMMA AgreedKept ==
    SecureTypeOK /\ Packets /\ NotYetUp /\ Agreed /\ ReadAsWritten /\ [SecureNext]_secureVars
        => Agreed' /\ ReadAsWritten'
<1> SUFFICES ASSUME SecureTypeOK, Packets, NotYetUp, Agreed, ReadAsWritten,
                    [SecureNext]_secureVars
             PROVE  Agreed' /\ ReadAsWritten'
    OBVIOUS
<1>1. NothingHeard.is = NothingHeard.meant
    BY DEF NothingHeard
<1>2. CASE \/ ConnectInitial \/ LoseIt \/ Attach \/ JoinChannel \/ SecReset
           \/ \E answer \in Answers, size \in KeySizes : ConnectResponse(answer, size)
  <2>1. phase' # "up" /\ heard' = NothingHeard
    BY <1>2 DEF ConnectInitial, LoseIt, Attach, JoinChannel, SecReset, ConnectResponse, connectVars
  <2> QED
    BY <1>1, <2>1 DEF Agreed, ReadAsWritten
<1>3. CASE EstablishKey
    BY <1>1, <1>3, KeysAgree DEF EstablishKey, ReadAsWritten
<1>4. ASSUME NEW t \in Threads, NEW packet \in Texts \ {Noise},
             NEW flags \in SUBSET {"ENCRYPT", "LICENCE"}, SecInit(t, packet, flags)
      PROVE  Agreed' /\ ReadAsWritten'
  <2>1. /\ UNCHANGED <<phase, crossed, g_encryption, connection, keys, rc4, useCount, server>>
        /\ heard' = NothingHeard
    BY <1>4 DEF SecInit, connectVars, modeVars, cryptVars
  <2>2. thread[t] = Idle /\ thread'[t].at = "built" /\ \A u \in Threads \ {t} : Overtaken(u)
    BY <1>4, SecInitThread
  <2>3. ASSUME NEW u \in Threads
        PROVE  /\ InFlight(u)' <=> InFlight(u)
               /\ InFlight(u) => thread'[u].packet = thread[u].packet
    <3>1. CASE u = t
      BY <2>1, <2>2, <3>1 DEF InFlight, Idle
    <3>2. CASE u # t
      BY <2>1, <2>2, <3>2 DEF InFlight, Overtaken
    <3> QED
      BY <3>1, <3>2
  <2>4. ASSUME NEW u \in Threads, InFlight(u) PROVE thread'[u].packet = thread[u].packet
    BY <2>3, <2>4
  <2>5. ServerReady("encrypt")' = ServerReady("encrypt")
    BY <2>1 DEF ServerReady
  <2> QED
    BY <1>1, <2>1, <2>3, <2>4, <2>5 DEF Agreed, ReadAsWritten
<1>5. /\ EncryptIf \in SUBSET {"ENCRYPT", "LICENCE"} /\ {"LICENCE"} \in SUBSET {"ENCRYPT", "LICENCE"}
      /\ {"licence", "data", "answer"} \subseteq Texts \ {Noise}
    BY DEF EncryptIf, Texts, Noise
<1>6. CASE MainSends
    BY <1>4, <1>5, <1>6 DEF MainSends, Threads
<1>7. CASE CardAnswers
    BY <1>4, <1>5, <1>7 DEF CardAnswers, Threads
<1>8. CASE \E t \in Threads : Encrypt(t) \/ SendOut(t)
    BY <1>1, <1>8, OneAhead, CaughtUp DEF Encrypt, ReadAsWritten
<1>9. CASE \E kind \in Kinds, encrypted \in BOOLEAN : SecRecv(kind, encrypted)
    BY <1>9, ReceivedAlike DEF ReadAsWritten
<1>10. CASE UNCHANGED secureVars
  <2>1. UNCHANGED <<phase, crossed, g_encryption, connection, keys, rc4, useCount, server, thread, heard>>
    BY <1>10 DEF secureVars, connectVars, modeVars, cryptVars, sendVars
  <2> QED
    BY <2>1 DEF Agreed, ReadAsWritten, InFlight, ServerReady
<1> QED
    BY <1>2, <1>3, <1>6, <1>7, <1>8, <1>9, <1>10 DEF SecureNext

-----------------------------------------------------------------------------
(* The theorems *)

SameStreams == SecureTypeOK /\ Packets /\ NotYetUp /\ Agreed /\ ReadAsWritten

LEMMA SameStreamsInductive == SecureSpec => []SameStreams
<1>1. SecureInit => SameStreams
  <2>1. SecureInit => NotYetUp /\ Agreed /\ ReadAsWritten
    BY DEF SecureInit, NotYetUp, Agreed, ReadAsWritten, NothingHeard
  <2> QED
    BY <2>1, SecureTypeInit, PacketsInit DEF SameStreams
<1>2. SameStreams /\ [SecureNext]_secureVars => SameStreams'
    BY SecureTypeKept, PacketsKept, NotYetUpKept, AgreedKept DEF SameStreams
<1> QED
    BY <1>1, <1>2, PTL DEF SecureSpec

\* Server and client read what the other side wrote, for any number of packets
\* between two changes of keys, of streams, of channels and of connections.
THEOREM StreamsStayTogether == SecureSpec => []ReadAsWritten
<1>1. SameStreams => ReadAsWritten
    BY DEF SameStreams
<1> QED
    BY <1>1, SameStreamsInductive, PTL

\* No thread writes into the packet another is sending while fewer packets than
\* there are streams were begun since, and what one encrypts is what it wrote.
THEOREM PacketsWhole == SecureSpec => []Packets
<1>1. SameStreams => Packets
    BY DEF SameStreams
<1> QED
    BY <1>1, SameStreamsInductive, PTL

-----------------------------------------------------------------------------
(* Virtual channels: what is put together *)

Bytes == Nat \X BOOLEAN
Buffers == [data : Seq(Bytes), size : Nat, p : Nat]
Arrivals == [message : Seq(Bytes), done : Nat]

ChannelsTypeOK ==
    /\ buffers \in [ChannelIds -> Buffers]
    /\ arriving \in [ChannelIds -> Arrivals]

\* What has come of a message is at the front of the buffer, which has room for
\* the rest.  Between messages the buffer may be in any state.
Holds(buffer, message, done) ==
    /\ buffer.p = done /\ done <= Len(buffer.data) /\ Len(message) <= buffer.size
    /\ \A i \in 1..done : buffer.data[i] = message[i]

Gathered ==
    \A c \in ChannelIds :
        /\ arriving[c].done <= Len(arriving[c].message)
        /\ arriving[c].done > 0 => Holds(buffers[c], arriving[c].message, arriving[c].done)

LEMMA MessagesAre ==
    ASSUME NEW message \in Messages
    PROVE  message \in Seq(Bytes) /\ Len(message) \in MessageLengths
<1>1. PICK length \in MessageLengths, colour \in BOOLEAN : message = Message(length, colour)
    BY DEF Messages
<1>2. length \in Nat
    BY ChannelsAssumption
<1>3. message = [i \in 1..length |-> <<i, colour>>]
    BY <1>1 DEF Message
<1>4. message \in [1..length -> Bytes]
    BY <1>2, <1>3 DEF Bytes
<1> QED
    BY <1>2, <1>4, SeqOfLength

\* A fragment that fits goes behind what there is.
LEMMA AddFragmentIs ==
    ASSUME NEW buffer \in Buffers, NEW fragment \in Seq(Bytes),
           buffer.p <= Len(buffer.data), buffer.p + Len(fragment) <= buffer.size
    PROVE  /\ AddFragment(buffer, fragment) \in Buffers
           /\ AddFragment(buffer, fragment).size = buffer.size
           /\ AddFragment(buffer, fragment).p = buffer.p + Len(fragment)
           /\ AddFragment(buffer, fragment).p <= Len(AddFragment(buffer, fragment).data)
           /\ \A i \in 1..buffer.p : AddFragment(buffer, fragment).data[i] = buffer.data[i]
           /\ \A i \in 1..Len(fragment) :
                 AddFragment(buffer, fragment).data[buffer.p + i] = fragment[i]
<1> DEFINE p == buffer.p
           data == buffer.data
           n == Len(fragment)
           before == SubSeq(data, 1, p)
           new == SubSeq(fragment, 1, n)
           behind == SubSeq(data, p + n + 1, Len(data))
           all == before \o new \o behind
<1>1. /\ p \in Nat /\ buffer.size \in Nat /\ n \in Nat /\ data \in Seq(Bytes)
      /\ Len(data) \in Nat /\ p <= Len(data) /\ p + n <= buffer.size
  <2>1. p \in Nat /\ buffer.size \in Nat /\ data \in Seq(Bytes)
    BY DEF Buffers
  <2> QED
    BY <2>1, LenProperties
<1>2. Least(Len(fragment), buffer.size - buffer.p) = n
    BY <1>1 DEF Least
<1>3. AddFragment(buffer, fragment) = [buffer EXCEPT !.data = all, !.p = p + n]
    BY <1>2 DEF AddFragment
<1> HIDE DEF p, data, n
<1>4. before \in Seq(Bytes) /\ Len(before) = p /\ \A i \in 1..p : before[i] = data[i]
    BY <1>1, FrontIs
<1>5. new \in Seq(Bytes) /\ Len(new) = n /\ \A i \in 1..n : new[i] = fragment[i]
  <2>1. n <= Len(fragment)
    BY <1>1 DEF n
  <2> QED
    BY <1>1, <2>1, FrontIs
<1>6. behind \in Seq(Bytes)
  <2>1. p + n + 1 \in Nat \ {0} /\ Len(data) \in 0..Len(data)
    BY <1>1
  <2> QED
    BY <1>1, <2>1, SubSeqType
<1> HIDE DEF before, new, behind
<1> DEFINE front == before \o new
<1>7. /\ front \in Seq(Bytes) /\ Len(front) = p + n
      /\ \A i \in 1..p : front[i] = before[i]
      /\ \A i \in 1..n : front[p + i] = new[i]
  <2>1. before \in Seq(Bytes) /\ new \in Seq(Bytes)
    BY <1>4, <1>5
  <2>2. /\ front \in Seq(Bytes) /\ Len(front) = Len(before) + Len(new)
        /\ \A i \in 1..Len(before) : front[i] = before[i]
        /\ \A i \in 1..Len(new) : front[Len(before) + i] = new[i]
    BY <2>1, BehindIs
  <2> HIDE DEF front
  <2> QED
    BY <1>4, <1>5, <2>2
<1> HIDE DEF front
<1>8. /\ all \in Seq(Bytes) /\ Len(all) = p + n + Len(behind) /\ Len(behind) \in Nat
      /\ \A i \in 1..(p + n) : all[i] = front[i]
  <2>1. /\ front \o behind \in Seq(Bytes) /\ Len(front \o behind) = Len(front) + Len(behind)
        /\ \A i \in 1..Len(front) : (front \o behind)[i] = front[i]
    <3>1. front \in Seq(Bytes)
      BY <1>7
    <3> QED
      BY <1>6, <3>1, BehindIs
  <2>2. Len(behind) \in Nat
    BY <1>6, LenProperties
  <2> QED
    BY <1>7, <2>1, <2>2 DEF front
<1> HIDE DEF all
<1>9. \A i \in 1..p : all[i] = data[i]
  <2>1. \A i \in 1..p : i \in 1..(p + n)
    BY <1>1
  <2> QED
    BY <1>4, <1>7, <1>8, <2>1
<1>10. \A i \in 1..n : all[p + i] = fragment[i]
  <2>1. \A i \in 1..n : p + i \in 1..(p + n)
    BY <1>1
  <2> QED
    BY <1>5, <1>7, <1>8, <2>1
<1>11. p + n <= Len(all) /\ p + n \in Nat
    BY <1>1, <1>8
<1>12. /\ AddFragment(buffer, fragment).data = all
       /\ AddFragment(buffer, fragment).p = p + n
       /\ AddFragment(buffer, fragment).size = buffer.size
       /\ AddFragment(buffer, fragment) \in Buffers
    BY <1>3, <1>8, <1>11 DEF Buffers
<1> QED
    BY <1>9, <1>10, <1>11, <1>12 DEF p, data, n

LEMMA ReceiveKept ==
    ASSUME ChannelsTypeOK, Gathered, NEW c \in ChannelIds, Receive(c)
    PROVE  ChannelsTypeOK' /\ Gathered' /\ MessagesWhole'
<1> DEFINE message == arriving[c].message
           from == arriving[c].done
           upto == Least(Len(message), from + CHANNEL_CHUNK_LENGTH)
           fragment == SubSeq(message, from + 1, upto)
           first == from = 0
           last == upto = Len(message)
           base == IF first THEN Restart(buffers[c], Len(message)) ELSE buffers[c]
           buffer == AddFragment(base, fragment)
<1>1. /\ from < Len(message)
      /\ arriving' = [arriving EXCEPT ![c] = IF last THEN Nothing
                                             ELSE [message |-> message, done |-> upto]]
      /\ (first /\ last) => passedOn' = [is |-> fragment, meant |-> message] /\ buffers' = buffers
      /\ ~(first /\ last) =>
            buffers' = [buffers EXCEPT ![c] = IF last THEN [buffer EXCEPT !.p = 0] ELSE buffer]
    BY DEF Receive
<1>2. ~(first /\ last) =>
         passedOn' = IF last THEN [is |-> SubSeq(buffer.data, 1, buffer.p), meant |-> message]
                     ELSE NoMessage
    BY DEF Receive
<1>3. /\ message \in Seq(Bytes) /\ Len(message) \in Nat /\ from \in Nat
      /\ buffers[c] \in Buffers
  <2>1. arriving[c] \in Arrivals /\ buffers[c] \in Buffers
    BY DEF ChannelsTypeOK
  <2> QED
    BY <2>1, LenProperties DEF Arrivals
<1>4. upto \in (from + 1)..Len(message)
  <2>1. CHANNEL_CHUNK_LENGTH \in Nat \ {0}
    BY ChannelsAssumption
  <2> HIDE DEF message, from
  <2> QED
    BY <1>1, <1>3, <2>1 DEF Least
<1>5. from > 0 => Holds(buffers[c], message, from)
    BY DEF Gathered
<1> HIDE DEF message, from, upto
<1>6. /\ fragment \in Seq(Bytes) /\ Len(fragment) = upto - from
      /\ \A i \in 1..(upto - from) : fragment[i] = message[from + i]
  <2>1. upto \in Nat /\ from <= upto /\ upto <= Len(message)
    BY <1>3, <1>4
  <2> QED
    BY <1>3, <2>1, PartIs
<1> HIDE DEF fragment
<1>7. base \in Buffers /\ Holds(base, message, from)
  <2>1. CASE first
    <3>1. /\ Restart(buffers[c], Len(message)) \in Buffers
          /\ Restart(buffers[c], Len(message)).p = 0
          /\ Len(message) <= Restart(buffers[c], Len(message)).size
          /\ Len(Restart(buffers[c], Len(message)).data) \in Nat
      <4>1. PICK data \in Seq(Bytes), size \in Nat, p \in Nat :
               buffers[c] = [data |-> data, size |-> size, p |-> p]
        BY <1>3 DEF Buffers
      <4>2. Restart(buffers[c], Len(message)) =
               [data |-> data, size |-> IF Len(message) > size THEN Len(message) ELSE size, p |-> 0]
        BY <4>1 DEF Restart
      <4>3. Len(data) \in Nat
        BY LenProperties
      <4> QED
        BY <1>3, <4>2, <4>3 DEF Buffers
    <3>2. from = 0 /\ base = Restart(buffers[c], Len(message))
      BY <2>1
    <3> HIDE DEF base
    <3> QED
      BY <3>1, <3>2 DEF Holds
  <2>2. CASE ~first
    <3>1. from > 0 /\ base = buffers[c]
      BY <1>3, <2>2
    <3> QED
      BY <1>3, <1>5, <3>1
  <2> QED
    BY <2>1, <2>2
<1> HIDE DEF base
<1>8. buffer \in Buffers /\ Holds(buffer, message, upto)
  <2>1. /\ base.p = from /\ base.p <= Len(base.data) /\ Len(message) <= base.size
        /\ \A i \in 1..from : base.data[i] = message[i]
    BY <1>7 DEF Holds
  <2>2. base.size \in Nat
    BY <1>7 DEF Buffers
  <2>3. base.p + Len(fragment) = upto /\ base.p + Len(fragment) <= base.size
    BY <1>3, <1>4, <1>6, <2>1, <2>2
  <2>4. /\ buffer \in Buffers /\ buffer.size = base.size /\ buffer.p = upto
        /\ buffer.p <= Len(buffer.data)
        /\ \A i \in 1..base.p : buffer.data[i] = base.data[i]
        /\ \A i \in 1..Len(fragment) : buffer.data[base.p + i] = fragment[i]
    BY <1>6, <1>7, <2>1, <2>3, AddFragmentIs
  <2> HIDE DEF buffer
  <2>5. ASSUME NEW i \in 1..upto PROVE buffer.data[i] = message[i]
    <3>1. CASE i <= from
      <4>1. i \in 1..from
        BY <1>3, <1>4, <3>1
      <4> QED
        BY <2>1, <2>4, <4>1
    <3>2. CASE i > from
      <4>1. i - from \in 1..(upto - from) /\ from + (i - from) = i
        BY <1>3, <1>4, <3>2
      <4>2. buffer.data[from + (i - from)] = fragment[i - from]
        BY <1>6, <2>1, <2>4, <4>1
      <4>3. fragment[i - from] = message[from + (i - from)]
        BY <1>6, <4>1
      <4> QED
        BY <4>1, <4>2, <4>3
    <3> QED
      BY <1>3, <1>4, <3>1, <3>2
  <2> QED
    BY <2>1, <2>4, <2>5 DEF Holds
<1> HIDE DEF buffer
<1> DEFINE arrival == IF last THEN Nothing ELSE [message |-> message, done |-> upto]
           after == IF first /\ last THEN buffers[c]
                    ELSE IF last THEN [buffer EXCEPT !.p = 0] ELSE buffer
<1>9. arrival \in Arrivals /\ after \in Buffers
  <2>1. Nothing \in Arrivals
    BY DEF Nothing, Arrivals
  <2>2. [message |-> message, done |-> upto] \in Arrivals
    BY <1>3, <1>4 DEF Arrivals
  <2>3. [buffer EXCEPT !.p = 0] \in Buffers
    BY <1>8 DEF Buffers
  <2> QED
    BY <1>3, <1>8, <2>1, <2>2, <2>3
<1>10. /\ arriving' = [arriving EXCEPT ![c] = arrival]
      /\ buffers' = [buffers EXCEPT ![c] = after]
  <2>1. buffers = [buffers EXCEPT ![c] = buffers[c]]
    BY DEF ChannelsTypeOK
  <2> QED
    BY <1>1, <2>1
<1>11. /\ arrival.done <= Len(arrival.message)
       /\ arrival.done > 0 => Holds(after, arrival.message, arrival.done)
  <2>1. CASE last
    <3>1. arrival = Nothing
      BY <2>1
    <3>2. Nothing.done = 0 /\ Nothing.message = <<>> /\ Len(<<>>) = 0
      BY DEF Nothing
    <3> HIDE DEF arrival
    <3> QED
      BY <3>1, <3>2
  <2>2. CASE ~last
    <3>1. arrival.message = message /\ arrival.done = upto /\ after = buffer
      BY <2>2
    <3> HIDE DEF arrival, after
    <3> QED
      BY <1>3, <1>4, <1>8, <3>1
  <2> QED
    BY <2>1, <2>2
<1> HIDE DEF arrival, after
<1>12. ChannelsTypeOK' /\ Gathered'
  <2>1. ChannelsTypeOK'
    BY <1>9, <1>10 DEF ChannelsTypeOK
  <2>2. /\ \A d \in ChannelIds \ {c} : arriving'[d] = arriving[d] /\ buffers'[d] = buffers[d]
        /\ arriving'[c] = arrival /\ buffers'[c] = after
    BY <1>10 DEF ChannelsTypeOK
  <2>3. Gathered'
    BY <1>11, <2>2 DEF Gathered
  <2> QED
    BY <2>1, <2>3
<1>13. MessagesWhole'
  <2>1. ASSUME first, last PROVE fragment = message
    <3>1. Len(fragment) = Len(message) /\ \A i \in 1..Len(fragment) : fragment[i] = message[i]
      BY <1>3, <1>6, <2>1
    <3> QED
      BY <1>3, <1>6, <3>1, SeqEqual
  <2>2. ASSUME last PROVE SubSeq(buffer.data, 1, buffer.p) = message
    <3> DEFINE all == SubSeq(buffer.data, 1, buffer.p)
    <3>1. /\ buffer.data \in Seq(Bytes) /\ buffer.p = upto /\ upto = Len(message)
          /\ upto <= Len(buffer.data)
      BY <1>8, <2>2 DEF Buffers, Holds
    <3>2. all \in Seq(Bytes) /\ Len(all) = upto /\ \A i \in 1..upto : all[i] = buffer.data[i]
      BY <1>3, <3>1, FrontIs
    <3> HIDE DEF all
    <3>3. Len(all) = Len(message) /\ \A i \in 1..Len(all) : all[i] = message[i]
      BY <1>8, <3>1, <3>2 DEF Holds
    <3>4. all = message
      BY <1>3, <3>2, <3>3, SeqEqual
    <3> QED
      BY <3>4 DEF all
  <2> HIDE DEF first, last
  <2>3. CASE first /\ last
    BY <1>1, <2>1, <2>3 DEF MessagesWhole
  <2>4. CASE ~(first /\ last)
    <3>1. CASE last
      <4>1. passedOn' = [is |-> SubSeq(buffer.data, 1, buffer.p), meant |-> message]
        BY <1>2, <2>4, <3>1
      <4>2. passedOn' = [is |-> message, meant |-> message]
        BY <2>2, <3>1, <4>1
      <4> QED
        BY <4>2 DEF MessagesWhole
    <3>2. CASE ~last
      <4>1. passedOn' = NoMessage
        BY <1>2, <2>4, <3>2
      <4> QED
        BY <4>1 DEF MessagesWhole, NoMessage
    <3> QED
      BY <3>1, <3>2
  <2> QED
    BY <2>3, <2>4
<1> QED
    BY <1>12, <1>13

-----------------------------------------------------------------------------
(* Virtual channels: what is cut up *)

\* channel_send between two fragments of the message: the stream still has the
\* rest of it, all of it behind where fragments are built.
Cuttings(message) ==
    {s \in [stream : Seq(Bytes), source : Nat, remaining : Nat, out : Seq(Bytes)] :
        /\ Len(s.stream) = HeaderLength + Len(message)
        /\ s.remaining <= Len(message)
        /\ s.source = HeaderLength + Len(message) - s.remaining
        /\ s.remaining > 0 => Len(message) - s.remaining >= CHANNEL_CHUNK_LENGTH
        /\ \A i \in 1..Len(message) :
              i > CHANNEL_CHUNK_LENGTH => s.stream[HeaderLength + i] = message[i]}

LEMMA ChunkIs == CHANNEL_CHUNK_LENGTH \in Nat \ {0} /\ HeaderLength \in Nat \ {0}
BY ChannelsAssumption

LEMMA ThisLengthIs ==
    ASSUME NEW n \in Nat
    PROVE  /\ ThisLength(n) \in Nat /\ ThisLength(n) <= n
           /\ ThisLength(n) <= CHANNEL_CHUNK_LENGTH
           /\ ThisLength(n) = n \/ ThisLength(n) = CHANNEL_CHUNK_LENGTH
BY ChunkIs DEF ThisLength, Least

LEMMA FirstFragmentIs ==
    ASSUME NEW message \in Seq(Bytes)
    PROVE  /\ FirstFragment(message) \in Cuttings(message)
           /\ FirstFragment(message).remaining = Len(message) - ThisLength(Len(message))
           /\ FirstFragment(message).out = SubSeq(message, 1, ThisLength(Len(message)))
<1> DEFINE C == CHANNEL_CHUNK_LENGTH
           H == HeaderLength
           N == Len(message)
           length == ThisLength(N)
           header == [i \in 1..H |-> <<0, FALSE>>]
           stream == header \o message
           out == SubSeq(stream, H + 1, H + length)
<1>1. N \in Nat /\ C \in Nat \ {0} /\ H \in Nat \ {0}
    BY LenProperties, ChunkIs
<1>2. length \in Nat /\ length <= N /\ length <= C /\ (length = N \/ length = C)
    BY <1>1, ThisLengthIs
<1>3. FirstFragment(message) = [stream |-> stream, source |-> H + length, remaining |-> N - length,
                                out |-> out]
    BY DEF FirstFragment
<1> HIDE DEF H, N, C, length
<1>4. header \in Seq(Bytes) /\ Len(header) = H
  <2>1. header \in [1..H -> Bytes]
    BY DEF Bytes
  <2> HIDE DEF header
  <2> QED
    BY <1>1, <2>1, SeqOfLength
<1> HIDE DEF header
<1>5. /\ stream \in Seq(Bytes) /\ Len(stream) = H + N
      /\ \A i \in 1..N : stream[H + i] = message[i]
  <2>1. /\ stream \in Seq(Bytes) /\ Len(stream) = Len(header) + Len(message)
        /\ \A i \in 1..Len(message) : stream[Len(header) + i] = message[i]
    <3>1. header \in Seq(Bytes)
      BY <1>4
    <3> QED
      BY <3>1, BehindIs
  <2> HIDE DEF stream
  <2> QED
    BY <1>4, <2>1 DEF N
<1> HIDE DEF stream
<1>6. out \in Seq(Bytes) /\ Len(out) = length /\ \A i \in 1..length : out[i] = stream[H + i]
  <2> DEFINE end == H + length
  <2>1. end \in Nat /\ H <= end /\ end <= Len(stream) /\ end - H = length
    BY <1>1, <1>2, <1>5
  <2>2. out = SubSeq(stream, H + 1, end)
    OBVIOUS
  <2> HIDE DEF end, out
  <2>3. /\ SubSeq(stream, H + 1, end) \in Seq(Bytes) /\ Len(SubSeq(stream, H + 1, end)) = end - H
        /\ \A i \in 1..(end - H) : SubSeq(stream, H + 1, end)[i] = stream[H + i]
    BY <1>1, <1>5, <2>1, PartIs
  <2> QED
    BY <2>1, <2>2, <2>3
<1> HIDE DEF out
<1>7. out = SubSeq(message, 1, length)
  <2> DEFINE front == SubSeq(message, 1, length)
  <2>1. length \in Nat /\ length <= Len(message) /\ \A i \in 1..length : i \in 1..N
    BY <1>1, <1>2 DEF N
  <2>2. front \in Seq(Bytes) /\ Len(front) = length /\ \A i \in 1..length : front[i] = message[i]
    BY <2>1, FrontIs
  <2> HIDE DEF front
  <2>3. \A i \in 1..length : out[i] = front[i]
    BY <1>5, <1>6, <2>1, <2>2
  <2>4. out = front
    BY <1>6, <2>2, <2>3, SeqEqual
  <2> QED
    BY <2>4 DEF front
<1>8. /\ H + length \in Nat /\ N - length \in Nat /\ N - length <= N
      /\ H + length = H + N - (N - length)
      /\ N - length > 0 => N - (N - length) >= C
    BY <1>1, <1>2
<1> DEFINE first == [stream |-> stream, source |-> H + length, remaining |-> N - length, out |-> out]
<1>9. /\ first.stream = stream /\ first.source = H + length /\ first.remaining = N - length
      /\ first.out = out
      /\ first \in [stream : Seq(Bytes), source : Nat, remaining : Nat, out : Seq(Bytes)]
    BY <1>5, <1>6, <1>8
<1>10. FirstFragment(message) = first
    BY <1>3
<1> HIDE DEF first
<1>11. first \in Cuttings(message)
    BY <1>5, <1>8, <1>9 DEF Cuttings, H, N, C
<1> QED
    BY <1>7, <1>9, <1>10, <1>11 DEF length, N

LEMMA NextFragmentIs ==
    ASSUME NEW message \in Seq(Bytes), NEW s \in Cuttings(message)
    PROVE  /\ NextFragment(s) \in Cuttings(message)
           /\ NextFragment(s).remaining = s.remaining - ThisLength(s.remaining)
           /\ NextFragment(s).out = SubSeq(message, Len(message) - s.remaining + 1,
                                           Len(message) - NextFragment(s).remaining)
<1> DEFINE C == CHANNEL_CHUNK_LENGTH
           H == HeaderLength
           N == Len(message)
           r == s.remaining
           length == ThisLength(r)
           place == N - r
           now == Built(s.stream, s.source, length)
           out == SubSeq(now, H + 1, H + length)
           next == [stream |-> now, source |-> s.source + length,
                    remaining |-> r - length, out |-> out]
<1>1. N \in Nat /\ C \in Nat \ {0} /\ H \in Nat \ {0}
    BY LenProperties, ChunkIs
<1>2. /\ s.stream \in Seq(Bytes) /\ s.source \in Nat /\ r \in Nat
      /\ Len(s.stream) = H + N /\ r <= N /\ s.source = H + N - r
      /\ r > 0 => place >= C
      /\ \A i \in 1..N : i > C => s.stream[H + i] = message[i]
    BY DEF Cuttings
<1>3. length \in Nat /\ length <= r /\ length <= C /\ (length = r \/ length = C)
    BY <1>2, ThisLengthIs
<1>4. NextFragment(s) = next
    BY DEF NextFragment
<1> HIDE DEF H, N, C, r, length
<1>5. /\ place \in Nat /\ s.source = H + place /\ place + length \in Nat /\ place + length <= N
      /\ place + length = N - (r - length) /\ (length > 0 => place >= C)
  <2>1. r \in Nat /\ r <= N /\ s.source = H + N - r /\ (r > 0 => place >= C)
    BY <1>2
  <2> QED
    BY <1>1, <1>3, <2>1
<1> HIDE DEF place
<1>6. /\ now \in Seq(Bytes) /\ Len(now) = H + N
      /\ \A j \in 1..length : now[H + j] = message[place + j]
      /\ \A i \in 1..N : i > C => now[H + i] = message[i]
  <2>1. DOMAIN s.stream = 1..(H + N) /\ \A i \in 1..(H + N) : s.stream[i] \in Bytes
    BY <1>2, LenProperties, ElementOfSeq
  <2>2. now = [i \in 1..(H + N) |-> IF i \in (H + 1)..(H + length) THEN s.stream[s.source + i - H]
                                    ELSE s.stream[i]]
    BY <2>1 DEF Built, H
  <2>3. \A i \in (H + 1)..(H + length) : s.source + i - H \in 1..(H + N)
    BY <1>1, <1>3, <1>5
  <2>4. now \in [1..(H + N) -> Bytes]
    BY <2>1, <2>2, <2>3
  <2> HIDE DEF now
  <2>5. now \in Seq(Bytes) /\ Len(now) = H + N
    <3>1. H + N \in Nat
      BY <1>1
    <3> QED
      BY <2>4, <3>1, SeqOfLength
  <2>6. ASSUME NEW j \in 1..length PROVE now[H + j] = message[place + j]
    <3>1. /\ H + j \in 1..(H + N) /\ H + j \in (H + 1)..(H + length)
          /\ s.source + (H + j) - H = H + (place + j)
      BY <1>1, <1>3, <1>5
    <3>2. place + j \in 1..N /\ place + j > C
      BY <1>1, <1>3, <1>5
    <3>3. now[H + j] = s.stream[H + (place + j)]
      BY <2>2, <3>1
    <3> QED
      BY <1>2, <3>2, <3>3
  <2>7. ASSUME NEW i \in 1..N, i > C PROVE now[H + i] = message[i]
    <3>1. H + i \in 1..(H + N) /\ H + i \notin (H + 1)..(H + length)
      BY <1>1, <1>3, <2>7
    <3>2. now[H + i] = s.stream[H + i]
      BY <2>2, <3>1
    <3> QED
      BY <1>2, <2>7, <3>2
  <2> QED
    BY <2>5, <2>6, <2>7
<1> HIDE DEF now
<1>7. out \in Seq(Bytes) /\ Len(out) = length /\ \A i \in 1..length : out[i] = now[H + i]
  <2> DEFINE end == H + length
  <2>1. end \in Nat /\ H <= end /\ end <= Len(now) /\ end - H = length
    BY <1>1, <1>3, <1>5, <1>6
  <2>2. out = SubSeq(now, H + 1, end)
    OBVIOUS
  <2> HIDE DEF end, out
  <2>3. /\ SubSeq(now, H + 1, end) \in Seq(Bytes) /\ Len(SubSeq(now, H + 1, end)) = end - H
        /\ \A i \in 1..(end - H) : SubSeq(now, H + 1, end)[i] = now[H + i]
    <3>1. now \in Seq(Bytes) /\ H \in Nat
      BY <1>1, <1>6
    <3> QED
      BY <2>1, <3>1, PartIs
  <2> QED
    BY <2>1, <2>2, <2>3
<1> HIDE DEF out
<1>8. out = SubSeq(message, place + 1, place + length)
  <2> DEFINE end == place + length
             part == SubSeq(message, place + 1, end)
  <2>1. place \in Nat /\ end \in Nat /\ place <= end /\ end <= Len(message) /\ end - place = length
    BY <1>1, <1>3, <1>5 DEF N
  <2> HIDE DEF end
  <2>2. /\ part \in Seq(Bytes) /\ Len(part) = end - place
        /\ \A i \in 1..(end - place) : part[i] = message[place + i]
    BY <2>1, PartIs
  <2> HIDE DEF part
  <2>3. Len(out) = Len(part) /\ \A i \in 1..Len(out) : out[i] = part[i]
    BY <1>6, <1>7, <2>1, <2>2
  <2>4. out = part
    BY <1>7, <2>2, <2>3, SeqEqual
  <2> QED
    BY <2>4 DEF part, end
<1>9. /\ s.source + length \in Nat /\ r - length \in Nat /\ r - length <= N
      /\ s.source + length = H + N - (r - length)
      /\ r - length > 0 => N - (r - length) >= C
  <2>1. r \in Nat /\ r <= N
    BY <1>2
  <2> QED
    BY <1>1, <1>3, <1>5, <2>1
<1>10. /\ next.stream = now /\ next.source = s.source + length
       /\ next.remaining = r - length /\ next.out = out
       /\ next \in [stream : Seq(Bytes), source : Nat, remaining : Nat, out : Seq(Bytes)]
    BY <1>6, <1>7, <1>9
<1> HIDE DEF next
<1>11. next \in Cuttings(message)
    BY <1>6, <1>9, <1>10 DEF Cuttings, H, N, C
<1>12. N - next.remaining = place + length
    BY <1>5, <1>10
<1> QED
    BY <1>4, <1>8, <1>10, <1>11, <1>12 DEF length, N, place, r

\* The fragments of a message, one after the other, are the message.
LEMMA FragmentsAre ==
    ASSUME NEW message \in Seq(Bytes), message # <<>>
    PROVE  FlattenSeq(Fragments(message)) = message
<1> DEFINE C == CHANNEL_CHUNK_LENGTH
           N == Len(message)
           X == Cuttings(message)
           count == (N + C - 1) \div C
           Loop(f) == f = [k \in 1..count |-> IF k = 1 THEN FirstFragment(message)
                                              ELSE NextFragment(f[k - 1])]
           step == CHOOSE f : Loop(f)
           outs == Fragments(message)
           Joins(f) == f = [i \in 1..Len(outs) |-> IF i = 1 THEN outs[i] ELSE f[i - 1] \o outs[i]]
           flatten == CHOOSE f : Joins(f)
<1>1. N \in Nat \ {0} /\ C \in Nat \ {0}
  <2>1. N # 0
    BY EmptySeq
  <2> QED
    BY <2>1, LenProperties, ChunkIs
<1>2. outs = [k \in 1..count |-> step[k].out]
    BY DEF Fragments
<1>3. FlattenSeq(outs) = IF Len(outs) = 0 THEN outs ELSE flatten[Len(outs)]
    BY DEF FlattenSeq
<1>4. FirstFragment(message) \in X /\ \A s \in X : NextFragment(s) \in X
    BY FirstFragmentIs, NextFragmentIs
<1> HIDE DEF X, N, C
<1>5. count \in Nat \ {0} /\ count * C >= N
    BY <1>1
<1> HIDE DEF count, outs, flatten
<1>6. Loop(step)
  <2> DEFINE F == [n \in Nat |-> [s \in X |-> NextFragment(s)]]
  <2>1. F \in Steps(X) /\ \A n \in Nat, s \in X : F[n][s] = NextFragment(s)
    BY <1>4 DEF Steps
  <2> HIDE DEF F
  <2>2. PICK g : FromOne(g, F, FirstFragment(message), count) /\ \A n \in 1..count : g[n] \in X
    <3>1. FirstFragment(message) \in X /\ count \in Nat /\ F \in Steps(X)
      BY <1>4, <1>5, <2>1
    <3> QED
      BY <3>1, IterationFromOne
  <2> DEFINE h == [k \in 1..count |-> g[k]]
  <2>3. \A k \in 1..count : k # 1 => k \in 2..count /\ k - 1 \in 1..count /\ k \in Nat
    BY <1>5
  <2>4. \A k \in 1..count : g[k] = IF k = 1 THEN FirstFragment(message) ELSE NextFragment(h[k - 1])
    BY <2>1, <2>2, <2>3 DEF FromOne
  <2>5. Loop(h)
    BY <2>4
  <2> HIDE DEF h, Loop
  <2> QED
    BY <2>5
<1>7. \A k \in 1..count : step[k] = IF k = 1 THEN FirstFragment(message) ELSE NextFragment(step[k - 1])
    BY <1>6
<1> HIDE DEF step, Loop
<1> DEFINE S == {k \in Nat : k + 1 <= count => /\ step[k + 1] \in X
                                               /\ step[k + 1].remaining = 0
                                                  \/ step[k + 1].remaining + (k + 1) * C = N}
<1>8. \A k \in 1..count : /\ step[k] \in X
                          /\ step[k].remaining = 0 \/ step[k].remaining + k * C = N
  <2>1. \A s \in X : s.remaining \in Nat
    BY DEF X, Cuttings
  <2>2. \A n \in Nat : n - ThisLength(n) = 0 \/ n - ThisLength(n) = n - C
    <3> SUFFICES ASSUME NEW n \in Nat PROVE n - ThisLength(n) = 0 \/ n - ThisLength(n) = n - C
      OBVIOUS
    <3>1. ThisLength(n) \in Nat /\ (ThisLength(n) = n \/ ThisLength(n) = C)
      BY ThisLengthIs DEF C
    <3> QED
      BY <3>1
  <2>3. 0 \in S
    <3>1. step[1] = FirstFragment(message)
      BY <1>5, <1>7
    <3>2. step[1] \in X /\ step[1].remaining = N - ThisLength(N)
      BY <1>4, <3>1, FirstFragmentIs DEF N
    <3>3. step[1].remaining = 0 \/ step[1].remaining + 1 * C = N
      BY <1>1, <2>2, <3>2
    <3> QED
      BY <3>2, <3>3
  <2>4. ASSUME NEW k \in Nat, k \in S PROVE k + 1 \in S
    <3> SUFFICES ASSUME k + 2 <= count
                 PROVE  /\ step[k + 2] \in X
                        /\ step[k + 2].remaining = 0 \/ step[k + 2].remaining + (k + 2) * C = N
      <4>1. k + 1 + 1 = k + 2
        OBVIOUS
      <4> QED
        BY <4>1
    <3> DEFINE r == step[k + 1].remaining
    <3>1. /\ step[k + 1] \in X /\ r \in Nat
          /\ r = 0 \/ r + (k + 1) * C = N
      BY <1>5, <2>1, <2>4
    <3>2. step[k + 2] = NextFragment(step[k + 1])
      <4>1. k + 2 \in 1..count /\ k + 2 # 1 /\ (k + 2) - 1 = k + 1
        BY <1>5
      <4> QED
        BY <1>7, <4>1
    <3>3. step[k + 2] \in X /\ step[k + 2].remaining = r - ThisLength(r)
      BY <1>4, <3>1, <3>2, NextFragmentIs DEF X
    <3> HIDE DEF r
    <3>4. CASE r = 0
      <4>1. ThisLength(0) = 0
        BY ThisLengthIs
      <4> QED
        BY <3>3, <3>4, <4>1
    <3>5. CASE r # 0
      <4>1. r + (k + 1) * C = N
        BY <3>1, <3>5
      <4>2. (k + 2) * C = (k + 1) * C + C
        BY <1>1
      <4>3. r - ThisLength(r) = 0 \/ r - ThisLength(r) = r - C
        BY <2>2, <3>1
      <4>4. (k + 1) * C \in Int
        BY <1>1
      <4> HIDE DEF S
      <4> QED
        BY <1>1, <3>1, <3>3, <4>1, <4>2, <4>3, <4>4
    <3> QED
      BY <3>4, <3>5
  <2>5. Nat \subseteq S
    BY <2>3, <2>4, Induction
  <2>6. \A k \in 1..count : k - 1 \in Nat /\ k - 1 + 1 = k
    BY <1>5
  <2>7. ASSUME NEW k \in 1..count
        PROVE  step[k] \in X /\ (step[k].remaining = 0 \/ step[k].remaining + k * C = N)
    <3>1. k - 1 \in Nat /\ k - 1 + 1 = k /\ k <= count
      BY <1>5, <2>6
    <3> HIDE DEF S
    <3>2. k - 1 \in S
      BY <2>5, <3>1
    <3> USE DEF S
    <3> QED
      BY <3>1, <3>2
  <2> QED
    BY <2>7
<1> HIDE DEF S
<1>9. \A k \in 1..count : step[k].remaining \in 0..N /\ step[k].out \in Seq(Bytes)
    BY <1>8 DEF X, Cuttings, N
<1>10. step[count].remaining = 0
  <2>1. count \in 1..count /\ count * C \in Int
    BY <1>1, <1>5
  <2>2. step[count].remaining = 0 \/ step[count].remaining + count * C = N
    BY <1>8, <2>1
  <2> QED
    BY <1>1, <1>5, <1>9, <2>1, <2>2
<1>11. outs \in Seq(Seq(Bytes)) /\ Len(outs) = count /\ \A k \in 1..count : outs[k] = step[k].out
  <2>1. outs \in [1..count -> Seq(Bytes)]
    BY <1>2, <1>9
  <2>2. outs \in Seq(Seq(Bytes)) /\ Len(outs) = count
    BY <1>5, <2>1, SeqOfLength
  <2> QED
    BY <1>2, <2>2
<1>12. Joins(flatten)
  <2> DEFINE Y == Seq(Bytes)
             added(n, q) == IF n \in 1..count THEN q \o outs[n] ELSE q
             F == [n \in Nat |-> [q \in Y |-> added(n, q)]]
  <2>1. \A n \in 1..count : outs[n] \in Seq(Bytes)
    BY <1>9, <1>11
  <2>2. \A n \in Nat, q \in Y : added(n, q) \in Y
    BY <2>1, ConcatProperties
  <2> HIDE DEF Y, added
  <2>3. F \in Steps(Y) /\ \A n \in Nat, q \in Y : F[n][q] = added(n, q)
    BY <2>2 DEF Steps
  <2> HIDE DEF F
  <2>4. F \in Steps(Seq(Bytes)) /\ \A n \in 1..count, q \in Seq(Bytes) : F[n][q] = q \o outs[n]
    <3>1. \A n \in 1..count : n \in Nat
      BY <1>5
    <3>2. \A n \in 1..count, q \in Y : added(n, q) = q \o outs[n]
      BY DEF added
    <3>3. \A n \in 1..count, q \in Y : F[n][q] = q \o outs[n]
      BY <2>3, <3>1, <3>2
    <3> QED
      BY <2>3, <3>3 DEF Y
  <2>5. outs[1] \in Seq(Bytes)
    BY <1>5, <2>1
  <2>6. PICK g : FromOne(g, F, outs[1], count) /\ \A n \in 1..count : g[n] \in Seq(Bytes)
    <3>1. count \in Nat /\ F \in Steps(Seq(Bytes))
      BY <1>5, <2>4
    <3> QED
      BY <2>5, <3>1, IterationFromOne
  <2> DEFINE h == [k \in 1..count |-> g[k]]
  <2>7. \A k \in 1..count : k # 1 => k \in 2..count /\ k - 1 \in 1..count
    BY <1>5
  <2>8. \A k \in 1..count : g[k] = IF k = 1 THEN outs[k] ELSE h[k - 1] \o outs[k]
    BY <2>4, <2>6, <2>7 DEF FromOne
  <2>9. Joins(h)
    BY <1>11, <2>8
  <2> HIDE DEF h, Joins
  <2> QED
    BY <2>9 DEF flatten
<1>13. \A k \in 1..count : flatten[k] = IF k = 1 THEN outs[k] ELSE flatten[k - 1] \o outs[k]
    BY <1>11, <1>12
<1> HIDE DEF Joins, flatten
<1> DEFINE T == {k \in Nat : k + 1 <= count =>
                    flatten[k + 1] = SubSeq(message, 1, N - step[k + 1].remaining)}
<1>14. 0 \in T
  <2>1. flatten[1] = FirstFragment(message).out /\ step[1] = FirstFragment(message)
    BY <1>5, <1>7, <1>11, <1>13
  <2>2. N - step[1].remaining = ThisLength(N)
    <3>1. ThisLength(N) \in Nat
      BY <1>1, ThisLengthIs
    <3> QED
      BY <1>1, <2>1, <3>1, FirstFragmentIs DEF N
  <2> QED
    BY <2>1, <2>2, FirstFragmentIs DEF N
<1>15. ASSUME NEW k \in Nat, k \in T PROVE k + 1 \in T
  <2> SUFFICES ASSUME k + 2 <= count
               PROVE  flatten[k + 2] = SubSeq(message, 1, N - step[k + 2].remaining)
    <3>1. k + 1 + 1 = k + 2
      OBVIOUS
    <3> QED
      BY <3>1
  <2>1. /\ k + 2 \in 1..count /\ k + 1 \in 1..count /\ k + 2 # 1 /\ (k + 2) - 1 = k + 1
    BY <1>5
  <2> DEFINE a == N - step[k + 1].remaining
             b == N - step[k + 2].remaining
  <2>2. flatten[k + 1] = SubSeq(message, 1, a)
    BY <1>5, <1>15
  <2>3. flatten[k + 2] = flatten[k + 1] \o step[k + 2].out
    BY <1>11, <1>13, <2>1
  <2>4. step[k + 2] = NextFragment(step[k + 1]) /\ step[k + 1] \in X
    BY <1>7, <1>8, <2>1
  <2>5. /\ step[k + 2].out = SubSeq(message, a + 1, b)
        /\ step[k + 2].remaining = step[k + 1].remaining - ThisLength(step[k + 1].remaining)
    BY <2>4, NextFragmentIs DEF X, N
  <2>6. a \in Nat /\ b \in Nat /\ a <= b /\ b <= N
    <3> DEFINE r == step[k + 1].remaining
    <3>1. r \in Nat /\ r <= N
      BY <1>1, <1>9, <2>1
    <3>2. ThisLength(r) \in Nat /\ ThisLength(r) <= r
      BY <3>1, ThisLengthIs
    <3>3. a = N - r /\ b = N - (r - ThisLength(r))
      BY <2>5
    <3> HIDE DEF r, a, b
    <3> QED
      BY <1>1, <3>1, <3>2, <3>3
  <2> HIDE DEF a, b
  <2>7. SubSeq(message, 1, a) \o SubSeq(message, a + 1, b) = SubSeq(message, 1, b)
    BY <2>6, PartsJoin DEF N
  <2> QED
    BY <2>2, <2>3, <2>5, <2>7 DEF b
<1>16. flatten[count] = SubSeq(message, 1, N)
  <2>1. count - 1 \in T
    <3>1. count - 1 \in Nat
      BY <1>5
    <3> HIDE DEF T
    <3> QED
      BY <1>14, <1>15, <3>1, Induction
  <2>2. count - 1 + 1 = count /\ count - 1 \in Nat /\ count <= count
    BY <1>5
  <2>3. flatten[count] = SubSeq(message, 1, N - step[count].remaining)
    BY <2>1, <2>2
  <2>4. N - step[count].remaining = N
    BY <1>1, <1>10
  <2> QED
    BY <2>3, <2>4
<1>17. SubSeq(message, 1, N) = message
  <2>1. /\ SubSeq(message, 1, N) \in Seq(Bytes) /\ Len(SubSeq(message, 1, N)) = N
        /\ \A i \in 1..N : SubSeq(message, 1, N)[i] = message[i]
    BY <1>1, FrontIs DEF N
  <2> QED
    BY <2>1, SeqEqual DEF N
<1>18. FlattenSeq(outs) = flatten[count]
    BY <1>3, <1>5, <1>11
<1> QED
    BY <1>16, <1>17, <1>18 DEF outs

LEMMA SendIs ==
    ASSUME NEW message \in Messages, Send(message)
    PROVE  MessagesWhole' /\ UNCHANGED <<buffers, arriving>>
<1>1. message \in Seq(Bytes) /\ message # <<>>
  <2>1. message \in Seq(Bytes) /\ Len(message) \in MessageLengths
    BY MessagesAre
  <2>2. Len(message) # 0
    BY <2>1, ChannelsAssumption
  <2>3. Len(<<>>) = 0
    OBVIOUS
  <2> QED
    BY <2>1, <2>2, <2>3
<1>2. FlattenSeq(Fragments(message)) = message
    BY <1>1, FragmentsAre
<1>3. passedOn' = [is |-> message, meant |-> message]
    BY <1>2 DEF Send
<1> QED
    BY <1>3 DEF Send, MessagesWhole

LEMMA ChannelsStep ==
    ASSUME ChannelsTypeOK, Gathered, MessagesWhole, [ChannelsNext]_channelVars
    PROVE  ChannelsTypeOK' /\ Gathered' /\ MessagesWhole'
<1>1. NoMessage.is = NoMessage.meant
    BY DEF NoMessage
<1>2. Nothing \in Arrivals /\ Nothing.done = 0 /\ Nothing.message = <<>> /\ Len(Nothing.message) = 0
    BY DEF Nothing, Arrivals
<1>3. ASSUME NEW c \in ChannelIds, NEW message \in Messages, ServerSends(c, message)
      PROVE  ChannelsTypeOK' /\ Gathered' /\ MessagesWhole'
  <2> DEFINE arrival == [message |-> message, done |-> 0]
  <2>1. /\ arriving' = [arriving EXCEPT ![c] = arrival] /\ passedOn' = NoMessage
        /\ buffers' = buffers
    BY <1>3 DEF ServerSends
  <2>2. message \in Seq(Bytes) /\ Len(message) \in Nat
    BY MessagesAre, LenProperties
  <2>3. arrival \in Arrivals /\ arrival.done = 0 /\ 0 <= Len(arrival.message)
    BY <2>2 DEF Arrivals
  <2> HIDE DEF arrival
  <2>4. arriving' \in [ChannelIds -> Arrivals] /\ arriving'[c] = arrival
        /\ \A d \in ChannelIds \ {c} : arriving'[d] = arriving[d]
    BY <2>1, <2>3 DEF ChannelsTypeOK
  <2>5. ASSUME NEW d \in ChannelIds
        PROVE  /\ arriving'[d].done <= Len(arriving'[d].message)
               /\ arriving'[d].done > 0 =>
                     Holds(buffers'[d], arriving'[d].message, arriving'[d].done)
    <3>1. CASE d = c
      BY <2>3, <2>4, <3>1
    <3>2. CASE d # c
      BY <2>1, <2>4, <3>2 DEF Gathered
    <3> QED
      BY <3>1, <3>2
  <2> QED
    BY <1>1, <2>1, <2>4, <2>5 DEF ChannelsTypeOK, Gathered, MessagesWhole
<1>4. CASE ConnectionLost
  <2>1. /\ arriving' = [c \in ChannelIds |-> Nothing] /\ passedOn' = NoMessage
        /\ buffers' = buffers
    BY <1>4 DEF ConnectionLost
  <2>2. \A c \in ChannelIds : arriving'[c] = Nothing
    BY <2>1
  <2> QED
    BY <1>1, <1>2, <2>1, <2>2 DEF ChannelsTypeOK, Gathered, MessagesWhole
<1>5. ASSUME UNCHANGED <<buffers, arriving>>
      PROVE  ChannelsTypeOK' /\ Gathered'
    BY <1>5 DEF ChannelsTypeOK, Gathered
<1>6. ASSUME NEW message \in Messages, Send(message)
      PROVE  ChannelsTypeOK' /\ Gathered' /\ MessagesWhole'
    BY <1>5, <1>6, SendIs
<1>7. CASE UNCHANGED channelVars
    BY <1>5, <1>7 DEF channelVars, MessagesWhole
<1> QED
    BY <1>3, <1>4, <1>6, <1>7, ReceiveKept DEF ChannelsNext

\* Each protocol gets the messages meant for it, whole, whatever came on other
\* channels and whatever a lost connection left in the buffer
\* (channel_process); and the server gets whole what channel_send cuts up in
\* the stream it is written in.
THEOREM MessagesArriveWhole == ChannelsSpec => []MessagesWhole
<1>1. ChannelsInit => ChannelsTypeOK /\ Gathered /\ MessagesWhole
  <2> SUFFICES ASSUME ChannelsInit PROVE ChannelsTypeOK /\ Gathered /\ MessagesWhole
    OBVIOUS
  <2>1. Nothing \in Arrivals /\ Nothing.done = 0 /\ Len(Nothing.message) = 0
    BY DEF Nothing, Arrivals
  <2>2. [data |-> <<>>, size |-> 0, p |-> 0] \in Buffers
    BY DEF Buffers
  <2>3. \A c \in ChannelIds : arriving[c] = Nothing
    BY DEF ChannelsInit
  <2>4. ChannelsTypeOK
    BY <2>1, <2>2 DEF ChannelsInit, ChannelsTypeOK
  <2>5. Gathered
    BY <2>1, <2>3 DEF Gathered
  <2> QED
    BY <2>4, <2>5 DEF ChannelsInit, MessagesWhole, NoMessage
<1>2. ChannelsTypeOK /\ Gathered /\ MessagesWhole /\ [ChannelsNext]_channelVars
         => ChannelsTypeOK' /\ Gathered' /\ MessagesWhole'
    BY ChannelsStep
<1> QED
    BY <1>1, <1>2, PTL DEF ChannelsSpec
-----------------------------------------------------------------------------
(* XScreen *)

Bits == {0, 1}
CellsOf(w) == IF w = Desktop THEN ScreenCells ELSE Frame
Screens == [ScreenCells -> Bits]
Contents == Screens \cup [Frame -> Bits]
Pictures(windows) ==
    [meant : Screens, back : Screens, win : [windows -> Contents], saved : Screens, clip : SUBSET ScreenCells]
PictureOK(p, windows) ==
    p \in Pictures(windows) /\ \A w \in windows : p.win[w] \in [CellsOf(w) -> Bits]

WindowSets == {{Desktop}, {Desktop, SeamlessWnd}}
ScreenEvents ==
    [kind : {"VisibilityNotify"}, unobscured : BOOLEAN]
    \cup [kind : {"Expose"}, window : {Desktop, SeamlessWnd}, cells : SUBSET ScreenCells]

-----------------------------------------------------------------------------
(* Raster operations: what X calls by a name is the table of the opcode.   *)

LEMMA BitOfBit ==
    ASSUME NEW opcode \in 0 .. 255, NEW index \in 0 .. 7
    PROVE  BitOf(opcode, index) \in Bits
<1>1. Weights[index + 1] \in Nat \ {0}
    BY DEF Weights
<1> DEFINE w == Weights[index + 1]
<1> HIDE DEF w
<1>2. opcode \div w \in Nat
    BY <1>1 DEF w
<1>3. (opcode \div w) % 2 \in {0, 1}
    BY <1>2
<1> QED
    BY <1>3 DEF BitOf, Bits, w

LEMMA Rop2Bit ==
    ASSUME NEW opcode \in 0 .. 15, NEW s \in Bits, NEW d \in Bits
    PROVE  Rop2(opcode, s, d) \in Bits
<1>1. 2 * s + d \in 0 .. 7 /\ opcode \in 0 .. 255
    BY DEF Bits
<1> QED
    BY <1>1, BitOfBit DEF Rop2

LEMMA Rop2Copy ==
    ASSUME NEW s \in Bits, NEW d \in Bits
    PROVE  Rop2(ROP_COPY, s, d) = s
BY DEF Rop2, BitOf, Weights, ROP_COPY, Bits

LEMMA XDoesIt ==
    ASSUME NEW opcode \in 0 .. 15, NEW s \in Bits, NEW d \in Bits
    PROVE  GX(SET_FUNCTION(opcode), s, d) = Rop2(opcode, s, d)
<1> USE DEF SET_FUNCTION, rop2_map, GX, Rop2, BitOf, Weights, Bits, Opposite, Both, Either, ExclusiveOr
<1>0. CASE opcode = 0
    BY <1>0
<1>1. CASE opcode = 1
    BY <1>1
<1>2. CASE opcode = 2
    BY <1>2
<1>3. CASE opcode = 3
    BY <1>3
<1>4. CASE opcode = 4
    BY <1>4
<1>5. CASE opcode = 5
    BY <1>5
<1>6. CASE opcode = 6
    BY <1>6
<1>7. CASE opcode = 7
    BY <1>7
<1>8. CASE opcode = 8
    BY <1>8
<1>9. CASE opcode = 9
    BY <1>9
<1>10. CASE opcode = 10
    BY <1>10
<1>11. CASE opcode = 11
    BY <1>11
<1>12. CASE opcode = 12
    BY <1>12
<1>13. CASE opcode = 13
    BY <1>13
<1>14. CASE opcode = 14
    BY <1>14
<1>15. CASE opcode = 15
    BY <1>15
<1> HIDE DEF SET_FUNCTION, rop2_map, GX, Rop2, BitOf, Weights, Bits, Opposite, Both, Either, ExclusiveOr
<1> QED
    BY <1>0, <1>1, <1>2, <1>3, <1>4, <1>5, <1>6, <1>7, <1>8, <1>9, <1>10, <1>11, <1>12, <1>13, <1>14, <1>15

-----------------------------------------------------------------------------
(* Drawing on one window, on the store and on all windows *)

\* Cells of a window the store knows better of
Excused(w, c) == g_ownbackstore /\ (c \in hidden[w] \/ Awaited(w, c))

Shows(p, c, v) ==
    /\ g_ownbackstore => p.back[c] = v
    /\ \A w \in ScreenWindows : c \in CellsOf(w) => Excused(w, c) \/ p.win[w][c] = v

Setting ==
    /\ ScreenWindows \in WindowSets /\ (SeamlessWnd \in ScreenWindows => g_ownbackstore)
    /\ hidden \in [ScreenWindows -> SUBSET ScreenCells] /\ g_ownbackstore \in BOOLEAN

KeepsRest(q, p) == q.meant = p.meant /\ q.saved = p.saved /\ q.clip = p.clip

\* What becomes of contents in which some cells are drawn
CellsDrawn(after, before, cells, reached, opcode, source) ==
    /\ after \in [cells -> Bits]
    /\ \A c \in cells : after[c] = IF c \in reached THEN Rop2(opcode, source[c], before[c]) ELSE before[c]

LEMMA DrawnIs ==
    ASSUME NEW cells \in SUBSET ScreenCells, NEW contents \in [cells -> Bits], NEW reached \in SUBSET ScreenCells,
           NEW opcode \in 0 .. 15, NEW source \in Screens
    PROVE  CellsDrawn(Drawn(contents, reached, opcode, source), contents, cells, reached, opcode, source)
<1> DEFINE after == Drawn(contents, reached, opcode, source)
<1>1. DOMAIN contents = cells /\ \A c \in cells : contents[c] \in Bits /\ source[c] \in Bits
    BY DEF Screens
<1>2. after = [c \in cells |-> IF c \in reached THEN GX(SET_FUNCTION(opcode), source[c], contents[c]) ELSE contents[c]]
    BY <1>1 DEF Drawn
<1>3. \A c \in cells : after[c] = IF c \in reached THEN Rop2(opcode, source[c], contents[c]) ELSE contents[c]
    BY <1>1, <1>2, XDoesIt
<1>4. \A c \in cells : Rop2(opcode, source[c], contents[c]) \in Bits
    BY <1>1, Rop2Bit
<1>5. after \in [cells -> Bits]
  <2>1. after = [c \in cells |-> after[c]]
    BY <1>2
  <2>2. \A c \in cells : after[c] \in Bits
    BY <1>1, <1>3, <1>4
  <2> HIDE DEF after
  <2> QED
    BY <2>1, <2>2
<1> QED
    BY <1>3, <1>5 DEF CellsDrawn

LEMMA ShowingIs ==
    ASSUME NEW windows, NEW p, PictureOK(p, windows), NEW w \in windows, NEW contents \in [CellsOf(w) -> Bits]
    PROVE  /\ PictureOK(Showing(p, w, contents), windows) /\ KeepsRest(Showing(p, w, contents), p)
           /\ Showing(p, w, contents).back = p.back /\ Showing(p, w, contents).win[w] = contents
           /\ \A v \in windows \ {w} : Showing(p, w, contents).win[v] = p.win[v]
<1> DEFINE win == [p.win EXCEPT ![w] = contents]
           q == [p EXCEPT !.win = win]
<1>1. p \in Pictures(windows) /\ p.win \in [windows -> Contents] /\ \A v \in windows : p.win[v] \in [CellsOf(v) -> Bits]
    BY DEF PictureOK, Pictures
<1>2. contents \in Contents
    BY DEF Contents, Screens, CellsOf
<1>3. /\ win \in [windows -> Contents] /\ win[w] = contents
      /\ \A v \in windows \ {w} : win[v] = p.win[v]
    BY <1>1, <1>2
<1> HIDE DEF win
<1>4. /\ q \in Pictures(windows) /\ q.win = win /\ q.meant = p.meant /\ q.back = p.back
      /\ q.saved = p.saved /\ q.clip = p.clip
    BY <1>1, <1>3 DEF Pictures
<1>5. Showing(p, w, contents) = q
    BY DEF Showing, win
<1> HIDE DEF q
<1>6. \A v \in windows : q.win[v] \in [CellsOf(v) -> Bits]
    BY <1>1, <1>3, <1>4
<1> QED
    BY <1>3, <1>4, <1>5, <1>6 DEF PictureOK, KeepsRest

ReachedOn(w, p, area) == IF g_ownbackstore THEN InReach(p, area) \ hidden[w] ELSE InReach(p, area)

WindowDrawn(q, p, w, area, opcode, source) ==
    /\ PictureOK(q, ScreenWindows) /\ KeepsRest(q, p) /\ q.back = p.back
    /\ \A v \in ScreenWindows \ {w} : q.win[v] = p.win[v]
    /\ CellsDrawn(q.win[w], p.win[w], CellsOf(w), ReachedOn(w, p, area), opcode, source)

LEMMA OnWindowIs ==
    ASSUME Setting, NEW p, PictureOK(p, ScreenWindows), NEW w \in ScreenWindows, NEW area \in SUBSET ScreenCells,
           NEW opcode \in 0 .. 15, NEW source \in Screens
    PROVE  WindowDrawn(OnWindow(p, w, area, opcode, source), p, w, area, opcode, source)
<1> DEFINE reached == ReachedOn(w, p, area)
           contents == Drawn(p.win[w], reached, opcode, source)
<1>1. OnWindow(p, w, area, opcode, source) = Showing(p, w, contents)
    BY DEF OnWindow, ReachedOn
<1>2. CellsOf(w) \in SUBSET ScreenCells
    BY AreaAssumption DEF CellsOf
<1>3. p.win[w] \in [CellsOf(w) -> Bits]
    BY DEF PictureOK
<1>4. reached \in SUBSET ScreenCells
    BY DEF ReachedOn, InReach
<1> HIDE DEF reached
<1>5. CellsDrawn(contents, p.win[w], CellsOf(w), reached, opcode, source)
    BY <1>2, <1>3, <1>4, DrawnIs
<1> HIDE DEF contents
<1>6. contents \in [CellsOf(w) -> Bits]
    BY <1>5 DEF CellsDrawn
<1>7. /\ PictureOK(Showing(p, w, contents), ScreenWindows) /\ KeepsRest(Showing(p, w, contents), p)
      /\ Showing(p, w, contents).back = p.back /\ Showing(p, w, contents).win[w] = contents
      /\ \A v \in ScreenWindows \ {w} : Showing(p, w, contents).win[v] = p.win[v]
    BY <1>6, ShowingIs
<1> QED
    BY <1>1, <1>5, <1>7 DEF WindowDrawn, reached

StoreDrawn(q, p, area, opcode, source) ==
    /\ PictureOK(q, ScreenWindows) /\ KeepsRest(q, p) /\ q.win = p.win
    /\ CellsDrawn(q.back, p.back, ScreenCells, InReach(p, area), opcode, source)

LEMMA OnBackstoreIs ==
    ASSUME NEW p, PictureOK(p, ScreenWindows), NEW area \in SUBSET ScreenCells,
           NEW opcode \in 0 .. 15, NEW source \in Screens
    PROVE  StoreDrawn(OnBackstore(p, area, opcode, source), p, area, opcode, source)
<1> DEFINE reached == InReach(p, area)
           contents == Drawn(p.back, reached, opcode, source)
           q == [p EXCEPT !.back = contents]
<1>1. p.back \in [ScreenCells -> Bits] /\ reached \in SUBSET ScreenCells
    BY DEF PictureOK, Pictures, Screens, InReach
<1> HIDE DEF reached
<1>2. CellsDrawn(contents, p.back, ScreenCells, reached, opcode, source)
    BY <1>1, DrawnIs
<1> HIDE DEF contents
<1>3. contents \in Screens
    BY <1>2 DEF CellsDrawn, Screens
<1>4. /\ q \in Pictures(ScreenWindows) /\ q.win = p.win /\ q.meant = p.meant /\ q.back = contents
      /\ q.saved = p.saved /\ q.clip = p.clip
    BY <1>3 DEF Pictures, PictureOK
<1>5. OnBackstore(p, area, opcode, source) = q
    BY DEF OnBackstore, contents, reached
<1> HIDE DEF q
<1>6. \A v \in ScreenWindows : q.win[v] \in [CellsOf(v) -> Bits]
    BY <1>4 DEF PictureOK
<1> QED
    BY <1>2, <1>4, <1>5, <1>6 DEF StoreDrawn, PictureOK, KeepsRest, reached

\* What an order makes of each cell: one that it does not reach stays, one
\* that it reaches gets the result, and a copy does not ask what was there.
CellDrawn(q, p, reached, opcode, source, c) ==
    \A v \in Bits :
        /\ c \notin reached /\ Shows(p, c, v) => Shows(q, c, v)
        /\ c \in reached /\ Shows(p, c, v) => Shows(q, c, Rop2(opcode, source[c], v))
        /\ c \in reached /\ opcode = ROP_COPY => Shows(q, c, source[c])

Draws(q, p, area, opcode, source) ==
    /\ PictureOK(q, ScreenWindows) /\ KeepsRest(q, p)
    /\ \A c \in ScreenCells : CellDrawn(q, p, InReach(p, area), opcode, source, c)

\* Drawn or copied, on one window
WindowCell(q, p, w, reached, opcode, source, c) ==
    \A v \in Bits :
        /\ c \notin reached /\ (Excused(w, c) \/ p.win[w][c] = v) => Excused(w, c) \/ q.win[w][c] = v
        /\ c \in reached /\ (Excused(w, c) \/ p.win[w][c] = v) =>
              Excused(w, c) \/ q.win[w][c] = Rop2(opcode, source[c], v)
        /\ c \in reached /\ opcode = ROP_COPY => Excused(w, c) \/ q.win[w][c] = source[c]

LEMMA WindowCells ==
    ASSUME Setting, NEW p, PictureOK(p, ScreenWindows), NEW w \in ScreenWindows, NEW area \in SUBSET ScreenCells,
           NEW opcode \in 0 .. 15, NEW source \in Screens, NEW q, NEW c \in CellsOf(w),
           CellsDrawn(q.win[w], p.win[w], CellsOf(w), ReachedOn(w, p, area), opcode, source)
    PROVE  WindowCell(q, p, w, InReach(p, area), opcode, source, c)
<1> DEFINE before == p.win[w][c]
           after == q.win[w][c]
<1>1. after = IF c \in ReachedOn(w, p, area) THEN Rop2(opcode, source[c], before) ELSE before
    BY DEF CellsDrawn
<1>2. before \in Bits /\ c \in ScreenCells /\ source[c] \in Bits
  <2>1. p.win[w] \in [CellsOf(w) -> Bits]
    BY DEF PictureOK
  <2>2. CellsOf(w) \subseteq ScreenCells
    BY AreaAssumption DEF CellsOf
  <2> QED
    BY <2>1, <2>2 DEF Screens
<1>3. Rop2(ROP_COPY, source[c], before) = source[c]
    BY <1>2, Rop2Copy
<1>4. c \in ReachedOn(w, p, area) => c \in InReach(p, area)
    BY DEF ReachedOn
<1>5. c \in InReach(p, area) => c \in ReachedOn(w, p, area) \/ Excused(w, c)
    BY DEF ReachedOn, Excused
<1> HIDE DEF before, after
<1> QED
    BY <1>1, <1>3, <1>4, <1>5 DEF WindowCell, before, after

\* Drawing on all windows, one at a time
LEMMA OnSeamlessIs ==
    ASSUME Setting, NEW p, PictureOK(p, ScreenWindows), NEW area \in SUBSET ScreenCells,
           NEW opcode \in 0 .. 15, NEW source \in Screens
    PROVE  LET q == OnSeamless(p, area, opcode, source)
           IN  /\ PictureOK(q, ScreenWindows) /\ KeepsRest(q, p) /\ q.back = p.back
               /\ q.win[Desktop] = p.win[Desktop]
               /\ SeamlessWnd \in ScreenWindows =>
                     \A c \in CellsOf(SeamlessWnd) : WindowCell(q, p, SeamlessWnd, InReach(p, area), opcode, source, c)
<1> DEFINE q == OnSeamless(p, area, opcode, source)
<1>1. CASE SeamlessWnd \in ScreenWindows
  <2>1. q = OnWindow(p, SeamlessWnd, area, opcode, source)
    BY <1>1 DEF OnSeamless
  <2> HIDE DEF q
  <2>2. WindowDrawn(q, p, SeamlessWnd, area, opcode, source)
    BY <1>1, <2>1, OnWindowIs
  <2>3. Desktop \in ScreenWindows \ {SeamlessWnd}
    BY DEF Setting, WindowSets, Desktop, SeamlessWnd
  <2>4. \A c \in CellsOf(SeamlessWnd) : WindowCell(q, p, SeamlessWnd, InReach(p, area), opcode, source, c)
    BY <1>1, <2>2, WindowCells DEF WindowDrawn
  <2>5. /\ PictureOK(q, ScreenWindows) /\ KeepsRest(q, p) /\ q.back = p.back
        /\ q.win[Desktop] = p.win[Desktop]
    BY <2>2, <2>3 DEF WindowDrawn
  <2> QED
    BY <2>4, <2>5 DEF q
<1>2. CASE SeamlessWnd \notin ScreenWindows
    BY <1>2 DEF OnSeamless, KeepsRest
<1> QED
    BY <1>1, <1>2

OnAllWindows(q, p, area, opcode, source) ==
    /\ PictureOK(q, ScreenWindows) /\ KeepsRest(q, p) /\ q.back = p.back
    /\ \A w \in ScreenWindows, c \in ScreenCells :
          c \in CellsOf(w) => WindowCell(q, p, w, InReach(p, area), opcode, source, c)

LEMMA OnAllWindowsIs ==
    ASSUME Setting, NEW p, PictureOK(p, ScreenWindows), NEW area \in SUBSET ScreenCells,
           NEW opcode \in 0 .. 15, NEW source \in Screens
    PROVE  OnAllWindows(OnSeamless(OnWindow(p, Desktop, area, opcode, source), area, opcode, source),
                        p, area, opcode, source)
<1> DEFINE main == OnWindow(p, Desktop, area, opcode, source)
           q == OnSeamless(main, area, opcode, source)
<1>1. Desktop \in ScreenWindows /\ ScreenWindows \subseteq {Desktop, SeamlessWnd}
    BY DEF Setting, WindowSets
<1>2. WindowDrawn(main, p, Desktop, area, opcode, source)
    BY <1>1, OnWindowIs
<1> HIDE DEF main
<1>3. PictureOK(main, ScreenWindows) /\ KeepsRest(main, p) /\ main.back = p.back
    BY <1>2 DEF WindowDrawn
<1>4. InReach(main, area) = InReach(p, area)
    BY <1>3 DEF KeepsRest, InReach
<1>5. /\ PictureOK(q, ScreenWindows) /\ KeepsRest(q, main) /\ q.back = main.back
      /\ q.win[Desktop] = main.win[Desktop]
      /\ SeamlessWnd \in ScreenWindows =>
            \A c \in CellsOf(SeamlessWnd) : WindowCell(q, main, SeamlessWnd, InReach(main, area), opcode, source, c)
    BY <1>3, OnSeamlessIs
<1> HIDE DEF q
<1>6. \A c \in CellsOf(Desktop) : WindowCell(q, p, Desktop, InReach(p, area), opcode, source, c)
  <2>1. CellsDrawn(q.win[Desktop], p.win[Desktop], CellsOf(Desktop), ReachedOn(Desktop, p, area), opcode, source)
    BY <1>2, <1>5 DEF WindowDrawn
  <2> QED
    BY <1>1, <2>1, WindowCells
<1>7. SeamlessWnd \in ScreenWindows =>
        \A c \in CellsOf(SeamlessWnd) : WindowCell(q, p, SeamlessWnd, InReach(p, area), opcode, source, c)
  <2>1. SeamlessWnd \in ScreenWindows => main.win[SeamlessWnd] = p.win[SeamlessWnd]
    BY <1>2 DEF WindowDrawn, Desktop, SeamlessWnd
  <2> QED
    BY <1>4, <1>5, <2>1 DEF WindowCell
<1>8. KeepsRest(q, p)
    BY <1>3, <1>5 DEF KeepsRest
<1> QED
    BY <1>1, <1>3, <1>5, <1>6, <1>7, <1>8 DEF OnAllWindows, q, main

LEMMA EverywhereDraws ==
    ASSUME Setting, NEW p, PictureOK(p, ScreenWindows), NEW area \in SUBSET ScreenCells,
           NEW opcode \in 0 .. 15, NEW source \in Screens
    PROVE  Draws(Everywhere(p, area, opcode, source), p, area, opcode, source)
<1> DEFINE windows == OnSeamless(OnWindow(p, Desktop, area, opcode, source), area, opcode, source)
           q == Everywhere(p, area, opcode, source)
           reached == InReach(p, area)
<1>1. OnAllWindows(windows, p, area, opcode, source)
    BY OnAllWindowsIs
<1>2. q = IF g_ownbackstore THEN OnBackstore(windows, area, opcode, source) ELSE windows
    BY DEF Everywhere
<1> HIDE DEF windows, q
<1>3. PictureOK(windows, ScreenWindows) /\ KeepsRest(windows, p) /\ windows.back = p.back
    BY <1>1 DEF OnAllWindows
<1>4. InReach(windows, area) = reached
    BY <1>3 DEF KeepsRest, InReach
<1> HIDE DEF reached
<1>5. /\ PictureOK(q, ScreenWindows) /\ KeepsRest(q, windows) /\ q.win = windows.win
      /\ g_ownbackstore => CellsDrawn(q.back, p.back, ScreenCells, reached, opcode, source)
  <2>1. CASE g_ownbackstore
    <3>1. StoreDrawn(q, windows, area, opcode, source)
      BY <1>2, <1>3, <2>1, OnBackstoreIs
    <3> QED
      BY <1>3, <1>4, <3>1 DEF StoreDrawn
  <2>2. CASE ~g_ownbackstore
    BY <1>2, <1>3, <2>2 DEF KeepsRest
  <2> QED
    BY <2>1, <2>2
<1>6. ASSUME NEW c \in ScreenCells PROVE CellDrawn(q, p, reached, opcode, source, c)
  <2>1. \A w \in ScreenWindows : c \in CellsOf(w) => WindowCell(windows, p, w, reached, opcode, source, c)
    BY <1>1 DEF OnAllWindows, reached
  <2>2. \A w \in ScreenWindows : c \in CellsOf(w) => WindowCell(q, p, w, reached, opcode, source, c)
    BY <1>5, <2>1 DEF WindowCell
  <2>3. source[c] \in Bits /\ p.back[c] \in Bits
    BY DEF Screens, PictureOK, Pictures
  <2>4. Rop2(ROP_COPY, source[c], p.back[c]) = source[c]
    BY <2>3, Rop2Copy
  <2>5. g_ownbackstore => q.back[c] = IF c \in reached THEN Rop2(opcode, source[c], p.back[c]) ELSE p.back[c]
    BY <1>5 DEF CellsDrawn
  <2>6. ASSUME NEW v \in Bits, c \notin reached, Shows(p, c, v) PROVE Shows(q, c, v)
    BY <2>2, <2>5, <2>6 DEF Shows, WindowCell
  <2>7. ASSUME NEW v \in Bits, c \in reached, Shows(p, c, v) PROVE Shows(q, c, Rop2(opcode, source[c], v))
    BY <2>2, <2>5, <2>7 DEF Shows, WindowCell
  <2>8. ASSUME c \in reached, opcode = ROP_COPY PROVE Shows(q, c, source[c])
    BY <2>2, <2>3, <2>4, <2>5, <2>8 DEF Shows, WindowCell
  <2> QED
    BY <2>6, <2>7, <2>8 DEF CellDrawn
<1>7. KeepsRest(q, p)
    BY <1>3, <1>5 DEF KeepsRest
<1> QED
    BY <1>5, <1>6, <1>7 DEF Draws, q, reached

\* Without own backing store there is one window, which is the store.
LEMMA StoreIs ==
    ASSUME Setting, NEW p, PictureOK(p, ScreenWindows)
    PROVE  /\ Store(p) \in Screens /\ Desktop \in ScreenWindows
           /\ ~g_ownbackstore => Store(p) = p.win[Desktop] /\ ScreenWindows = {Desktop}
           /\ g_ownbackstore => Store(p) = p.back
<1>1. Desktop \in ScreenWindows /\ (~g_ownbackstore => ScreenWindows = {Desktop})
    BY DEF Setting, WindowSets
<1>2. p.back \in Screens /\ p.win[Desktop] \in Screens
    BY <1>1 DEF PictureOK, Pictures, Screens, CellsOf
<1> QED
    BY <1>1, <1>2 DEF Store

LEMMA ShowsStore ==
    ASSUME Setting, NEW p, PictureOK(p, ScreenWindows), NEW c \in ScreenCells, NEW v
    PROVE  /\ Shows(p, c, v) => Store(p)[c] = v
           /\ ~g_ownbackstore /\ Store(p)[c] = v => Shows(p, c, v)
<1>1. /\ Desktop \in ScreenWindows
      /\ ~g_ownbackstore => Store(p) = p.win[Desktop] /\ ScreenWindows = {Desktop}
      /\ g_ownbackstore => Store(p) = p.back
    BY StoreIs
<1>2. c \in CellsOf(Desktop)
    BY DEF CellsOf
<1> QED
    BY <1>1, <1>2 DEF Shows, Excused

LEMMA OnStoreIs ==
    ASSUME Setting, NEW p, PictureOK(p, ScreenWindows), NEW area \in SUBSET ScreenCells,
           NEW opcode \in 0 .. 15, NEW source \in Screens
    PROVE  LET q == OnStore(p, area, opcode, source)
           IN  /\ PictureOK(q, ScreenWindows) /\ KeepsRest(q, p) /\ (g_ownbackstore => q.win = p.win)
               /\ CellsDrawn(Store(q), Store(p), ScreenCells, InReach(p, area), opcode, source)
               /\ \A c \in ScreenCells \ InReach(p, area), v \in Bits : Shows(p, c, v) => Shows(q, c, v)
<1> DEFINE q == OnStore(p, area, opcode, source)
           reached == InReach(p, area)
<1>1. Desktop \in ScreenWindows
    BY StoreIs
<1>2. CASE g_ownbackstore
  <2>1. q = OnBackstore(p, area, opcode, source)
    BY <1>2 DEF OnStore
  <2> HIDE DEF q
  <2>2. StoreDrawn(q, p, area, opcode, source)
    BY <2>1, OnBackstoreIs
  <2> HIDE DEF reached
  <2>3. /\ PictureOK(q, ScreenWindows) /\ KeepsRest(q, p) /\ q.win = p.win
        /\ CellsDrawn(q.back, p.back, ScreenCells, reached, opcode, source)
    BY <2>2 DEF StoreDrawn, reached
  <2>4. Store(q) = q.back /\ Store(p) = p.back
    BY <1>2 DEF Store
  <2>5. \A c \in ScreenCells \ reached, v \in Bits : Shows(p, c, v) => Shows(q, c, v)
    BY <2>3 DEF Shows, CellsDrawn
  <2> QED
    BY <2>3, <2>4, <2>5 DEF q, reached
<1>3. CASE ~g_ownbackstore
  <2>1. q = OnWindow(p, Desktop, area, opcode, source)
    BY <1>3 DEF OnStore
  <2> HIDE DEF q
  <2>2. WindowDrawn(q, p, Desktop, area, opcode, source)
    BY <1>1, <2>1, OnWindowIs
  <2>3. ReachedOn(Desktop, p, area) = reached
    BY <1>3 DEF ReachedOn
  <2>4. CellsOf(Desktop) = ScreenCells
    BY DEF CellsOf
  <2> HIDE DEF reached
  <2>5. /\ PictureOK(q, ScreenWindows) /\ KeepsRest(q, p)
        /\ CellsDrawn(q.win[Desktop], p.win[Desktop], ScreenCells, reached, opcode, source)
    BY <2>2, <2>3, <2>4 DEF WindowDrawn
  <2>6. Store(q) = q.win[Desktop] /\ Store(p) = p.win[Desktop]
    BY <1>3 DEF Store
  <2>7. \A c \in ScreenCells \ reached : Store(q)[c] = Store(p)[c]
    BY <2>5, <2>6 DEF CellsDrawn
  <2>8. ASSUME NEW c \in ScreenCells \ reached, NEW v \in Bits, Shows(p, c, v)
        PROVE  Shows(q, c, v)
    <3>1. Store(p)[c] = v
      BY <2>8, ShowsStore
    <3>2. Store(q)[c] = v
      BY <2>7, <3>1
    <3> QED
      BY <1>3, <2>5, <3>2, ShowsStore
  <2> QED
    BY <1>3, <2>5, <2>6, <2>8 DEF q, reached
<1> QED
    BY <1>2, <1>3

LEMMA CopyOutIs ==
    ASSUME Setting, NEW p, PictureOK(p, ScreenWindows), NEW area \in SUBSET ScreenCells
    PROVE  LET q == CopyOut(p, area)
           IN  /\ PictureOK(q, ScreenWindows) /\ KeepsRest(q, p)
               /\ \A c \in ScreenCells \cap InReach(p, area) : Shows(q, c, Store(p)[c])
               /\ \A c \in ScreenCells \ InReach(p, area), v \in Bits : Shows(p, c, v) => Shows(q, c, v)
<1> DEFINE q == CopyOut(p, area)
           reached == InReach(p, area)
<1>1. /\ Store(p) \in Screens /\ Desktop \in ScreenWindows
      /\ ~g_ownbackstore => Store(p) = p.win[Desktop] /\ ScreenWindows = {Desktop}
      /\ g_ownbackstore => Store(p) = p.back
    BY StoreIs
<1>2. CASE g_ownbackstore
  <2> DEFINE main == OnWindow(p, Desktop, area, ROP_COPY, p.back)
             source == p.back
  <2>1. source \in Screens /\ ROP_COPY \in 0 .. 15
    BY <1>1, <1>2 DEF ROP_COPY
  <2>2. WindowDrawn(main, p, Desktop, area, ROP_COPY, source)
    BY <1>1, <2>1, OnWindowIs
  <2>3. Store(main) = source
    BY <1>2, <2>2 DEF WindowDrawn, Store
  <2>4. q = OnSeamless(OnWindow(p, Desktop, area, ROP_COPY, source), area, ROP_COPY, source)
    BY <1>2, <2>3 DEF CopyOut
  <2> HIDE DEF q, main, source
  <2>5. OnAllWindows(q, p, area, ROP_COPY, source)
    BY <2>1, <2>4, OnAllWindowsIs
  <2> HIDE DEF reached
  <2>6. /\ PictureOK(q, ScreenWindows) /\ KeepsRest(q, p) /\ q.back = p.back
        /\ \A w \in ScreenWindows, c \in ScreenCells :
              c \in CellsOf(w) => WindowCell(q, p, w, reached, ROP_COPY, source, c)
    BY <2>5 DEF OnAllWindows, reached
  <2>7. ASSUME NEW c \in ScreenCells PROVE source[c] \in Bits
    BY <2>1 DEF Screens
  <2>8. \A c \in ScreenCells \cap reached : Shows(q, c, source[c])
    BY <2>6, <2>7 DEF Shows, WindowCell, source
  <2>9. \A c \in ScreenCells \ reached, v \in Bits : Shows(p, c, v) => Shows(q, c, v)
    BY <2>6 DEF Shows, WindowCell
  <2> QED
    BY <1>1, <1>2, <2>6, <2>8, <2>9 DEF q, reached, source
<1>3. CASE ~g_ownbackstore
  <2>1. q = p
    BY <1>1, <1>3 DEF CopyOut, OnSeamless, Desktop, SeamlessWnd
  <2> HIDE DEF q
  <2>2. \A c \in ScreenCells : Shows(q, c, Store(p)[c])
    BY <1>3, <2>1, ShowsStore
  <2> QED
    BY <2>1, <2>2 DEF q, KeepsRest
<1> QED
    BY <1>2, <1>3

LEMMA StoreAndOutDraws ==
    ASSUME Setting, NEW p, PictureOK(p, ScreenWindows), NEW area \in SUBSET ScreenCells,
           NEW opcode \in 0 .. 15, NEW source \in Screens
    PROVE  Draws(CopyOut(OnStore(p, area, opcode, source), area), p, area, opcode, source)
<1> DEFINE mid == OnStore(p, area, opcode, source)
           q == CopyOut(mid, area)
           reached == InReach(p, area)
<1>1. /\ PictureOK(mid, ScreenWindows) /\ KeepsRest(mid, p)
      /\ CellsDrawn(Store(mid), Store(p), ScreenCells, reached, opcode, source)
      /\ \A c \in ScreenCells \ reached, v \in Bits : Shows(p, c, v) => Shows(mid, c, v)
    BY OnStoreIs
<1> HIDE DEF mid
<1>2. InReach(mid, area) = reached
    BY <1>1 DEF KeepsRest, InReach
<1>3. /\ PictureOK(q, ScreenWindows) /\ KeepsRest(q, mid)
      /\ \A c \in ScreenCells \cap InReach(mid, area) : Shows(q, c, Store(mid)[c])
      /\ \A c \in ScreenCells \ InReach(mid, area), v \in Bits : Shows(mid, c, v) => Shows(q, c, v)
    BY <1>1, CopyOutIs
<1> HIDE DEF q, reached
<1>4. ASSUME NEW c \in ScreenCells PROVE CellDrawn(q, p, reached, opcode, source, c)
  <2>1. c \in reached => Store(mid)[c] = Rop2(opcode, source[c], Store(p)[c]) /\ Shows(q, c, Store(mid)[c])
    BY <1>1, <1>2, <1>3 DEF CellsDrawn
  <2>2. source[c] \in Bits /\ Store(p)[c] \in Bits
    BY StoreIs DEF Screens
  <2>3. Rop2(ROP_COPY, source[c], Store(p)[c]) = source[c]
    BY <2>2, Rop2Copy
  <2>4. ASSUME NEW v \in Bits, c \notin reached, Shows(p, c, v) PROVE Shows(q, c, v)
    BY <1>1, <1>2, <1>3, <2>4
  <2>5. ASSUME NEW v \in Bits, c \in reached, Shows(p, c, v) PROVE Shows(q, c, Rop2(opcode, source[c], v))
    <3>1. Store(p)[c] = v
      BY <2>5, ShowsStore
    <3> QED
      BY <2>1, <2>5, <3>1
  <2>6. ASSUME c \in reached, opcode = ROP_COPY PROVE Shows(q, c, source[c])
    BY <2>1, <2>3, <2>6
  <2> QED
    BY <2>4, <2>5, <2>6 DEF CellDrawn
<1>5. KeepsRest(q, p)
    BY <1>1, <1>3 DEF KeepsRest
<1> QED
    BY <1>3, <1>4, <1>5 DEF Draws, q, mid, reached

-----------------------------------------------------------------------------
(* Orders *)

\* The cells an order reaches show what it means, if they were as meant or
\* are drawn anew, and are not spoiled; all others show what they did.
AsMeant(after, p, area, value, spoiled, whole) ==
    /\ PictureOK(after, ScreenWindows) /\ KeepsRest(after, p)
    /\ \A c \in ScreenCells \ InReach(p, area), v \in Bits : Shows(p, c, v) => Shows(after, c, v)
    /\ \A c \in InReach(p, area) :
          /\ value[c] \in Bits
          /\ c \notin spoiled /\ (whole \/ Shows(p, c, p.meant[c])) => Shows(after, c, value[c])

LEMMA DrawsAsMeant ==
    ASSUME NEW p, PictureOK(p, ScreenWindows), NEW area \in SUBSET ScreenCells,
           NEW opcode \in 0 .. 15, NEW source \in Screens, NEW after, Draws(after, p, area, opcode, source),
           NEW value, \A c \in InReach(p, area) : value[c] = Rop2(opcode, source[c], p.meant[c]),
           NEW whole, whole => opcode = ROP_COPY
    PROVE  AsMeant(after, p, area, value, {}, whole)
<1>1. \A c \in ScreenCells : p.meant[c] \in Bits /\ source[c] \in Bits
    BY DEF PictureOK, Pictures, Screens
<1>2. InReach(p, area) \subseteq ScreenCells
    BY DEF InReach
<1>3. \A c \in ScreenCells : Rop2(opcode, source[c], p.meant[c]) \in Bits /\ Rop2(ROP_COPY, source[c], p.meant[c]) = source[c]
    BY <1>1, Rop2Bit, Rop2Copy
<1>4. ASSUME NEW c \in InReach(p, area), whole \/ Shows(p, c, p.meant[c])
      PROVE  Shows(after, c, value[c])
  <2>1. CellDrawn(after, p, InReach(p, area), opcode, source, c)
    BY <1>2 DEF Draws
  <2>2. CASE whole
    BY <1>2, <1>3, <2>1, <2>2, <1>1 DEF CellDrawn
  <2>3. CASE Shows(p, c, p.meant[c])
    BY <1>1, <1>2, <2>1, <2>3 DEF CellDrawn
  <2> QED
    BY <1>4, <2>2, <2>3
<1>5. \A c \in ScreenCells \ InReach(p, area), v \in Bits : Shows(p, c, v) => Shows(after, c, v)
    BY DEF Draws, CellDrawn
<1> QED
    BY <1>2, <1>3, <1>4, <1>5 DEF AsMeant, Draws

LEMMA PlainIs ==
    ASSUME NEW bit \in Bits
    PROVE  Plain(bit) \in Screens /\ \A c \in ScreenCells : Plain(bit)[c] = bit
BY DEF Plain, Screens

\* The box, the glyphs in it, and both copied out
LEMMA TextAsMeant ==
    ASSUME Setting, NEW p, PictureOK(p, ScreenWindows), NEW box \in SUBSET ScreenCells, NEW glyphs \in SUBSET box,
           NEW background \in Bits
    PROVE  AsMeant(ui_draw_text(p, box, glyphs, background, 1 - background), p, box,
                   [c \in ScreenCells |-> IF c \in glyphs THEN 1 - background ELSE background], {}, TRUE)
<1> DEFINE foreground == 1 - background
           value == [c \in ScreenCells |-> IF c \in glyphs THEN foreground ELSE background]
           first == OnStore(p, box, ROP_COPY, Plain(background))
           second == OnStore(first, glyphs, ROP_COPY, Plain(foreground))
           q == CopyOut(second, box)
           boxReached == InReach(p, box)
           glyphsReached == InReach(p, glyphs)
<1>1. /\ foreground \in Bits /\ ROP_COPY \in 0 .. 15 /\ glyphs \in SUBSET ScreenCells
      /\ Plain(background) \in Screens /\ Plain(foreground) \in Screens
      /\ \A c \in ScreenCells : Plain(background)[c] = background /\ Plain(foreground)[c] = foreground
  <2>1. foreground \in Bits
    BY DEF Bits
  <2> QED
    BY <2>1, PlainIs DEF ROP_COPY
<1>2. \A c \in ScreenCells : value[c] = IF c \in glyphs THEN foreground ELSE background
    OBVIOUS
<1>3. q = ui_draw_text(p, box, glyphs, background, foreground)
    BY DEF ui_draw_text
<1> HIDE DEF value, foreground
<1>4. /\ PictureOK(first, ScreenWindows) /\ KeepsRest(first, p)
      /\ CellsDrawn(Store(first), Store(p), ScreenCells, boxReached, ROP_COPY, Plain(background))
      /\ \A c \in ScreenCells \ boxReached, v \in Bits : Shows(p, c, v) => Shows(first, c, v)
    BY <1>1, OnStoreIs
<1> HIDE DEF first
<1>5. /\ PictureOK(second, ScreenWindows) /\ KeepsRest(second, first)
      /\ CellsDrawn(Store(second), Store(first), ScreenCells, InReach(first, glyphs), ROP_COPY, Plain(foreground))
      /\ \A c \in ScreenCells \ InReach(first, glyphs), v \in Bits : Shows(first, c, v) => Shows(second, c, v)
    BY <1>1, <1>4, OnStoreIs
<1> HIDE DEF second
<1>6. /\ PictureOK(q, ScreenWindows) /\ KeepsRest(q, second)
      /\ \A c \in ScreenCells \cap InReach(second, box) : Shows(q, c, Store(second)[c])
      /\ \A c \in ScreenCells \ InReach(second, box), v \in Bits : Shows(second, c, v) => Shows(q, c, v)
    BY <1>5, CopyOutIs
<1>7. /\ InReach(first, glyphs) = glyphsReached /\ InReach(second, box) = boxReached
      /\ glyphsReached \subseteq boxReached /\ boxReached \subseteq ScreenCells
      /\ \A c \in boxReached : c \in glyphsReached <=> c \in glyphs
    BY <1>4, <1>5 DEF KeepsRest, InReach
<1> HIDE DEF q, boxReached, glyphsReached
<1>8. ASSUME NEW c \in boxReached PROVE Shows(q, c, value[c]) /\ value[c] \in Bits
  <2>1. c \in ScreenCells
    BY <1>7
  <2>2. Store(p)[c] \in Bits /\ Store(first)[c] \in Bits
    BY <1>4, <2>1, StoreIs DEF Screens
  <2>3. Store(first)[c] = background
    BY <1>1, <1>4, <2>1, <2>2, Rop2Copy DEF CellsDrawn
  <2>4. Store(second)[c] = IF c \in glyphs THEN foreground ELSE background
    BY <1>1, <1>5, <1>7, <2>1, <2>2, <2>3, Rop2Copy DEF CellsDrawn
  <2> QED
    BY <1>1, <1>2, <1>6, <1>7, <2>1, <2>4
<1>9. \A c \in ScreenCells \ boxReached, v \in Bits : Shows(p, c, v) => Shows(q, c, v)
    BY <1>4, <1>5, <1>6, <1>7
<1>10. KeepsRest(q, p)
    BY <1>4, <1>5, <1>6 DEF KeepsRest
<1>11. AsMeant(q, p, box, value, {}, TRUE)
    BY <1>6, <1>8, <1>9, <1>10 DEF AsMeant, boxReached
<1> QED
    BY <1>3, <1>11 DEF value, foreground

\* The three operations of three operands are what two or three operations
\* of two operands make of them.
LEMMA TernaryIs ==
    ASSUME NEW pattern \in Bits, NEW bitmap \in Bits, NEW d \in Bits
    PROVE  /\ Rop2(ROP_NXOR, pattern, Rop2(ROP_XOR, bitmap, d)) = Rop3(105, pattern, bitmap, d)
           /\ Rop2(ROP_XOR, pattern, Rop2(ROP_AND, bitmap, Rop2(ROP_XOR, pattern, d))) = Rop3(184, pattern, bitmap, d)
           /\ Rop2(ROP_AND, pattern, Rop2(ROP_COPY, bitmap, d)) = Rop3(192, pattern, bitmap, d)
<1>1. \A a, b \in Bits :
        /\ Rop2(ROP_XOR, a, b) = IF a = b THEN 0 ELSE 1
        /\ Rop2(ROP_NXOR, a, b) = IF a = b THEN 1 ELSE 0
        /\ Rop2(ROP_AND, a, b) = IF a = 1 /\ b = 1 THEN 1 ELSE 0
        /\ Rop2(ROP_COPY, a, b) = a
    BY DEF Rop2, BitOf, Weights, ROP_NXOR, ROP_XOR, ROP_AND, ROP_COPY, Bits
<1>2. Rop3(105, pattern, bitmap, d) = IF (IF bitmap = d THEN 0 ELSE 1) = pattern THEN 1 ELSE 0
    BY DEF Rop3, BitOf, Weights, Bits
<1>3. Rop3(184, pattern, bitmap, d) = IF bitmap = 1 THEN d ELSE pattern
    BY DEF Rop3, BitOf, Weights, Bits
<1>4. Rop3(192, pattern, bitmap, d) = IF pattern = 1 /\ bitmap = 1 THEN 1 ELSE 0
    BY DEF Rop3, BitOf, Weights, Bits
<1>5. Rop2(ROP_XOR, bitmap, d) \in Bits /\ Rop2(ROP_XOR, pattern, d) \in Bits /\ Rop2(ROP_COPY, bitmap, d) \in Bits
    BY <1>1 DEF Bits
<1>6. Rop2(ROP_NXOR, pattern, Rop2(ROP_XOR, bitmap, d)) = Rop3(105, pattern, bitmap, d)
    BY <1>1, <1>2, <1>5 DEF Bits
<1>7. Rop2(ROP_AND, bitmap, Rop2(ROP_XOR, pattern, d)) \in Bits
    BY <1>1, <1>5 DEF Bits
<1>8. Rop2(ROP_XOR, pattern, Rop2(ROP_AND, bitmap, Rop2(ROP_XOR, pattern, d))) = Rop3(184, pattern, bitmap, d)
    BY <1>1, <1>3, <1>5, <1>7 DEF Bits
<1>9. Rop2(ROP_AND, pattern, Rop2(ROP_COPY, bitmap, d)) = Rop3(192, pattern, bitmap, d)
    BY <1>1, <1>4, <1>5 DEF Bits
<1> QED
    BY <1>6, <1>8, <1>9

\* Drawing after drawing: a cell that shows what it should goes on doing so.
ShowsFrom(q, p, reached, d, result) ==
    \A c \in ScreenCells :
        /\ \A v \in Bits : c \notin reached /\ Shows(p, c, v) => Shows(q, c, v)
        /\ c \in reached /\ Shows(p, c, d[c]) => Shows(q, c, result[c])

LEMMA DrawsFrom ==
    ASSUME Setting, NEW start, NEW p, NEW q, NEW area \in SUBSET ScreenCells, NEW opcode \in 0 .. 15, NEW bit \in Bits,
           PictureOK(p, ScreenWindows), KeepsRest(p, start), NEW d, NEW before,
           \A c \in ScreenCells : before[c] \in Bits,
           ShowsFrom(p, start, InReach(start, area), d, before),
           Draws(q, p, area, opcode, Plain(bit))
    PROVE  /\ PictureOK(q, ScreenWindows) /\ KeepsRest(q, start)
           /\ ShowsFrom(q, start, InReach(start, area), d, [c \in ScreenCells |-> Rop2(opcode, bit, before[c])])
<1> DEFINE reached == InReach(start, area)
           after == [c \in ScreenCells |-> Rop2(opcode, bit, before[c])]
<1>1. InReach(p, area) = reached
    BY DEF KeepsRest, InReach
<1>2. \A c \in ScreenCells : Plain(bit)[c] = bit /\ after[c] = Rop2(opcode, bit, before[c])
    BY PlainIs
<1> HIDE DEF after, reached
<1>3. /\ PictureOK(q, ScreenWindows) /\ KeepsRest(q, start)
      /\ \A c \in ScreenCells : CellDrawn(q, p, reached, opcode, Plain(bit), c)
    BY <1>1 DEF Draws, KeepsRest
<1>4. ASSUME NEW c \in ScreenCells, NEW v \in Bits, c \notin reached, Shows(start, c, v) PROVE Shows(q, c, v)
    BY <1>3, <1>4 DEF ShowsFrom, CellDrawn, reached
<1>5. ASSUME NEW c \in ScreenCells, c \in reached, Shows(start, c, d[c]) PROVE Shows(q, c, after[c])
  <2>1. Shows(p, c, before[c])
    BY <1>5 DEF ShowsFrom, reached
  <2> QED
    BY <1>2, <1>3, <1>5, <2>1 DEF CellDrawn
<1>6. ShowsFrom(q, start, reached, d, after)
    BY <1>4, <1>5 DEF ShowsFrom
<1> QED
    BY <1>3, <1>6 DEF after, reached

LEMMA TriAsMeant ==
    ASSUME Setting, NEW p, PictureOK(p, ScreenWindows), NEW area \in SUBSET ScreenCells, NEW opcode \in Ternary,
           NEW bitmap \in Bits, NEW pattern \in Bits
    PROVE  AsMeant(ui_triblt(p, opcode, area, Plain(bitmap), Plain(pattern)), p, area,
                   [c \in ScreenCells |-> Rop3(opcode, pattern, bitmap, p.meant[c])], {}, FALSE)
<1> DEFINE d == p.meant
           reached == InReach(p, area)
           value == [c \in ScreenCells |-> Rop3(opcode, pattern, bitmap, d[c])]
           Mem(x, o) == ui_memblt(x, o, area, Plain(bitmap))
           Pat(x, o) == ui_patblt(x, o, area, Plain(pattern))
           Result(bit, o, before) == [c \in ScreenCells |-> Rop2(o, bit, before[c])]
           q == ui_triblt(p, opcode, area, Plain(bitmap), Plain(pattern))
           Codes == {ROP_XOR, ROP_NXOR, ROP_AND, ROP_COPY}
<1>1. \A c \in ScreenCells : d[c] \in Bits
    BY DEF PictureOK, Pictures, Screens
<1>2. \A o \in Codes : o \in 0 .. 15
    BY DEF ROP_XOR, ROP_NXOR, ROP_AND, ROP_COPY
<1>3. Plain(bitmap) \in Screens /\ Plain(pattern) \in Screens
    BY PlainIs
<1>4. ASSUME NEW x, PictureOK(x, ScreenWindows), NEW o \in Codes
      PROVE  Draws(Mem(x, o), x, area, o, Plain(bitmap)) /\ Draws(Pat(x, o), x, area, o, Plain(pattern))
    BY <1>2, <1>3, <1>4, EverywhereDraws, StoreAndOutDraws DEF ui_memblt, ui_patblt
<1>5. ASSUME NEW o \in Codes, NEW before, \A c \in ScreenCells : before[c] \in Bits, NEW bit \in Bits
      PROVE  \A c \in ScreenCells : Result(bit, o, before)[c] = Rop2(o, bit, before[c]) /\ Result(bit, o, before)[c] \in Bits
    BY <1>2, <1>5, Rop2Bit
<1>6. KeepsRest(p, p) /\ ShowsFrom(p, p, reached, d, d)
    BY DEF KeepsRest, ShowsFrom
<1> HIDE DEF d, reached, Mem, Pat, Result, q, Codes
<1>7. ASSUME NEW x, PictureOK(x, ScreenWindows), KeepsRest(x, p), NEW o \in Codes, NEW before,
             \A c \in ScreenCells : before[c] \in Bits, ShowsFrom(x, p, reached, d, before)
      PROVE  /\ PictureOK(Mem(x, o), ScreenWindows) /\ KeepsRest(Mem(x, o), p)
             /\ ShowsFrom(Mem(x, o), p, reached, d, Result(bitmap, o, before))
             /\ PictureOK(Pat(x, o), ScreenWindows) /\ KeepsRest(Pat(x, o), p)
             /\ ShowsFrom(Pat(x, o), p, reached, d, Result(pattern, o, before))
  <2>1. o \in 0 .. 15 /\ ShowsFrom(x, p, InReach(p, area), d, before)
    BY <1>2, <1>7 DEF reached
  <2>2. Draws(Mem(x, o), x, area, o, Plain(bitmap)) /\ Draws(Pat(x, o), x, area, o, Plain(pattern))
    BY <1>4, <1>7
  <2>3. /\ PictureOK(Mem(x, o), ScreenWindows) /\ KeepsRest(Mem(x, o), p)
        /\ ShowsFrom(Mem(x, o), p, InReach(p, area), d, [c \in ScreenCells |-> Rop2(o, bitmap, before[c])])
    BY <1>7, <2>1, <2>2, DrawsFrom
  <2>4. /\ PictureOK(Pat(x, o), ScreenWindows) /\ KeepsRest(Pat(x, o), p)
        /\ ShowsFrom(Pat(x, o), p, InReach(p, area), d, [c \in ScreenCells |-> Rop2(o, pattern, before[c])])
    BY <1>7, <2>1, <2>2, DrawsFrom
  <2> QED
    BY <2>3, <2>4 DEF Result, reached
<1>8. /\ PictureOK(q, ScreenWindows) /\ KeepsRest(q, p)
      /\ \E result : ShowsFrom(q, p, reached, d, result)
                     /\ \A c \in ScreenCells : result[c] = Rop3(opcode, pattern, bitmap, d[c]) /\ result[c] \in Bits
  <2>0. ROP_XOR \in Codes /\ ROP_NXOR \in Codes /\ ROP_AND \in Codes /\ ROP_COPY \in Codes
    BY DEF Codes
  <2>1. CASE opcode = 105
    <3> DEFINE m == Mem(p, ROP_XOR)
               r == Result(bitmap, ROP_XOR, d)
               s == Result(pattern, ROP_NXOR, r)
    <3>1. q = Pat(m, ROP_NXOR)
      BY <2>1 DEF q, ui_triblt, Mem, Pat
    <3>2. PictureOK(m, ScreenWindows) /\ KeepsRest(m, p) /\ ShowsFrom(m, p, reached, d, r)
      BY <1>1, <1>6, <1>7, <2>0
    <3>3. \A c \in ScreenCells : r[c] = Rop2(ROP_XOR, bitmap, d[c]) /\ r[c] \in Bits
      BY <1>1, <1>5, <2>0
    <3> HIDE DEF m, r
    <3>4. PictureOK(q, ScreenWindows) /\ KeepsRest(q, p) /\ ShowsFrom(q, p, reached, d, s)
      BY <1>7, <2>0, <3>1, <3>2, <3>3
    <3>5. \A c \in ScreenCells : s[c] = Rop2(ROP_NXOR, pattern, r[c]) /\ s[c] \in Bits
      BY <1>5, <2>0, <3>3
    <3> HIDE DEF s
    <3>6. ASSUME NEW c \in ScreenCells PROVE s[c] = Rop3(opcode, pattern, bitmap, d[c])
      <4>1. d[c] \in Bits
        BY <1>1
      <4>2. Rop2(ROP_NXOR, pattern, Rop2(ROP_XOR, bitmap, d[c])) = Rop3(105, pattern, bitmap, d[c])
        BY <4>1, TernaryIs
      <4>3. s[c] = Rop2(ROP_NXOR, pattern, Rop2(ROP_XOR, bitmap, d[c]))
        BY <3>3, <3>5
      <4> QED
        BY <2>1, <4>2, <4>3
    <3> QED
      BY <3>4, <3>5, <3>6
  <2>2. CASE opcode = 184
    <3> DEFINE k == Pat(p, ROP_XOR)
               m == Mem(k, ROP_AND)
               t == Result(pattern, ROP_XOR, d)
               r == Result(bitmap, ROP_AND, t)
               s == Result(pattern, ROP_XOR, r)
    <3>1. q = Pat(m, ROP_XOR)
      BY <2>2 DEF q, ui_triblt, Mem, Pat
    <3>2. PictureOK(k, ScreenWindows) /\ KeepsRest(k, p) /\ ShowsFrom(k, p, reached, d, t)
      BY <1>1, <1>6, <1>7, <2>0
    <3>3. \A c \in ScreenCells : t[c] = Rop2(ROP_XOR, pattern, d[c]) /\ t[c] \in Bits
      BY <1>1, <1>5, <2>0
    <3> HIDE DEF k, t
    <3>4. PictureOK(m, ScreenWindows) /\ KeepsRest(m, p) /\ ShowsFrom(m, p, reached, d, r)
      BY <1>7, <2>0, <3>2, <3>3
    <3>5. \A c \in ScreenCells : r[c] = Rop2(ROP_AND, bitmap, t[c]) /\ r[c] \in Bits
      BY <1>5, <2>0, <3>3
    <3> HIDE DEF m, r
    <3>6. PictureOK(q, ScreenWindows) /\ KeepsRest(q, p) /\ ShowsFrom(q, p, reached, d, s)
      BY <1>7, <2>0, <3>1, <3>4, <3>5
    <3>7. \A c \in ScreenCells : s[c] = Rop2(ROP_XOR, pattern, r[c]) /\ s[c] \in Bits
      BY <1>5, <2>0, <3>5
    <3> HIDE DEF s
    <3>8. ASSUME NEW c \in ScreenCells PROVE s[c] = Rop3(opcode, pattern, bitmap, d[c])
      <4>1. d[c] \in Bits
        BY <1>1
      <4>2. Rop2(ROP_XOR, pattern, Rop2(ROP_AND, bitmap, Rop2(ROP_XOR, pattern, d[c]))) = Rop3(184, pattern, bitmap, d[c])
        BY <4>1, TernaryIs
      <4>3. s[c] = Rop2(ROP_XOR, pattern, Rop2(ROP_AND, bitmap, Rop2(ROP_XOR, pattern, d[c])))
        BY <3>3, <3>5, <3>7
      <4> QED
        BY <2>2, <4>2, <4>3
    <3> QED
      BY <3>6, <3>7, <3>8
  <2>3. CASE opcode = 192
    <3> DEFINE m == Mem(p, ROP_COPY)
               r == Result(bitmap, ROP_COPY, d)
               s == Result(pattern, ROP_AND, r)
    <3>1. q = Pat(m, ROP_AND)
      BY <2>3 DEF q, ui_triblt, Mem, Pat
    <3>2. PictureOK(m, ScreenWindows) /\ KeepsRest(m, p) /\ ShowsFrom(m, p, reached, d, r)
      BY <1>1, <1>6, <1>7, <2>0
    <3>3. \A c \in ScreenCells : r[c] = Rop2(ROP_COPY, bitmap, d[c]) /\ r[c] \in Bits
      BY <1>1, <1>5, <2>0
    <3> HIDE DEF m, r
    <3>4. PictureOK(q, ScreenWindows) /\ KeepsRest(q, p) /\ ShowsFrom(q, p, reached, d, s)
      BY <1>7, <2>0, <3>1, <3>2, <3>3
    <3>5. \A c \in ScreenCells : s[c] = Rop2(ROP_AND, pattern, r[c]) /\ s[c] \in Bits
      BY <1>5, <2>0, <3>3
    <3> HIDE DEF s
    <3>6. ASSUME NEW c \in ScreenCells PROVE s[c] = Rop3(opcode, pattern, bitmap, d[c])
      <4>1. d[c] \in Bits
        BY <1>1
      <4>2. Rop2(ROP_AND, pattern, Rop2(ROP_COPY, bitmap, d[c])) = Rop3(192, pattern, bitmap, d[c])
        BY <4>1, TernaryIs
      <4>3. s[c] = Rop2(ROP_AND, pattern, Rop2(ROP_COPY, bitmap, d[c]))
        BY <3>3, <3>5
      <4> QED
        BY <2>3, <4>2, <4>3
    <3> QED
      BY <3>4, <3>5, <3>6
  <2> QED
    BY <2>1, <2>2, <2>3 DEF Ternary
<1>9. PICK result : ShowsFrom(q, p, reached, d, result)
                    /\ \A c \in ScreenCells : result[c] = Rop3(opcode, pattern, bitmap, d[c]) /\ result[c] \in Bits
    BY <1>8
<1>10. \A c \in ScreenCells : value[c] = result[c]
    BY <1>9
<1> HIDE DEF value
<1>11. reached \subseteq ScreenCells
    BY DEF reached, InReach
<1>12. \A c \in reached : value[c] \in Bits /\ (Shows(p, c, d[c]) => Shows(q, c, value[c]))
    BY <1>9, <1>10, <1>11 DEF ShowsFrom
<1>13. \A c \in ScreenCells \ reached, v \in Bits : Shows(p, c, v) => Shows(q, c, v)
    BY <1>9 DEF ShowsFrom
<1>14. AsMeant(q, p, area, value, {}, FALSE)
    BY <1>8, <1>12, <1>13 DEF AsMeant, reached, d
<1> QED
    BY <1>14 DEF q, value, d

LEMMA MovedIs ==
    ASSUME NEW from \in Screens, NEW by
    PROVE  /\ Moved(from, by) \in Screens
           /\ \A c \in ScreenCells : c - by \in ScreenCells => Moved(from, by)[c] = from[c - by]
<1>1. \A c \in ScreenCells : from[c] \in Bits
    BY DEF Screens
<1>2. 0 \in Bits
    BY DEF Bits
<1> QED
    BY <1>1, <1>2 DEF Moved, Screens

\* A copy within the screen: what comes from is known, on the screen and in
\* the store.
KnownCell(p, c, by) ==
    /\ c - by \in ScreenCells /\ Shows(p, c - by, p.meant[c - by])
    /\ g_ownbackstore /\ g_Unobscured => p.win[Desktop][c - by] = p.meant[c - by]

LEMMA ScreenbltAsMeant ==
    ASSUME Setting, NEW p, PictureOK(p, ScreenWindows), NEW area \in SUBSET ScreenCells, NEW opcode \in 0 .. 15,
           NEW by, \A c \in area : c - by \in ScreenCells,
           NEW spoiled,
           \A c \in area \ spoiled : KnownCell(p, c, by) /\ (SeamlessWnd \in ScreenWindows => opcode = ROP_COPY)
    PROVE  AsMeant(ui_screenblt(p, opcode, area, by), p, area,
                   [c \in area |-> Rop2(opcode, p.meant[c - by], p.meant[c])], spoiled, opcode = ROP_COPY)
<1> DEFINE from == IF g_ownbackstore /\ ~g_Unobscured THEN p.back ELSE p.win[Desktop]
           main == OnWindow(p, Desktop, area, opcode, Moved(from, by))
           store == IF g_ownbackstore THEN OnBackstore(main, area, opcode, Moved(main.back, by)) ELSE main
           q == OnSeamless(store, area, opcode, Store(store))
           value == [c \in area |-> Rop2(opcode, p.meant[c - by], p.meant[c])]
           reached == InReach(p, area)
<1>1. q = ui_screenblt(p, opcode, area, by)
    BY DEF ui_screenblt
<1>2. /\ Desktop \in ScreenWindows /\ p.back \in Screens /\ p.win[Desktop] \in Screens /\ p.meant \in Screens
      /\ ~g_ownbackstore => ScreenWindows = {Desktop}
  <2>1. Desktop \in ScreenWindows /\ (~g_ownbackstore => ScreenWindows = {Desktop})
    BY StoreIs
  <2> QED
    BY <2>1 DEF PictureOK, Pictures, Screens, CellsOf
<1>3. /\ Moved(from, by) \in Screens
      /\ \A c \in ScreenCells : c - by \in ScreenCells => Moved(from, by)[c] = from[c - by]
  <2>1. from \in Screens
    BY <1>2
  <2> HIDE DEF from
  <2> QED
    BY <2>1, MovedIs
<1>4. /\ Moved(p.back, by) \in Screens
      /\ \A c \in ScreenCells : c - by \in ScreenCells => Moved(p.back, by)[c] = p.back[c - by]
    BY <1>2, MovedIs
<1>5. /\ reached \subseteq area /\ reached \subseteq ScreenCells
      /\ \A c \in reached : value[c] = Rop2(opcode, p.meant[c - by], p.meant[c]) /\ c - by \in ScreenCells
    BY DEF InReach
<1>6. \A c \in ScreenCells : p.meant[c] \in Bits /\ p.back[c] \in Bits /\ p.win[Desktop][c] \in Bits
    BY <1>2 DEF Screens
<1>7. \A c \in reached : value[c] \in Bits
    BY <1>5, <1>6, Rop2Bit
<1>8. \A c \in reached, d \in Bits : opcode = ROP_COPY => Rop2(opcode, p.meant[c - by], d) = value[c]
  <2>1. ASSUME NEW c \in reached, NEW d \in Bits, opcode = ROP_COPY
        PROVE  Rop2(opcode, p.meant[c - by], d) = value[c]
    <3>1. Rop2(ROP_COPY, p.meant[c - by], d) = p.meant[c - by] /\ Rop2(ROP_COPY, p.meant[c - by], p.meant[c]) = p.meant[c - by]
      BY <1>5, <1>6, Rop2Copy
    <3> QED
      BY <1>5, <2>1, <3>1
  <2> QED
    BY <2>1
\* Where the copy comes from, it is as meant.
<1>9. \A c \in reached \ spoiled : Moved(from, by)[c] = p.meant[c - by] /\ (g_ownbackstore => p.back[c - by] = p.meant[c - by])
  <2> SUFFICES ASSUME NEW c \in reached \ spoiled
               PROVE  Moved(from, by)[c] = p.meant[c - by] /\ (g_ownbackstore => p.back[c - by] = p.meant[c - by])
    OBVIOUS
  <2>1. KnownCell(p, c, by)
    BY <1>5
  <2>2. g_ownbackstore => p.back[c - by] = p.meant[c - by]
    BY <2>1 DEF KnownCell, Shows
  <2>3. ~g_ownbackstore => p.win[Desktop][c - by] = p.meant[c - by]
    BY <1>2, <2>1 DEF KnownCell, Shows, Excused, CellsOf
  <2>4. from[c - by] = p.meant[c - by]
    BY <2>1, <2>2, <2>3 DEF KnownCell
  <2>5. c \in ScreenCells /\ c - by \in ScreenCells
    BY <1>5
  <2> HIDE DEF from
  <2> QED
    BY <1>3, <2>2, <2>4, <2>5
<1>10. WindowDrawn(main, p, Desktop, area, opcode, Moved(from, by))
    BY <1>2, <1>3, OnWindowIs
<1>11. PictureOK(main, ScreenWindows) /\ KeepsRest(main, p) /\ main.back = p.back
    BY <1>10 DEF WindowDrawn
<1>12. InReach(main, area) = reached
    BY <1>11 DEF KeepsRest, InReach
<1>13. \A c \in ScreenCells : WindowCell(main, p, Desktop, reached, opcode, Moved(from, by), c)
  <2>1. CellsDrawn(main.win[Desktop], p.win[Desktop], CellsOf(Desktop), ReachedOn(Desktop, p, area), opcode, Moved(from, by))
    BY <1>10 DEF WindowDrawn
  <2>2. CellsOf(Desktop) = ScreenCells
    BY DEF CellsOf
  <2> HIDE DEF main
  <2> QED
    BY <1>2, <1>3, <2>1, <2>2, WindowCells
<1>14. \A w \in ScreenWindows \ {Desktop} : main.win[w] = p.win[w]
    BY <1>10 DEF WindowDrawn
<1>15. store = IF g_ownbackstore THEN OnBackstore(main, area, opcode, Moved(p.back, by)) ELSE main
    BY <1>11
<1> HIDE DEF main, from, value
<1>16. /\ PictureOK(store, ScreenWindows) /\ KeepsRest(store, main) /\ store.win = main.win
       /\ g_ownbackstore => CellsDrawn(store.back, p.back, ScreenCells, reached, opcode, Moved(p.back, by))
  <2> HIDE DEF store
  <2>1. CASE g_ownbackstore
    <3>1. store = OnBackstore(main, area, opcode, Moved(p.back, by))
      BY <1>15, <2>1
    <3>2. StoreDrawn(store, main, area, opcode, Moved(p.back, by))
      BY <1>4, <1>11, <3>1, OnBackstoreIs
    <3> QED
      BY <1>11, <1>12, <3>2 DEF StoreDrawn
  <2>2. CASE ~g_ownbackstore
    BY <1>11, <1>15, <2>2 DEF KeepsRest
  <2> QED
    BY <2>1, <2>2
<1> HIDE DEF store
<1>17. InReach(store, area) = reached
    BY <1>12, <1>16 DEF KeepsRest, InReach
<1>18. Store(store) \in Screens
    BY <1>16, StoreIs
<1>19. /\ PictureOK(q, ScreenWindows) /\ KeepsRest(q, store) /\ q.back = store.back
       /\ q.win[Desktop] = store.win[Desktop]
       /\ SeamlessWnd \in ScreenWindows =>
             \A c \in CellsOf(SeamlessWnd) :
                WindowCell(q, store, SeamlessWnd, reached, opcode, Store(store), c)
    BY <1>16, <1>17, <1>18, OnSeamlessIs
<1> HIDE DEF q, reached
<1>20. KeepsRest(q, p)
    BY <1>11, <1>16, <1>19 DEF KeepsRest
<1>21. \A c \in ScreenCells : WindowCell(q, p, Desktop, reached, opcode, Moved(from, by), c)
    BY <1>13, <1>16, <1>19 DEF WindowCell
<1>22. g_ownbackstore => CellsDrawn(q.back, p.back, ScreenCells, reached, opcode, Moved(p.back, by))
    BY <1>16, <1>19
<1>23. SeamlessWnd \in ScreenWindows =>
          /\ g_ownbackstore
          /\ \A c \in CellsOf(SeamlessWnd) : WindowCell(q, p, SeamlessWnd, reached, opcode, q.back, c)
  <2>1. SeamlessWnd \in ScreenWindows => g_ownbackstore
    BY DEF Setting
  <2>2. g_ownbackstore => Store(store) = q.back
    BY <1>19 DEF Store
  <2>3. SeamlessWnd \in ScreenWindows => store.win[SeamlessWnd] = p.win[SeamlessWnd]
    BY <1>14, <1>16 DEF Desktop, SeamlessWnd
  <2> QED
    BY <1>19, <2>1, <2>2, <2>3 DEF WindowCell
<1>24. \A w \in ScreenWindows : w = Desktop \/ w = SeamlessWnd
    BY DEF Setting, WindowSets
<1>25. ASSUME NEW c \in ScreenCells \ reached, NEW v \in Bits, Shows(p, c, v)
       PROVE  Shows(q, c, v)
  <2>1. g_ownbackstore => q.back[c] = v
    BY <1>22, <1>25 DEF CellsDrawn, Shows
  <2>2. ASSUME NEW w \in ScreenWindows, c \in CellsOf(w) PROVE Excused(w, c) \/ q.win[w][c] = v
    <3>1. Excused(w, c) \/ p.win[w][c] = v
      BY <1>25, <2>2 DEF Shows
    <3> QED
      BY <1>21, <1>23, <1>24, <1>25, <2>2, <3>1 DEF WindowCell
  <2> QED
    BY <2>1, <2>2 DEF Shows
<1>26. ASSUME NEW c \in reached, c \notin spoiled, opcode = ROP_COPY \/ Shows(p, c, p.meant[c])
       PROVE  Shows(q, c, value[c])
  <2>1. /\ c \in ScreenCells /\ c \in area /\ c - by \in ScreenCells
        /\ SeamlessWnd \in ScreenWindows => opcode = ROP_COPY
    BY <1>5, <1>26
  <2>2. Moved(from, by)[c] = p.meant[c - by]
    BY <1>9, <1>26
  <2>3. g_ownbackstore => Moved(p.back, by)[c] = p.meant[c - by]
    BY <1>4, <1>9, <1>26, <2>1
  <2>4. opcode = ROP_COPY => value[c] = p.meant[c - by]
    BY <1>5, <1>6, <1>26, <2>1, Rop2Copy
  <2>5. g_ownbackstore => q.back[c] = value[c]
    <3>1. g_ownbackstore => q.back[c] = Rop2(opcode, p.meant[c - by], p.back[c])
      BY <1>22, <1>26, <2>1, <2>3 DEF CellsDrawn
    <3>2. CASE opcode = ROP_COPY
      BY <1>6, <1>8, <1>26, <2>1, <3>1, <3>2
    <3>3. CASE Shows(p, c, p.meant[c])
      <4>1. g_ownbackstore => p.back[c] = p.meant[c]
        BY <3>3 DEF Shows
      <4> QED
        BY <1>5, <1>26, <3>1, <4>1
    <3> QED
      BY <1>26, <3>2, <3>3
  <2>6. Excused(Desktop, c) \/ q.win[Desktop][c] = value[c]
    <3>1. WindowCell(q, p, Desktop, reached, opcode, Moved(from, by), c)
      BY <1>21, <2>1
    <3>2. CASE opcode = ROP_COPY
      BY <1>6, <1>26, <2>1, <2>2, <2>4, <3>1, <3>2 DEF WindowCell
    <3>3. CASE Shows(p, c, p.meant[c])
      <4>1. Excused(Desktop, c) \/ p.win[Desktop][c] = p.meant[c]
        BY <1>2, <2>1, <3>3 DEF Shows, CellsOf
      <4> QED
        BY <1>5, <1>6, <1>26, <2>1, <2>2, <3>1, <4>1 DEF WindowCell
    <3> QED
      BY <1>26, <3>2, <3>3
  <2>7. SeamlessWnd \in ScreenWindows /\ c \in CellsOf(SeamlessWnd) =>
           Excused(SeamlessWnd, c) \/ q.win[SeamlessWnd][c] = value[c]
    BY <1>6, <1>23, <1>26, <2>1, <2>5 DEF WindowCell
  <2> QED
    BY <1>24, <2>5, <2>6, <2>7 DEF Shows
<1>27. AsMeant(q, p, area, value, spoiled, opcode = ROP_COPY)
    BY <1>7, <1>19, <1>20, <1>25, <1>26 DEF AsMeant, reached
<1> QED
    BY <1>1, <1>27 DEF value

-----------------------------------------------------------------------------
(* The invariant *)

ScreenTypes ==
    /\ Setting /\ PictureOK(picture, ScreenWindows) /\ picture.clip = ScreenCells
    /\ xevents \in Seq(ScreenEvents) /\ smudged \subseteq ScreenCells /\ g_Unobscured \in BOOLEAN

\* X is asked to tell of what is uncovered only if there is an own backing store.
ExposesKnown ==
    \A i \in DOMAIN xevents :
        xevents[i].kind = "Expose" => g_ownbackstore /\ xevents[i].window \in ScreenWindows

\* Stronger than the property: without own backing store, what is covered is
\* as meant as well.
EachShown == \A c \in ScreenCells \ smudged : Shows(picture, c, picture.meant[c])

ScreenState == ScreenTypes /\ ExposesKnown /\ EachShown

\* Only what is drawn counts.
SameShown(q, p) == q.back = p.back /\ q.win = p.win

LEMMA SameShows ==
    ASSUME NEW q, NEW p, SameShown(q, p), NEW c, NEW v
    PROVE  Shows(q, c, v) <=> Shows(p, c, v)
BY DEF SameShown, Shows

Scene == <<hidden, xevents, g_Unobscured, g_ownbackstore>>

\* A step that only draws: the same windows, covered in the same places.
LEMMA SceneKept ==
    ASSUME ScreenState, picture' \in Pictures(ScreenWindows), UNCHANGED Scene
    PROVE  /\ ScreenWindows' = ScreenWindows
           /\ \A c, v : Shows(picture, c, v)' <=> Shows(picture', c, v)
<1>1. ScreenWindows' = ScreenWindows
    BY DEF ScreenWindows, Pictures
<1>2. \A w, c : Excused(w, c)' <=> Excused(w, c)
    BY DEF Excused, Awaited, Scene
<1>3. \A c, v : Shows(picture, c, v)' <=> Shows(picture', c, v)
    BY <1>1, <1>2 DEF Shows, Scene
<1> QED
    BY <1>1, <1>3

LEMMA SceneStep ==
    ASSUME ScreenState, PictureOK(picture', ScreenWindows), picture'.clip = ScreenCells, UNCHANGED Scene,
           smudged' \subseteq ScreenCells,
           \A c \in ScreenCells \ smudged' : Shows(picture', c, picture'.meant[c])
    PROVE  ScreenState'
<1>1. /\ ScreenWindows' = ScreenWindows
      /\ \A c, v : Shows(picture, c, v)' <=> Shows(picture', c, v)
    BY SceneKept DEF PictureOK
<1>2. ScreenTypes'
    BY <1>1 DEF ScreenState, ScreenTypes, Setting, PictureOK, Scene
<1>3. ExposesKnown'
    BY <1>1 DEF ScreenState, ExposesKnown, Scene
<1>4. EachShown'
    BY <1>1 DEF EachShown
<1> QED
    BY <1>2, <1>3, <1>4 DEF ScreenState

LEMMA DrawingKeeps ==
    ASSUME ScreenState, NEW bounds \in SUBSET ScreenCells, NEW area \in SUBSET ScreenCells,
           NEW after, NEW value, NEW spoiled, NEW whole \in BOOLEAN,
           AsMeant(after, ui_set_clip(picture, bounds), area, value, spoiled, whole),
           Drawing(after, area, value, spoiled, whole), UNCHANGED Scene
    PROVE  ScreenState'
<1> DEFINE p == ui_set_clip(picture, bounds)
           meant == [c \in ScreenCells |-> IF c \in InReach(after, area) THEN value[c] ELSE after.meant[c]]
           middle == [after EXCEPT !.meant = meant]
           q == [middle EXCEPT !.clip = ScreenCells]
           reached == InReach(p, area)
<1>1. picture \in Pictures(ScreenWindows) /\ smudged \subseteq ScreenCells
    BY DEF ScreenState, ScreenTypes, PictureOK
<1>2. /\ p.meant = picture.meant /\ SameShown(p, picture)
  <2>1. p = [picture EXCEPT !.clip = bounds]
    BY DEF ui_set_clip
  <2> QED
    BY <1>1, <2>1 DEF Pictures, SameShown
<1>3. \A c \in ScreenCells \ smudged : Shows(p, c, p.meant[c])
    BY <1>2, SameShows DEF ScreenState, EachShown
<1> HIDE DEF p
<1>4. PictureOK(after, ScreenWindows) /\ KeepsRest(after, p)
    BY DEF AsMeant, p
<1>5. InReach(after, area) = reached /\ after.meant = p.meant
    BY <1>4 DEF KeepsRest, InReach
<1> HIDE DEF reached
<1>6. \A c \in reached : value[c] \in Bits
    BY DEF AsMeant, reached, p
<1>7. \A c \in ScreenCells : meant[c] = IF c \in reached THEN value[c] ELSE p.meant[c]
    BY <1>5
<1>8. meant \in Screens
  <2>1. \A c \in ScreenCells : p.meant[c] \in Bits
    BY <1>1, <1>2 DEF Pictures, Screens
  <2> QED
    BY <1>5, <1>6, <2>1 DEF Screens
<1> HIDE DEF meant
<1>9. /\ middle \in Pictures(ScreenWindows) /\ middle.meant = meant /\ SameShown(middle, after)
    BY <1>4, <1>8 DEF PictureOK, Pictures, SameShown
<1> HIDE DEF middle
<1>10. /\ q \in Pictures(ScreenWindows) /\ q.meant = meant /\ q.clip = ScreenCells /\ SameShown(q, after)
    BY <1>9 DEF Pictures, SameShown
<1>11. picture' = q
    BY DEF Drawing, ui_reset_clip, Means, q, middle, meant
<1> HIDE DEF q
<1>12. PictureOK(q, ScreenWindows)
    BY <1>4, <1>10 DEF PictureOK, SameShown
<1>13. smudged' = (IF whole THEN smudged \ reached ELSE smudged) \cup (spoiled \cap reached)
    BY <1>5 DEF Drawing
<1>14. reached \subseteq ScreenCells
    BY DEF reached, InReach
<1>15. ASSUME NEW c \in ScreenCells \ smudged' PROVE Shows(q, c, q.meant[c])
  <2>1. CASE c \in reached
    <3>1. c \notin spoiled /\ (whole \/ Shows(p, c, p.meant[c]))
      BY <1>3, <1>13, <1>15, <2>1
    <3>2. Shows(after, c, value[c])
      BY <2>1, <3>1 DEF AsMeant, reached, p
    <3>3. Shows(q, c, value[c])
      BY <1>10, <3>2, SameShows
    <3> QED
      BY <1>7, <1>10, <2>1, <3>3
  <2>2. CASE c \notin reached
    <3>1. Shows(p, c, p.meant[c])
      BY <1>3, <1>13, <1>15, <2>2
    <3>2. p.meant[c] \in Bits
      BY <1>1, <1>2 DEF Pictures, Screens
    <3>3. Shows(after, c, p.meant[c])
      BY <2>2, <3>1, <3>2 DEF AsMeant, reached, p
    <3>4. Shows(q, c, p.meant[c])
      BY <1>10, <3>3, SameShows
    <3> QED
      BY <1>7, <1>10, <2>2, <3>4
  <2> QED
    BY <2>1, <2>2
<1>16. smudged' \subseteq ScreenCells
    BY <1>1, <1>13, <1>14
<1> QED
    BY <1>10, <1>11, <1>12, <1>15, <1>16, SceneStep

\* An order begins with its bounds.
LEMMA BoundsSet ==
    ASSUME ScreenState, NEW bounds \in SUBSET ScreenCells
    PROVE  LET p == ui_set_clip(picture, bounds)
           IN  /\ Setting /\ PictureOK(p, ScreenWindows)
               /\ p.meant = picture.meant /\ p.saved = picture.saved /\ p.clip = bounds /\ SameShown(p, picture)
               /\ \A c \in ScreenCells : p.meant[c] \in Bits /\ p.saved[c] \in Bits
               /\ \A c \in ScreenCells \ smudged : Shows(p, c, p.meant[c])
<1> DEFINE p == [picture EXCEPT !.clip = bounds]
<1>1. PictureOK(picture, ScreenWindows) /\ Setting
    BY DEF ScreenState, ScreenTypes
<1>2. /\ p \in Pictures(ScreenWindows) /\ SameShown(p, picture)
      /\ p.meant = picture.meant /\ p.saved = picture.saved /\ p.clip = bounds
    BY <1>1 DEF PictureOK, Pictures, SameShown
<1>3. ui_set_clip(picture, bounds) = p
    BY DEF ui_set_clip
<1> HIDE DEF p
<1>4. PictureOK(p, ScreenWindows)
    BY <1>1, <1>2 DEF PictureOK, SameShown
<1>5. \A c \in ScreenCells : p.meant[c] \in Bits /\ p.saved[c] \in Bits
    BY <1>2 DEF Pictures, Screens
<1>6. \A c \in ScreenCells \ smudged : Shows(p, c, p.meant[c])
    BY <1>2, SameShows DEF ScreenState, EachShown
<1> QED
    BY <1>1, <1>2, <1>3, <1>4, <1>5, <1>6

LEMMA PaintKeeps ==
    ASSUME ScreenState, NEW bounds \in SUBSET ScreenCells, NEW area \in SUBSET ScreenCells, NEW bit \in Bits,
           PaintOrder(ui_set_clip(picture, bounds), area, bit), UNCHANGED Scene
    PROVE  ScreenState'
<1> DEFINE p == ui_set_clip(picture, bounds)
           after == ui_paint_bitmap(p, area, Plain(bit))
<1>1. Setting /\ PictureOK(p, ScreenWindows) /\ \A c \in ScreenCells : p.meant[c] \in Bits
    BY BoundsSet
<1>2. ROP_COPY \in 0 .. 15 /\ Plain(bit) \in Screens /\ \A c \in ScreenCells : Plain(bit)[c] = bit
    BY PlainIs DEF ROP_COPY
<1>3. Drawing(after, area, Plain(bit), {}, TRUE)
    BY DEF PaintOrder
<1> HIDE DEF p
<1>4. Draws(after, p, area, ROP_COPY, Plain(bit))
    BY <1>1, <1>2, StoreAndOutDraws DEF ui_paint_bitmap
<1> HIDE DEF after
<1>5. \A c \in InReach(p, area) : Plain(bit)[c] = Rop2(ROP_COPY, Plain(bit)[c], p.meant[c])
    BY <1>1, <1>2, Rop2Copy DEF InReach
<1>6. AsMeant(after, p, area, Plain(bit), {}, TRUE)
    BY <1>1, <1>2, <1>4, <1>5, DrawsAsMeant
<1> QED
    BY <1>3, <1>6, DrawingKeeps DEF p

LEMMA RestoreKeeps ==
    ASSUME ScreenState, NEW bounds \in SUBSET ScreenCells, NEW area \in SUBSET ScreenCells,
           RestoreDesktop(ui_set_clip(picture, bounds), area), UNCHANGED Scene
    PROVE  ScreenState'
<1> DEFINE p == ui_set_clip(picture, bounds)
           after == ui_desktop_restore(p, area)
<1>1. Setting /\ PictureOK(p, ScreenWindows) /\ \A c \in ScreenCells : p.meant[c] \in Bits /\ p.saved[c] \in Bits
    BY BoundsSet
<1>2. Drawing(after, area, p.saved, {}, TRUE)
    BY DEF RestoreDesktop
<1> HIDE DEF p
<1>3. ROP_COPY \in 0 .. 15 /\ p.saved \in Screens
    BY <1>1 DEF ROP_COPY, PictureOK, Pictures
<1>4. Draws(after, p, area, ROP_COPY, p.saved)
    BY <1>1, <1>3, StoreAndOutDraws DEF ui_desktop_restore
<1> HIDE DEF after
<1>5. \A c \in InReach(p, area) : p.saved[c] = Rop2(ROP_COPY, p.saved[c], p.meant[c])
    BY <1>1, Rop2Copy DEF InReach
<1>6. AsMeant(after, p, area, p.saved, {}, TRUE)
    BY <1>1, <1>3, <1>4, <1>5, DrawsAsMeant
<1> QED
    BY <1>2, <1>6, DrawingKeeps DEF p

LEMMA FillKeeps ==
    ASSUME ScreenState, NEW bounds \in SUBSET ScreenCells, NEW area \in SUBSET ScreenCells, NEW bit \in Bits,
           FillOrder(ui_set_clip(picture, bounds), area, bit), UNCHANGED Scene
    PROVE  ScreenState'
<1> DEFINE p == ui_set_clip(picture, bounds)
<1>1. Setting /\ PictureOK(p, ScreenWindows) /\ \A c \in ScreenCells : p.meant[c] \in Bits
    BY BoundsSet
<1>2. ROP_COPY \in 0 .. 15 /\ Plain(bit) \in Screens /\ \A c \in ScreenCells : Plain(bit)[c] = bit
    BY PlainIs DEF ROP_COPY
<1>3. FillOrder(p, area, bit)
    OBVIOUS
<1> HIDE DEF p
<1>4. CASE Drawing(ui_rect(p, area, bit), area, Plain(bit), {}, TRUE)
  <2> DEFINE after == ui_rect(p, area, bit)
  <2>1. Draws(after, p, area, ROP_COPY, Plain(bit))
    BY <1>1, <1>2, EverywhereDraws DEF ui_rect
  <2> HIDE DEF after
  <2>2. \A c \in InReach(p, area) : Plain(bit)[c] = Rop2(ROP_COPY, Plain(bit)[c], p.meant[c])
    BY <1>1, <1>2, Rop2Copy DEF InReach
  <2>3. AsMeant(after, p, area, Plain(bit), {}, TRUE)
    BY <1>1, <1>2, <2>1, <2>2, DrawsAsMeant
  <2>4. Drawing(after, area, Plain(bit), {}, TRUE)
    BY <1>4 DEF after
  <2> QED
    BY <2>3, <2>4, DrawingKeeps DEF p
<1>5. ASSUME NEW opcode \in Opcodes, NEW after, Draws(after, p, area, opcode, Plain(bit)),
             Drawing(after, area, Combined(opcode, bit, p.meant), {}, opcode = ROP_COPY)
      PROVE  ScreenState'
  <2>1. opcode \in 0 .. 15
    BY OpcodeAssumption
  <2>2. \A c \in InReach(p, area) : Combined(opcode, bit, p.meant)[c] = Rop2(opcode, Plain(bit)[c], p.meant[c])
    BY <1>2 DEF InReach, Combined
  <2>3. AsMeant(after, p, area, Combined(opcode, bit, p.meant), {}, opcode = ROP_COPY)
    BY <1>1, <1>2, <1>5, <2>1, <2>2, DrawsAsMeant
  <2> QED
    BY <1>5, <2>3, DrawingKeeps DEF p
<1>6. ASSUME NEW opcode \in Opcodes
      PROVE  /\ bit = 0 => Draws(ui_destblt(p, opcode, area), p, area, opcode, Plain(bit))
             /\ Draws(ui_memblt(p, opcode, area, Plain(bit)), p, area, opcode, Plain(bit))
             /\ Draws(ui_patblt(p, opcode, area, Plain(bit)), p, area, opcode, Plain(bit))
             /\ Draws(ui_figure(p, opcode, area, bit), p, area, opcode, Plain(bit))
  <2>1. opcode \in 0 .. 15
    BY OpcodeAssumption
  <2> QED
    BY <1>1, <1>2, <2>1, EverywhereDraws, StoreAndOutDraws DEF ui_destblt, ui_memblt, ui_patblt, ui_figure
<1>7. CASE \E opcode \in Opcodes : \E after :
              Draws(after, p, area, opcode, Plain(bit))
              /\ Drawing(after, area, Combined(opcode, bit, p.meant), {}, opcode = ROP_COPY)
    BY <1>5, <1>7
<1> QED
    BY <1>3, <1>4, <1>6, <1>7 DEF FillOrder

LEMMA CombineKeeps ==
    ASSUME ScreenState, NEW bounds \in SUBSET ScreenCells, NEW area \in SUBSET ScreenCells, NEW bitmap \in Bits,
           NEW pattern \in Bits, Combine(ui_set_clip(picture, bounds), area, bitmap, pattern), UNCHANGED Scene
    PROVE  ScreenState'
<1> DEFINE p == ui_set_clip(picture, bounds)
<1>1. Setting /\ PictureOK(p, ScreenWindows)
    BY BoundsSet
<1>2. Combine(p, area, bitmap, pattern)
    OBVIOUS
<1> HIDE DEF p
<1>3. PICK opcode \in Ternary :
        Drawing(ui_triblt(p, opcode, area, Plain(bitmap), Plain(pattern)), area,
                [c \in ScreenCells |-> Rop3(opcode, pattern, bitmap, p.meant[c])], {}, FALSE)
    BY <1>2 DEF Combine
<1>4. AsMeant(ui_triblt(p, opcode, area, Plain(bitmap), Plain(pattern)), p, area,
              [c \in ScreenCells |-> Rop3(opcode, pattern, bitmap, p.meant[c])], {}, FALSE)
    BY <1>1, TriAsMeant
<1> QED
    BY <1>3, <1>4, DrawingKeeps DEF p

LEMMA TextKeeps ==
    ASSUME ScreenState, NEW bounds \in SUBSET ScreenCells, NEW box \in SUBSET ScreenCells, NEW glyphs,
           NEW background \in Bits, TextOrder(ui_set_clip(picture, bounds), box, glyphs, background), UNCHANGED Scene
    PROVE  ScreenState'
<1> DEFINE p == ui_set_clip(picture, bounds)
<1>1. Setting /\ PictureOK(p, ScreenWindows)
    BY BoundsSet
<1>2. /\ glyphs \in SUBSET box
      /\ Drawing(ui_draw_text(p, box, glyphs, background, 1 - background), box,
                 [c \in ScreenCells |-> IF c \in glyphs THEN 1 - background ELSE background], {}, TRUE)
    BY DEF TextOrder
<1> HIDE DEF p
<1>3. AsMeant(ui_draw_text(p, box, glyphs, background, 1 - background), p, box,
              [c \in ScreenCells |-> IF c \in glyphs THEN 1 - background ELSE background], {}, TRUE)
    BY <1>1, <1>2, TextAsMeant
<1> QED
    BY <1>2, <1>3, DrawingKeeps DEF p

LEMMA ScrollKeeps ==
    ASSUME ScreenState, NEW bounds \in SUBSET ScreenCells, NEW area \in SUBSET ScreenCells, NEW by,
           NEW opcode \in Opcodes, Scroll(ui_set_clip(picture, bounds), area, by, opcode), UNCHANGED Scene
    PROVE  ScreenState'
<1> DEFINE p == ui_set_clip(picture, bounds)
           Known(c) == c - by \in ScreenCells /\ c - by \notin smudged /\ ~Stale(c - by)
                       /\ (SeamlessWnd \in ScreenWindows => opcode = ROP_COPY)
           spoiled == {c \in area : ~Known(c)}
           value == [c \in area |-> Rop2(opcode, p.meant[c - by], p.meant[c])]
           after == ui_screenblt(p, opcode, area, by)
<1>1. /\ Setting /\ PictureOK(p, ScreenWindows)
      /\ \A c \in ScreenCells \ smudged : Shows(p, c, p.meant[c])
    BY BoundsSet
<1>2. /\ \A c \in area : c - by \in ScreenCells
      /\ Drawing(after, area, value, spoiled, opcode = ROP_COPY)
    BY DEF Scroll
<1> HIDE DEF p
<1>3. Desktop \in ScreenWindows /\ opcode \in 0 .. 15 /\ Desktop = Desktop
    BY <1>1, OpcodeAssumption DEF Setting, WindowSets
<1>4. ASSUME NEW c \in area \ spoiled
      PROVE  KnownCell(p, c, by) /\ (SeamlessWnd \in ScreenWindows => opcode = ROP_COPY)
  <2>1. /\ c - by \in ScreenCells \ smudged /\ ~Stale(c - by)
        /\ SeamlessWnd \in ScreenWindows => opcode = ROP_COPY
    BY <1>4
  <2>2. Shows(p, c - by, p.meant[c - by])
    BY <1>1, <2>1
  <2>3. g_ownbackstore /\ g_Unobscured => ~Excused(Desktop, c - by)
    BY <2>1 DEF Stale, Excused, Awaited
  <2>4. g_ownbackstore /\ g_Unobscured => p.win[Desktop][c - by] = p.meant[c - by]
    BY <1>3, <2>1, <2>2, <2>3 DEF Shows, CellsOf
  <2> QED
    BY <2>1, <2>2, <2>4 DEF KnownCell
<1> HIDE DEF spoiled, after
<1>5. AsMeant(after, p, area, value, spoiled, opcode = ROP_COPY)
    BY <1>1, <1>2, <1>3, <1>4, ScreenbltAsMeant DEF after
<1> HIDE DEF value
<1> QED
    BY <1>2, <1>5, DrawingKeeps DEF p

LEMMA SaveKeeps ==
    ASSUME ScreenState, NEW bounds \in SUBSET ScreenCells, NEW area \in SUBSET ScreenCells,
           SaveDesktop(ui_set_clip(picture, bounds), area), UNCHANGED Scene
    PROVE  ScreenState'
<1> DEFINE p == ui_set_clip(picture, bounds)
           saved == [c \in ScreenCells |-> IF c \in area THEN Store(p)[c] ELSE p.saved[c]]
           q == [p EXCEPT !.saved = saved]
<1>1. /\ Setting /\ PictureOK(p, ScreenWindows) /\ p.meant = picture.meant /\ p.clip = bounds /\ SameShown(p, picture)
      /\ \A c \in ScreenCells \ smudged : Shows(p, c, p.meant[c])
      /\ \A c \in ScreenCells : p.saved[c] \in Bits
    BY BoundsSet
<1>2. p.clip = ScreenCells /\ picture' = q /\ smudged' = smudged
    BY DEF SaveDesktop, ui_desktop_save
<1> HIDE DEF p
<1>3. saved \in Screens
    BY <1>1, StoreIs DEF Screens
<1> HIDE DEF saved
<1>4. q \in Pictures(ScreenWindows) /\ q.meant = p.meant /\ q.clip = p.clip /\ SameShown(q, p)
    BY <1>1, <1>3 DEF PictureOK, Pictures, SameShown
<1> HIDE DEF q
<1>5. PictureOK(q, ScreenWindows)
    BY <1>1, <1>4 DEF PictureOK, SameShown
<1>6. \A c \in ScreenCells \ smudged : Shows(q, c, q.meant[c])
    BY <1>1, <1>4, SameShows
<1>7. smudged' \subseteq ScreenCells
    BY <1>2 DEF ScreenState, ScreenTypes
<1> QED
    BY <1>2, <1>4, <1>5, <1>6, <1>7, SceneStep

LEMMA OrderKeeps ==
    ASSUME ScreenState, NEW bounds \in Areas \cup {ScreenCells}, NEW area \in Areas, DrawOrder(bounds, area)
    PROVE  ScreenState'
<1> DEFINE p == ui_set_clip(picture, bounds)
<1>1. bounds \in SUBSET ScreenCells /\ area \in SUBSET ScreenCells /\ UNCHANGED Scene
    BY AreaAssumption DEF DrawOrder, Scene
<1>2. PICK bit \in Bits :
        \/ PaintOrder(p, area, bit) \/ FillOrder(p, area, bit)
        \/ \E pattern \in Bits : Combine(p, area, bit, pattern)
        \/ \E glyphs \in Areas : TextOrder(p, area, glyphs, bit)
        \/ \E by \in {-1, 1}, opcode \in Opcodes : Scroll(p, area, by, opcode)
        \/ SaveDesktop(p, area) \/ RestoreDesktop(p, area)
    BY DEF DrawOrder, Bits
<1> QED
    BY <1>1, <1>2, PaintKeeps, FillKeeps, CombineKeeps, TextKeeps, ScrollKeeps, SaveKeeps, RestoreKeeps

-----------------------------------------------------------------------------
(* What happens on the screen *)

Occurs(e, events) == \E i \in DOMAIN events : events[i] = e
Tells(e, w, c) == e.kind = "Expose" /\ e.window = w /\ c \in e.cells

LEMMA OccursBehind ==
    ASSUME NEW s \in Seq(ScreenEvents), NEW t \in Seq(ScreenEvents), NEW e
    PROVE  s \o t \in Seq(ScreenEvents) /\ (Occurs(e, s \o t) <=> Occurs(e, s) \/ Occurs(e, t))
<1> DEFINE all == s \o t
           m == Len(s)
           n == Len(t)
<1>1. /\ all \in Seq(ScreenEvents) /\ Len(all) = m + n
      /\ \A i \in 1 .. m : all[i] = s[i]
      /\ \A i \in 1 .. n : all[m + i] = t[i]
    BY BehindIs
<1>2. m \in Nat /\ n \in Nat /\ DOMAIN s = 1 .. m /\ DOMAIN t = 1 .. n /\ DOMAIN all = 1 .. Len(all)
    BY <1>1, LenProperties
<1> HIDE DEF all, m, n
<1>3. ASSUME NEW i \in 1 .. (m + n) PROVE i \in 1 .. m \/ \E j \in 1 .. n : i = m + j
  <2>1. CASE i <= m
    BY <1>2, <2>1
  <2>2. CASE ~(i <= m)
    <3>1. i - m \in 1 .. n /\ i = m + (i - m)
      BY <1>2, <2>2
    <3> QED
      BY <3>1
  <2> QED
    BY <2>1, <2>2
<1>4. (\A i \in 1 .. m : i \in 1 .. (m + n)) /\ (\A i \in 1 .. n : m + i \in 1 .. (m + n))
    BY <1>2
<1>5. ASSUME Occurs(e, all) PROVE Occurs(e, s) \/ Occurs(e, t)
  <2>1. PICK i \in 1 .. (m + n) : all[i] = e
    BY <1>1, <1>2, <1>5 DEF Occurs
  <2>2. CASE i \in 1 .. m
    BY <1>1, <1>2, <2>1, <2>2 DEF Occurs
  <2>3. CASE \E j \in 1 .. n : i = m + j
    <3>1. PICK j \in 1 .. n : i = m + j
      BY <2>3
    <3>2. t[j] = e
      BY <1>1, <2>1, <3>1
    <3> QED
      BY <1>2, <3>2 DEF Occurs
  <2> QED
    BY <1>3, <2>2, <2>3
<1>6. Occurs(e, s) => Occurs(e, all)
    BY <1>1, <1>2, <1>4 DEF Occurs
<1>7. Occurs(e, t) => Occurs(e, all)
    BY <1>1, <1>2, <1>4 DEF Occurs
<1> QED
    BY <1>1, <1>5, <1>6, <1>7 DEF all

LEMMA OccursInTail ==
    ASSUME NEW s \in Seq(ScreenEvents), s # <<>>, NEW e
    PROVE  /\ Tail(s) \in Seq(ScreenEvents) /\ Head(s) \in ScreenEvents
           /\ Occurs(e, s) <=> e = Head(s) \/ Occurs(e, Tail(s))
<1> DEFINE rest == Tail(s)
           m == Len(s)
<1>1. /\ rest \in Seq(ScreenEvents) /\ Head(s) \in ScreenEvents /\ Head(s) = s[1]
      /\ Len(rest) = m - 1 /\ \A i \in 1 .. (m - 1) : rest[i] = s[i + 1]
    BY HeadTailProperties
<1>2. m \in Nat \ {0} /\ DOMAIN s = 1 .. m /\ DOMAIN rest = 1 .. (m - 1)
    BY <1>1, LenProperties, EmptySeq
<1> HIDE DEF rest, m
<1>3. \A i \in 1 .. m : i = 1 \/ (i - 1 \in 1 .. (m - 1) /\ i = (i - 1) + 1)
    BY <1>2
<1>4. 1 \in 1 .. m /\ \A i \in 1 .. (m - 1) : i + 1 \in 1 .. m
    BY <1>2
<1>5. ASSUME Occurs(e, s) PROVE e = Head(s) \/ Occurs(e, rest)
  <2>1. PICK i \in 1 .. m : s[i] = e
    BY <1>2, <1>5 DEF Occurs
  <2>2. CASE i # 1
    <3>1. i - 1 \in 1 .. (m - 1) /\ rest[i - 1] = e
      BY <1>1, <1>3, <2>1, <2>2
    <3> QED
      BY <1>2, <3>1 DEF Occurs
  <2> QED
    BY <1>1, <2>1, <2>2
<1>6. e = Head(s) \/ Occurs(e, rest) => Occurs(e, s)
    BY <1>1, <1>2, <1>4 DEF Occurs
<1> QED
    BY <1>1, <1>5, <1>6 DEF rest

LEMMA AwaitedIs ==
    /\ \A w, c : Awaited(w, c) <=> \E e : Occurs(e, xevents) /\ Tells(e, w, c)
    /\ ExposesKnown <=> \A e : Occurs(e, xevents) => (e.kind = "Expose" => g_ownbackstore /\ e.window \in ScreenWindows)
BY DEF Awaited, Tells, Occurs, ExposesKnown

\* X forgets what is covered, and tells of what is uncovered.
LEMMA CoverKeeps ==
    ASSUME ScreenState, NEW w \in ScreenWindows, NEW covered \in SUBSET ScreenCells, Cover(w, covered)
    PROVE  ScreenState'
<1> DEFINE open == hidden[w] \ covered
           told == IF w = Desktop /\ (hidden[w] = {}) # (covered = {}) THEN <<VisibilityNotify(covered = {})>> ELSE <<>>
           shown == IF open # {} /\ g_ownbackstore THEN <<ExposeOf(w, open)>> ELSE <<>>
           events == xevents \o told \o shown
           contents == Forgotten(picture.win[w], hidden[w] \cup covered)
           q == picture'
<1>1. /\ Setting /\ PictureOK(picture, ScreenWindows) /\ picture.clip = ScreenCells
      /\ xevents \in Seq(ScreenEvents) /\ smudged \subseteq ScreenCells /\ g_Unobscured \in BOOLEAN
    BY DEF ScreenState, ScreenTypes
<1>2. ScreenWindows \subseteq {Desktop, SeamlessWnd}
    BY <1>1 DEF Setting, WindowSets
<1>3. /\ hidden' = [hidden EXCEPT ![w] = covered] /\ xevents' = events
      /\ q = IF g_ownbackstore THEN Showing(picture, w, contents) ELSE picture
      /\ UNCHANGED <<g_Unobscured, g_ownbackstore, smudged>>
    BY DEF Cover
<1>4. hidden \in [ScreenWindows -> SUBSET ScreenCells]
    BY <1>1 DEF Setting
<1>5. /\ hidden' \in [ScreenWindows -> SUBSET ScreenCells] /\ hidden'[w] = covered
      /\ \A v \in ScreenWindows \ {w} : hidden'[v] = hidden[v]
    BY <1>3, <1>4
<1>6. told \in Seq(ScreenEvents) /\ \A e : Occurs(e, told) => e.kind = "VisibilityNotify"
  <2>1. VisibilityNotify(covered = {}) \in ScreenEvents /\ VisibilityNotify(covered = {}).kind = "VisibilityNotify"
    BY DEF VisibilityNotify, ScreenEvents
  <2> HIDE DEF told
  <2>2. told = <<>> \/ told = <<VisibilityNotify(covered = {})>>
    BY DEF told
  <2> QED
    <3>1. CASE told = <<>>
      BY <3>1 DEF Occurs
    <3>2. CASE told = <<VisibilityNotify(covered = {})>>
      <4> DEFINE e == VisibilityNotify(covered = {})
      <4> HIDE DEF e
      <4>1. told = <<e>> /\ e \in ScreenEvents /\ e.kind = "VisibilityNotify"
        BY <2>1, <3>2 DEF e
      <4> QED
        BY <4>1 DEF Occurs
    <3> QED
      BY <2>2, <3>1, <3>2
<1>7. /\ shown \in Seq(ScreenEvents) /\ \A e : Occurs(e, shown) => e = ExposeOf(w, open) /\ g_ownbackstore
      /\ open # {} /\ g_ownbackstore => Occurs(ExposeOf(w, open), shown)
  <2>1. ExposeOf(w, open) \in ScreenEvents
    BY <1>2, <1>4 DEF ExposeOf, ScreenEvents
  <2> HIDE DEF open
  <2>2. CASE open # {} /\ g_ownbackstore
    BY <2>1, <2>2 DEF Occurs
  <2>3. CASE ~(open # {} /\ g_ownbackstore)
    BY <2>3 DEF Occurs
  <2> QED
    BY <2>2, <2>3
<1>8. /\ ExposeOf(w, open).kind = "Expose" /\ ExposeOf(w, open).window = w /\ ExposeOf(w, open).cells = open
    BY DEF ExposeOf
<1> HIDE DEF told, shown
<1>9. events \in Seq(ScreenEvents) /\ \A e : Occurs(e, events) <=> Occurs(e, xevents) \/ Occurs(e, told) \/ Occurs(e, shown)
  <2> DEFINE begin == xevents \o told
  <2>1. begin \in Seq(ScreenEvents) /\ \A e : Occurs(e, begin) <=> Occurs(e, xevents) \/ Occurs(e, told)
    BY <1>1, <1>6, OccursBehind
  <2> HIDE DEF begin
  <2>2. begin \o shown \in Seq(ScreenEvents) /\ \A e : Occurs(e, begin \o shown) <=> Occurs(e, begin) \/ Occurs(e, shown)
    BY <1>7, <2>1, OccursBehind
  <2> QED
    BY <2>1, <2>2 DEF begin
<1> HIDE DEF events
<1>10. /\ PictureOK(q, ScreenWindows) /\ KeepsRest(q, picture) /\ q.back = picture.back
       /\ \A v \in ScreenWindows \ {w} : q.win[v] = picture.win[v]
       /\ \A c \in CellsOf(w) : c \notin hidden[w] \cup covered \/ ~g_ownbackstore => q.win[w][c] = picture.win[w][c]
  <2>1. CASE g_ownbackstore
    <3>1. picture.win[w] \in [CellsOf(w) -> Bits]
      BY <1>1 DEF PictureOK
    <3>2. /\ contents \in [CellsOf(w) -> Bits]
          /\ \A c \in CellsOf(w) : c \notin hidden[w] \cup covered => contents[c] = picture.win[w][c]
      BY <3>1 DEF Forgotten, Bits
    <3> HIDE DEF contents
    <3>3. /\ PictureOK(Showing(picture, w, contents), ScreenWindows) /\ KeepsRest(Showing(picture, w, contents), picture)
          /\ Showing(picture, w, contents).back = picture.back /\ Showing(picture, w, contents).win[w] = contents
          /\ \A v \in ScreenWindows \ {w} : Showing(picture, w, contents).win[v] = picture.win[v]
      BY <1>1, <3>2, ShowingIs
    <3>4. q = Showing(picture, w, contents)
      BY <1>3, <2>1
    <3> HIDE DEF q
    <3> QED
      BY <2>1, <3>2, <3>3, <3>4
  <2>2. CASE ~g_ownbackstore
    BY <1>1, <1>3, <2>2 DEF KeepsRest
  <2> QED
    BY <2>1, <2>2
<1>11. ScreenWindows' = ScreenWindows
    BY <1>10 DEF PictureOK, Pictures, ScreenWindows
<1>12. ScreenTypes'
  <2>1. Setting'
    BY <1>1, <1>3, <1>5, <1>11 DEF Setting
  <2>2. PictureOK(picture, ScreenWindows)'
    BY <1>10, <1>11 DEF PictureOK
  <2>3. picture'.clip = ScreenCells
    BY <1>1, <1>10 DEF KeepsRest
  <2> QED
    BY <1>1, <1>3, <1>9, <2>1, <2>2, <2>3 DEF ScreenTypes
<1>13. ExposesKnown'
  <2>1. \A e : Occurs(e, xevents) => (e.kind = "Expose" => g_ownbackstore /\ e.window \in ScreenWindows)
    BY AwaitedIs DEF ScreenState
  <2>2. \A e : Occurs(e, events) => (e.kind = "Expose" => g_ownbackstore /\ e.window \in ScreenWindows)
    BY <1>6, <1>7, <1>8, <1>9, <2>1
  <2>3. \A i \in DOMAIN events : Occurs(events[i], events)
    BY DEF Occurs
  <2> QED
    BY <1>3, <1>11, <2>2, <2>3 DEF ExposesKnown
<1>14. \A v, c : Awaited(v, c) => Awaited(v, c)'
  <2>1. \A v, c : Awaited(v, c)' <=> \E e : Occurs(e, events) /\ Tells(e, v, c)
    BY <1>3 DEF Awaited, Tells, Occurs
  <2> QED
    BY <1>9, <2>1, AwaitedIs
<1>15. \A c \in open : g_ownbackstore => Awaited(w, c)'
  <2>1. \A v, c : Awaited(v, c)' <=> \E e : Occurs(e, events) /\ Tells(e, v, c)
    BY <1>3 DEF Awaited, Tells, Occurs
  <2>2. \A c \in open : Tells(ExposeOf(w, open), w, c)
    BY <1>8 DEF Tells
  <2> QED
    BY <1>7, <1>9, <2>1, <2>2
<1>16. ASSUME NEW c \in ScreenCells \ smudged
       PROVE  Shows(picture, c, picture.meant[c])'
  <2> DEFINE d == picture.meant[c]
  <2>1. Shows(picture, c, d) /\ q.meant[c] = d
    BY <1>10 DEF ScreenState, EachShown, KeepsRest
  <2> HIDE DEF d
  <2>2. g_ownbackstore' => q.back[c] = d
    BY <1>3, <1>10, <2>1 DEF Shows
  <2>3. ASSUME NEW v \in ScreenWindows, c \in CellsOf(v)
        PROVE  Excused(v, c)' \/ q.win[v][c] = d
    <3>1. Excused(v, c) \/ picture.win[v][c] = d
      BY <2>1, <2>3 DEF Shows
    <3>2. CASE v # w
      <4>1. hidden'[v] = hidden[v] /\ q.win[v] = picture.win[v]
        BY <1>5, <1>10, <3>2
      <4>2. Excused(v, c) => Excused(v, c)'
        BY <1>3, <1>14, <4>1 DEF Excused
      <4> QED
        BY <3>1, <4>1, <4>2
    <3>3. CASE v = w
      <4>1. CASE ~g_ownbackstore
        BY <1>10, <2>3, <3>1, <3>3, <4>1 DEF Excused
      <4>2. CASE g_ownbackstore /\ c \in covered
        BY <1>3, <1>5, <3>3, <4>2 DEF Excused
      <4>3. CASE g_ownbackstore /\ c \in open
        BY <1>3, <1>15, <3>3, <4>3 DEF Excused
      <4>4. CASE g_ownbackstore /\ c \notin hidden[w] \cup covered
        <5>1. q.win[w][c] = picture.win[w][c]
          BY <1>10, <2>3, <3>3, <4>4
        <5>2. Excused(w, c) => Excused(w, c)'
          BY <1>3, <1>14, <4>4 DEF Excused
        <5> QED
          BY <3>1, <3>3, <5>1, <5>2
      <4> QED
        BY <4>1, <4>2, <4>3, <4>4
    <3> QED
      BY <3>2, <3>3
  <2> QED
    BY <1>11, <2>1, <2>2, <2>3 DEF Shows
<1>17. EachShown'
    BY <1>3, <1>16 DEF EachShown
<1> QED
    BY <1>12, <1>13, <1>17 DEF ScreenState

\* What is uncovered is copied from the store.
LEMMA HandleEventKeeps ==
    ASSUME ScreenState, HandleEvent
    PROVE  ScreenState'
<1> DEFINE event == Head(xevents)
           rest == Tail(xevents)
           w == event.window
           q == picture'
<1>1. /\ Setting /\ PictureOK(picture, ScreenWindows) /\ picture.clip = ScreenCells
      /\ xevents \in Seq(ScreenEvents) /\ smudged \subseteq ScreenCells /\ g_Unobscured \in BOOLEAN
    BY DEF ScreenState, ScreenTypes
<1>2. /\ xevents # <<>> /\ xevents' = rest /\ UNCHANGED <<hidden, g_ownbackstore, smudged>>
      /\ IF event.kind = "Expose"
         THEN q = OnWindow(picture, w, event.cells, ROP_COPY, picture.back) /\ g_Unobscured' = g_Unobscured
         ELSE g_Unobscured' = event.unobscured /\ q = picture
    BY DEF HandleEvent
<1>3. /\ rest \in Seq(ScreenEvents) /\ event \in ScreenEvents
      /\ \A e : Occurs(e, xevents) <=> e = event \/ Occurs(e, rest)
    BY <1>1, <1>2, OccursInTail
<1> HIDE DEF event, rest, q
<1>4. event.kind = "Expose" => g_ownbackstore /\ w \in ScreenWindows /\ event.cells \in SUBSET ScreenCells
  <2>1. event.kind = "Expose" => g_ownbackstore /\ w \in ScreenWindows
    BY <1>3, AwaitedIs DEF ScreenState
  <2>2. event.kind = "Expose" => event.cells \in SUBSET ScreenCells
    BY <1>3 DEF ScreenEvents
  <2> QED
    BY <2>1, <2>2
<1>5. /\ event.kind # "Expose" => g_Unobscured' \in BOOLEAN
      /\ event.kind = "Expose" => g_Unobscured' \in BOOLEAN
    BY <1>1, <1>2, <1>3 DEF ScreenEvents
<1> HIDE DEF w
<1>6. event.kind = "Expose" => WindowDrawn(q, picture, w, event.cells, ROP_COPY, picture.back)
  <2>1. picture.back \in Screens /\ ROP_COPY \in 0 .. 15
    BY <1>1 DEF PictureOK, Pictures, ROP_COPY
  <2>2. event.kind = "Expose" => q = OnWindow(picture, w, event.cells, ROP_COPY, picture.back)
    BY <1>2
  <2> QED
    BY <1>1, <1>4, <2>1, <2>2, OnWindowIs
<1>7. PictureOK(q, ScreenWindows) /\ KeepsRest(q, picture) /\ q.back = picture.back
    BY <1>1, <1>2, <1>6 DEF WindowDrawn, KeepsRest
<1>8. ScreenWindows' = ScreenWindows
    BY <1>7 DEF PictureOK, Pictures, ScreenWindows, q
<1>9. ScreenTypes'
  <2>1. Setting'
    BY <1>1, <1>2, <1>8 DEF Setting
  <2>2. PictureOK(picture, ScreenWindows)'
    BY <1>7, <1>8 DEF PictureOK, q
  <2>3. picture'.clip = ScreenCells
    BY <1>1, <1>7 DEF KeepsRest, q
  <2> QED
    BY <1>1, <1>2, <1>3, <1>5, <2>1, <2>2, <2>3 DEF ScreenTypes
<1>10. ExposesKnown'
  <2>1. \A e : Occurs(e, xevents) => (e.kind = "Expose" => g_ownbackstore /\ e.window \in ScreenWindows)
    BY AwaitedIs DEF ScreenState
  <2>2. \A i \in DOMAIN rest : Occurs(rest[i], rest)
    BY DEF Occurs
  <2> QED
    BY <1>2, <1>3, <1>8, <2>1, <2>2 DEF ExposesKnown
<1>11. \A v, c : Awaited(v, c) => Awaited(v, c)' \/ Tells(event, v, c)
  <2>1. \A v, c : Awaited(v, c)' <=> \E e : Occurs(e, rest) /\ Tells(e, v, c)
    BY <1>2 DEF Awaited, Tells, Occurs
  <2> QED
    BY <1>3, <2>1, AwaitedIs
<1>12. ASSUME NEW c \in ScreenCells \ smudged
       PROVE  Shows(picture, c, picture.meant[c])'
  <2> DEFINE d == picture.meant[c]
  <2>1. Shows(picture, c, d) /\ q.meant[c] = d
    BY <1>7 DEF ScreenState, EachShown, KeepsRest
  <2> HIDE DEF d
  <2>2. g_ownbackstore' => q.back[c] = d
    BY <1>2, <1>7, <2>1 DEF Shows
  <2>3. ASSUME NEW v \in ScreenWindows, c \in CellsOf(v)
        PROVE  Excused(v, c)' \/ q.win[v][c] = d
    <3>1. Excused(v, c) \/ picture.win[v][c] = d
      BY <2>1, <2>3 DEF Shows
    <3>2. CASE event.kind # "Expose"
      <4>1. Excused(v, c) => Excused(v, c)'
        BY <1>2, <1>11, <3>2 DEF Excused, Tells
      <4>2. q.win[v][c] = picture.win[v][c]
        BY <1>2, <3>2
      <4> QED
        BY <3>1, <4>1, <4>2
    <3>3. CASE event.kind = "Expose" /\ v # w
      <4>1. Excused(v, c) => Excused(v, c)'
        BY <1>2, <1>11, <3>3 DEF Excused, Tells, w
      <4>2. q.win[v][c] = picture.win[v][c]
        BY <1>6, <3>3 DEF WindowDrawn
      <4> QED
        BY <3>1, <4>1, <4>2
    <3>4. CASE event.kind = "Expose" /\ v = w
      <4>1. WindowCell(q, picture, w, InReach(picture, event.cells), ROP_COPY, picture.back, c)
        <5>1. /\ w \in ScreenWindows /\ event.cells \in SUBSET ScreenCells /\ c \in CellsOf(w)
              /\ ROP_COPY \in 0 .. 15 /\ picture.back \in Screens
          BY <1>1, <1>4, <2>3, <3>4 DEF ROP_COPY, PictureOK, Pictures
        <5>2. CellsDrawn(q.win[w], picture.win[w], CellsOf(w), ReachedOn(w, picture, event.cells), ROP_COPY, picture.back)
          BY <1>6, <3>4 DEF WindowDrawn
        <5> QED
          BY <1>1, <5>1, <5>2, WindowCells
      <4>2. g_ownbackstore /\ picture.back[c] = d
        BY <1>4, <2>1, <3>4 DEF Shows
      <4>3. CASE c \in event.cells
        <5>1. c \in InReach(picture, event.cells) /\ c \notin ReachedOn(w, picture, event.cells) => c \in hidden[w]
          BY DEF ReachedOn
        <5>2. c \in InReach(picture, event.cells)
          BY <1>1, <4>3 DEF InReach
        <5>3. c \in hidden[w] => Excused(v, c)'
          BY <1>2, <3>4, <4>2 DEF Excused
        <5>4. c \notin hidden[w] => q.win[w][c] = d
          <6>1. CellsDrawn(q.win[w], picture.win[w], CellsOf(w), ReachedOn(w, picture, event.cells), ROP_COPY, picture.back)
            BY <1>6, <3>4 DEF WindowDrawn
          <6>2. picture.back[c] \in Bits /\ picture.win[w][c] \in Bits
            BY <1>1, <1>4, <2>3, <3>4 DEF PictureOK, Pictures, Screens
          <6>3. Rop2(ROP_COPY, picture.back[c], picture.win[w][c]) = picture.back[c]
            BY <6>2, Rop2Copy
          <6> QED
            BY <2>3, <3>4, <4>2, <5>1, <5>2, <6>1, <6>3 DEF CellsDrawn
        <5> QED
          BY <3>4, <5>3, <5>4
      <4>4. CASE c \notin event.cells
        <5>1. Excused(v, c) => Excused(v, c)'
          BY <1>2, <1>11, <4>4 DEF Excused, Tells
        <5>2. q.win[w][c] = picture.win[w][c]
          BY <1>6, <2>3, <3>4, <4>4 DEF WindowDrawn, CellsDrawn, ReachedOn, InReach
        <5> QED
          BY <3>1, <3>4, <5>1, <5>2
      <4> QED
        BY <4>3, <4>4
    <3> QED
      BY <3>2, <3>3, <3>4
  <2> QED
    BY <1>8, <2>1, <2>2, <2>3 DEF Shows, q
<1>13. EachShown'
    BY <1>2, <1>12 DEF EachShown
<1> QED
    BY <1>9, <1>10, <1>13 DEF ScreenState

LEMMA PictureIs ==
    ASSUME NEW meant \in Screens, NEW back \in Screens, NEW saved \in Screens, NEW windows \in WindowSets,
           NEW win, win = [w \in windows |-> [c \in CellsOf(w) |-> 0]]
    PROVE  LET p == PictureOf(meant, back, win, saved)
           IN  /\ PictureOK(p, windows) /\ p.clip = ScreenCells
               /\ p.meant = meant /\ p.back = back /\ p.win = win /\ DOMAIN p.win = windows
<1>1. \A w \in windows : win[w] \in [CellsOf(w) -> Bits] /\ win[w] \in Contents
    BY DEF CellsOf, Contents, Screens, Bits
<1>2. win \in [windows -> Contents]
    BY <1>1
<1>3. DOMAIN win = windows
    OBVIOUS
<1> QED
    BY <1>1, <1>2, <1>3 DEF PictureOf, PictureOK, Pictures

LEMMA ToggleKeeps ==
    ASSUME ScreenState, xwin_toggle_fullscreen
    PROVE  ScreenState'
<1>1. /\ Setting /\ PictureOK(picture, ScreenWindows) /\ picture.clip = ScreenCells
      /\ xevents \in Seq(ScreenEvents) /\ smudged \subseteq ScreenCells /\ g_Unobscured \in BOOLEAN
    BY DEF ScreenState, ScreenTypes
<1>2. ScreenWindows = {Desktop} /\ {Desktop} \in WindowSets
    BY <1>1 DEF Setting, WindowSets, xwin_toggle_fullscreen, Desktop, SeamlessWnd
<1>3. hidden' = [w \in {Desktop} |-> {}] /\ g_Unobscured' = TRUE /\ g_ownbackstore' = g_ownbackstore
    BY DEF xwin_toggle_fullscreen
<1>4. PictureOK(picture', {Desktop}) /\ picture'.clip = ScreenCells /\ ScreenWindows' = {Desktop}
  <2>1. CASE g_ownbackstore
    <3> DEFINE win == [w \in {Desktop} |-> Plain(0)]
               p == PictureOf(picture.meant, Plain(0), win, picture.saved)
    <3>1. picture' = p
      BY <2>1 DEF xwin_toggle_fullscreen
    <3>2. picture.meant \in Screens /\ picture.saved \in Screens
      BY <1>1 DEF PictureOK, Pictures
    <3>3. Plain(0) \in Screens
      BY PlainIs DEF Bits
    <3>4. win = [w \in {Desktop} |-> [c \in CellsOf(w) |-> 0]]
      BY DEF Plain, CellsOf
    <3> HIDE DEF win
    <3>5. PictureOK(p, {Desktop}) /\ p.clip = ScreenCells /\ DOMAIN p.win = {Desktop}
      BY <1>2, <3>2, <3>3, <3>4, PictureIs
    <3> HIDE DEF p
    <3> QED
      BY <3>1, <3>5 DEF ScreenWindows
  <2>2. CASE ~g_ownbackstore
    BY <1>1, <1>2, <2>2 DEF xwin_toggle_fullscreen, ScreenWindows
  <2> QED
    BY <2>1, <2>2
<1>5. Setting'
    BY <1>1, <1>2, <1>3, <1>4 DEF Setting, Desktop, SeamlessWnd
<1>6. xevents' \in Seq(ScreenEvents) /\ ExposesKnown' /\ smudged' \subseteq ScreenCells
  <2>1. CASE g_ownbackstore
    <3> DEFINE e == ExposeOf(Desktop, ScreenCells)
    <3>1. e \in ScreenEvents /\ e.kind = "Expose" /\ e.window = Desktop
      BY DEF ExposeOf, ScreenEvents
    <3>2. xevents' = <<e>> /\ smudged' = ScreenCells
      BY <2>1 DEF xwin_toggle_fullscreen
    <3> HIDE DEF e
    <3>3. xevents' \in Seq(ScreenEvents) /\ \A i \in DOMAIN xevents' : xevents'[i] = e
      BY <3>1, <3>2
    <3> QED
      BY <1>3, <1>4, <2>1, <3>1, <3>2, <3>3 DEF ExposesKnown
  <2>2. CASE ~g_ownbackstore
    <3>1. xevents' = <<>> /\ smudged' = smudged
      BY <2>2 DEF xwin_toggle_fullscreen
    <3> QED
      BY <1>1, <3>1 DEF ExposesKnown
  <2> QED
    BY <2>1, <2>2
<1>7. EachShown'
  <2>1. CASE g_ownbackstore
    <3>1. smudged' = ScreenCells
      BY <2>1 DEF xwin_toggle_fullscreen
    <3> QED
      BY <3>1 DEF EachShown
  <2>2. CASE ~g_ownbackstore
    <3>1. picture' = picture /\ smudged' = smudged
      BY <2>2 DEF xwin_toggle_fullscreen
    <3>2. \A c \in ScreenCells \ smudged : Shows(picture, c, picture.meant[c])
      BY DEF ScreenState, EachShown
    <3> QED
      BY <1>2, <1>3, <1>4, <2>2, <3>1, <3>2 DEF EachShown, Shows, Excused
  <2> QED
    BY <2>1, <2>2
<1> QED
    BY <1>3, <1>4, <1>5, <1>6, <1>7 DEF ScreenState, ScreenTypes, PictureOK

LEMMA ScreenStarts ==
    ASSUME ScreenInit
    PROVE  ScreenState
<1>1. PICK windows \in WindowSets :
        /\ picture = PictureOf(Plain(0), Plain(0),
                             [w \in windows |-> [c \in IF w = Desktop THEN ScreenCells ELSE Frame |-> 0]], Plain(0))
        /\ hidden = [w \in windows |-> IF w = Desktop /\ SeamlessWnd \in windows THEN ScreenCells ELSE {}]
        /\ g_Unobscured = (SeamlessWnd \notin windows)
        /\ g_ownbackstore \in BOOLEAN /\ (SeamlessWnd \in windows => g_ownbackstore)
        /\ xevents = <<>> /\ smudged = {}
    BY DEF ScreenInit, WindowSets
<1> DEFINE win == [w \in windows |-> [c \in IF w = Desktop THEN ScreenCells ELSE Frame |-> 0]]
           p == PictureOf(Plain(0), Plain(0), win, Plain(0))
<1>2. win = [w \in windows |-> [c \in CellsOf(w) |-> 0]]
    BY DEF CellsOf
<1>3. Plain(0) \in Screens /\ \A c \in ScreenCells : Plain(0)[c] = 0
    BY PlainIs DEF Bits
<1>4. \A w \in windows, c \in ScreenCells : c \in CellsOf(w) => win[w][c] = 0
    BY <1>2
<1>5. picture = p
    BY <1>1
<1> HIDE DEF win
<1>6. /\ PictureOK(p, windows) /\ p.clip = ScreenCells /\ DOMAIN p.win = windows
      /\ p.meant = Plain(0) /\ p.back = Plain(0) /\ p.win = win
    BY <1>2, <1>3, PictureIs
<1> HIDE DEF p
<1>7. ScreenWindows = windows
    BY <1>5, <1>6 DEF ScreenWindows
<1>8. hidden \in [windows -> SUBSET ScreenCells]
    BY <1>1
<1>9. ScreenTypes
    BY <1>1, <1>5, <1>6, <1>7, <1>8 DEF ScreenTypes, Setting
<1>10. ExposesKnown
    BY <1>1 DEF ExposesKnown
<1>11. EachShown
    BY <1>3, <1>4, <1>5, <1>6, <1>7 DEF EachShown, Shows
<1> QED
    BY <1>9, <1>10, <1>11 DEF ScreenState

LEMMA ScreenStep ==
    ASSUME ScreenState, [ScreenNext]_screenVars
    PROVE  ScreenState'
<1>1. CASE \E bounds \in Areas \cup {ScreenCells}, area \in Areas : DrawOrder(bounds, area)
    BY <1>1, OrderKeeps
<1>2. CASE \E w \in ScreenWindows, covered \in SUBSET ScreenCells : Cover(w, covered)
    BY <1>2, CoverKeeps
<1>3. CASE HandleEvent
    BY <1>3, HandleEventKeeps
<1>4. CASE xwin_toggle_fullscreen
    BY <1>4, ToggleKeeps
<1>5. CASE UNCHANGED screenVars
  <2>1. /\ PictureOK(picture, ScreenWindows) /\ picture.clip = ScreenCells /\ smudged \subseteq ScreenCells
        /\ \A c \in ScreenCells \ smudged : Shows(picture, c, picture.meant[c])
    BY DEF ScreenState, ScreenTypes, EachShown
  <2>2. picture' = picture /\ smudged' = smudged /\ UNCHANGED Scene
    BY <1>5 DEF screenVars, Scene
  <2> QED
    BY <2>1, <2>2, SceneStep
<1> QED
    BY <1>1, <1>2, <1>3, <1>4, <1>5 DEF ScreenNext

\* All that is shown on the screen is what the orders of the server mean.
LEMMA ScreenStateImplies == ScreenState => ScreenTypes /\ ShowsWhatIsMeant
<1>1. ASSUME ScreenState PROVE ShowsWhatIsMeant
  <2>1. ASSUME NEW c \in ScreenCells \ smudged, NEW w \in ScreenWindows
        PROVE  \/ c \notin DOMAIN picture.win[w] \/ c \in hidden[w] \/ Awaited(w, c)
               \/ picture.win[w][c] = picture.meant[c]
    <3>1. Shows(picture, c, picture.meant[c])
      BY <1>1 DEF ScreenState, EachShown
    <3>2. DOMAIN picture.win[w] = CellsOf(w)
      BY <1>1 DEF ScreenState, ScreenTypes, PictureOK
    <3> QED
      BY <3>1, <3>2 DEF Shows, Excused
  <2>2. \A c \in ScreenCells \ smudged : g_ownbackstore => picture.back[c] = picture.meant[c]
    BY <1>1 DEF ScreenState, EachShown, Shows
  <2> QED
    BY <2>1, <2>2 DEF ShowsWhatIsMeant
<1> QED
    BY <1>1 DEF ScreenState

\* Whatever the server draws, and whatever other programs cover and uncover,
\* the store and every window show what the orders mean (ui_* of xwin.c and
\* xwin_process_events), but for what X has still to tell of and what is
\* known to be smudged.
THEOREM ScreenShows == ScreenSpec => [](ScreenTypes /\ ShowsWhatIsMeant)
<1>1. ScreenInit => ScreenState
    BY ScreenStarts
<1>2. ScreenState /\ [ScreenNext]_screenVars => ScreenState'
    BY ScreenStep
<1>3. ScreenState => ScreenTypes /\ ShowsWhatIsMeant
    BY ScreenStateImplies
<1> QED
    BY <1>1, <1>2, <1>3, PTL DEF ScreenSpec
=============================================================================
