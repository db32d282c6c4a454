------------------------------ MODULE Channels ------------------------------
(***************************************************************************)
(* Virtual channels, channels.c.  Messages longer than a chunk travel in   *)
(* fragments.  channel_process puts the fragments of each channel together *)
(* in a buffer of that channel, which is kept when a connection is lost.   *)
(* channel_send cuts a message up in the stream it was written into: the   *)
(* later fragments are copied to the front of that same stream, because    *)
(* tcp_init has only one (without smart cards).                            *)
(*                                                                         *)
(* A byte of a message is its place and one of two colours, so that parts  *)
(* of different messages can be told apart.                                *)
(***************************************************************************)
EXTENDS Integers, Sequences, SequencesExt

CONSTANTS
    ChannelIds,
    CHANNEL_CHUNK_LENGTH,
    HeaderLength,           \* of all headers in front of a fragment
    MessageLengths          \* bounds the messages

ASSUME ChannelsAssumption ==
    {CHANNEL_CHUNK_LENGTH, HeaderLength} \cup MessageLengths \subseteq Nat \ {0}

VARIABLES
    buffers,        \* for each channel the stream in
    arriving,       \* for each channel the message of the server that is on its way
    passedOn        \* the message passed on in the last step, to its protocol or to the
                    \* server, and what the other side meant

channelVars == <<buffers, arriving, passedOn>>

Message(length, colour) == [i \in 1..length |-> <<i, colour>>]
Messages == {Message(length, colour) : length \in MessageLengths, colour \in BOOLEAN}
Least(a, b) == IF a <= b THEN a ELSE b

Nothing == [message |-> <<>>, done |-> 0]
NoMessage == [is |-> <<>>, meant |-> <<>>]

ChannelsInit ==
    /\ buffers = [c \in ChannelIds |-> [data |-> <<>>, size |-> 0, p |-> 0]]
    /\ arriving = [c \in ChannelIds |-> Nothing]
    /\ passedOn = NoMessage

-----------------------------------------------------------------------------
(* channel_process *)

\* Mutant: the first fragment goes where the last message ended.
KeepPlace(buffer, length) == [buffer EXCEPT !.size = IF length > @ THEN length ELSE @]

\* The first fragment makes room for the whole message and starts anew.
Restart(buffer, length) ==
    [data |-> buffer.data, size |-> IF length > buffer.size THEN length ELSE buffer.size, p |-> 0]

\* What does not fit is cut off; data beyond p is from earlier messages.
AddFragment(buffer, fragment) ==
    LET thislength == Least(Len(fragment), buffer.size - buffer.p)
    IN  [buffer EXCEPT
            !.data = SubSeq(@, 1, buffer.p) \o SubSeq(fragment, 1, thislength)
                     \o SubSeq(@, buffer.p + thislength + 1, Len(@)),
            !.p = @ + thislength]

Receive(c) ==
    LET message == arriving[c].message
        from == arriving[c].done
        upto == Least(Len(message), from + CHANNEL_CHUNK_LENGTH)
        fragment == SubSeq(message, from + 1, upto)
        first == from = 0
        last == upto = Len(message)
        buffer == AddFragment(IF first THEN Restart(buffers[c], Len(message)) ELSE buffers[c],
                              fragment)
    IN  /\ from < Len(message)
        /\ arriving' = [arriving EXCEPT ![c] = IF last THEN Nothing ELSE [message |-> message, done |-> upto]]
        /\ IF first /\ last
           THEN passedOn' = [is |-> fragment, meant |-> message] /\ UNCHANGED buffers
           ELSE /\ buffers' = [buffers EXCEPT ![c] = IF last THEN [buffer EXCEPT !.p = 0] ELSE buffer]
                /\ passedOn' = IF last
                               THEN [is |-> SubSeq(buffer.data, 1, buffer.p), meant |-> message]
                               ELSE NoMessage

-----------------------------------------------------------------------------
(* channel_send *)

\* The stream after a fragment was built at its front, from "source" on.
Built(stream, source, length) ==
    [i \in DOMAIN stream |-> IF i \in (HeaderLength + 1)..(HeaderLength + length)
                             THEN stream[source + i - HeaderLength] ELSE stream[i]]

ThisLength(remaining) == Least(remaining, CHANNEL_CHUNK_LENGTH)

\* The first fragment is sent where it is.
FirstFragment(message) ==
    LET length == ThisLength(Len(message))
        stream == [i \in 1..HeaderLength |-> <<0, FALSE>>] \o message
    IN  [stream |-> stream, source |-> HeaderLength + length, remaining |-> Len(message) - length,
         out |-> SubSeq(stream, HeaderLength + 1, HeaderLength + length)]

\* The later ones are copied to the front of the same stream.
NextFragment(before) ==
    LET length == ThisLength(before.remaining)
        now == Built(before.stream, before.source, length)
    IN  [stream |-> now, source |-> before.source + length, remaining |-> before.remaining - length,
         out |-> SubSeq(now, HeaderLength + 1, HeaderLength + length)]

Fragments(message) ==
    LET count == (Len(message) + CHANNEL_CHUNK_LENGTH - 1) \div CHANNEL_CHUNK_LENGTH
        step[k \in 1..count] ==
            IF k = 1 THEN FirstFragment(message) ELSE NextFragment(step[k - 1])
    IN  [k \in 1..count |-> step[k].out]

Send(message) ==
    /\ passedOn' = [is |-> FlattenSeq(Fragments(message)), meant |-> message]
    /\ UNCHANGED <<buffers, arriving>>

-----------------------------------------------------------------------------
(* The server and the network *)

ServerSends(c, message) ==
    /\ arriving[c] = Nothing
    /\ arriving' = [arriving EXCEPT ![c] = [message |-> message, done |-> 0]]
    /\ passedOn' = NoMessage /\ UNCHANGED buffers

\* The next connection's server starts with first fragments.
ConnectionLost ==
    /\ arriving' = [c \in ChannelIds |-> Nothing]
    /\ passedOn' = NoMessage /\ UNCHANGED buffers

ChannelsNext ==
    \/ \E c \in ChannelIds : Receive(c) \/ \E message \in Messages : ServerSends(c, message)
    \/ \E message \in Messages : Send(message)
    \/ ConnectionLost

ChannelsSpec == ChannelsInit /\ [][ChannelsNext]_channelVars

-----------------------------------------------------------------------------
(* Properties *)

\* Whatever messages were on other channels or were cut off by a lost
\* connection, each protocol gets the messages meant for it, whole; and the
\* server gets whole what the program sends.
MessagesWhole == passedOn.is = passedOn.meant
=============================================================================
