-------------------------------- MODULE Mppc --------------------------------
(***************************************************************************)
(* Bulk decompression, mppc.c: text arrives as literals and copies from a  *)
(* history that client and server keep alike over all packets of a         *)
(* connection.  The server may begin its history anew (FLUSH) or go back   *)
(* to the front of it (RESET); a packet that would not get shorter is sent *)
(* as it is.                                                               *)
(*                                                                         *)
(* The code the server writes is taken from the tables in the comments of  *)
(* mppc_expand; what is modelled of the program is how it reads it.        *)
(***************************************************************************)
EXTENDS Integers, Sequences

CONSTANTS
    HistorySize,        \* of the server, and in masks
    Literals,           \* bounds the bytes the server sends
    MaxTokens,          \* bounds the tokens of a packet
    ProbeOffsets, ProbeLengths      \* for copies of any size

ASSUME MppcAssumption ==
    /\ HistorySize \in Nat \ {0} /\ MaxTokens \in Nat
    /\ Literals \subseteq 0..255
    /\ ProbeOffsets \subseteq 0..65535 /\ ProbeLengths \subseteq 3..65535

VARIABLES
    mppcServer,     \* its history, where it goes on, and what the next packet must say
    g_mppc_dict,    \* hist and roff
    expanded        \* what the last packet became, and what the server meant

mppcVars == <<mppcServer, g_mppc_dict, expanded>>

Cells == 0..(HistorySize - 1)
Empty == [i \in Cells |-> 0]

MppcInit ==
    /\ mppcServer = [hist |-> Empty, off |-> 0, flush |-> FALSE]
    /\ g_mppc_dict = [hist |-> Empty, roff |-> 0]
    /\ expanded = [is |-> <<>>, meant |-> <<>>]

-----------------------------------------------------------------------------
(* The code the server writes *)

Ones(n) == [i \in 1..n |-> 1]
Binary(width, value) == [i \in 1..width |-> (value \div 2^(width - i)) % 2]

LiteralBits(byte) == IF byte < 128 THEN Binary(8, byte) ELSE <<1, 0>> \o Binary(7, byte - 128)

OffsetBits(big, offset) ==
    IF big
    THEN IF offset < 64 THEN Ones(5) \o Binary(6, offset)
         ELSE IF offset < 320 THEN Ones(4) \o <<0>> \o Binary(8, offset - 64)
         ELSE IF offset < 2368 THEN Ones(3) \o <<0>> \o Binary(11, offset - 320)
         ELSE Ones(2) \o <<0>> \o Binary(16, offset - 2368)
    ELSE IF offset < 64 THEN Ones(4) \o Binary(6, offset)
         ELSE IF offset < 320 THEN Ones(3) \o <<0>> \o Binary(8, offset - 64)
         ELSE Ones(2) \o <<0>> \o Binary(13, offset - 320)

LengthBits(length) ==
    IF length = 3 THEN <<0>>
    ELSE LET k == CHOOSE k \in 2..15 : 2^k <= length /\ length < 2^(k + 1)
         IN  Ones(k - 1) \o <<0>> \o Binary(k, length - 2^k)

\* "kind" is "literal" with byte, or "copy" with offset and length.
TokenBits(big, token) ==
    IF token.kind = "literal" THEN LiteralBits(token.byte)
    ELSE OffsetBits(big, token.offset) \o LengthBits(token.length)

\* The last byte is filled with zeros.
RECURSIVE PacketBits(_, _)
PacketBits(big, tokens) ==
    IF tokens = <<>> THEN <<>> ELSE TokenBits(big, tokens[1]) \o PacketBits(big, Tail(tokens))
Filled(bits) == bits \o [i \in 1..((8 - (Len(bits) % 8)) % 8) |-> 0]

-----------------------------------------------------------------------------
(* How the program reads it *)

\* The bits from p to the end of what there is.
Has(bits, p, n) == p + n - 1 <= Len(bits)
Number(bits, p, width) ==
    LET value[n \in 0..width] == IF n = 0 THEN 0 ELSE 2 * value[n - 1] + bits[p + n - 1]
    IN  value[width]

Unreadable == [ok |-> FALSE]

\* After the two ones of a copy: how many bits say which of the ranges, how
\* many follow, and where the range begins.
OffsetForm(big, bits, p) ==
    IF big
    THEN LET top == Number(bits, p, 3)
         IN  IF top = 7 THEN [skip |-> 3, width |-> 6, base |-> 0]
             ELSE IF top = 6 THEN [skip |-> 3, width |-> 8, base |-> 64]
             ELSE IF top \in {4, 5} THEN [skip |-> 2, width |-> 11, base |-> 320]
             ELSE [skip |-> 1, width |-> 16, base |-> 2368]
    ELSE LET top == Number(bits, p, 2)
         IN  IF top = 3 THEN [skip |-> 2, width |-> 6, base |-> 0]
             ELSE IF top = 2 THEN [skip |-> 2, width |-> 8, base |-> 64]
             ELSE [skip |-> 1, width |-> 13, base |-> 320]

ReadOffset(big, bits, p) ==
    IF ~Has(bits, p, IF big THEN 3 ELSE 2) THEN Unreadable
    ELSE LET form == OffsetForm(big, bits, p)
         IN  IF ~Has(bits, p, form.skip + form.width) THEN Unreadable
             ELSE [ok |-> TRUE, value |-> form.base + Number(bits, p + form.skip, form.width),
                   next |-> p + form.skip + form.width]

\* Mutant: the widest length is not allowed.
OneLess(big) == IF big THEN 13 ELSE 10

\* "11 or 14 bits of value at most"
MatchBits(big) == IF big THEN 14 ELSE 11

ReadLength(big, bits, p) ==
    IF ~Has(bits, p, 1) THEN Unreadable
    ELSE IF bits[p] = 0 THEN [ok |-> TRUE, value |-> 3, next |-> p + 1]
    ELSE LET ends == {q \in (p + 1)..Len(bits) : bits[q] = 0 /\ \A r \in p..(q - 1) : bits[r] = 1}
         IN  IF ends = {} \/ \A q \in ends : q - p > MatchBits(big) THEN Unreadable
             ELSE LET q == CHOOSE q \in ends : TRUE
                      width == q - p + 1
                  IN  IF ~Has(bits, q + 1, width) THEN Unreadable
                      ELSE [ok |-> TRUE, value |-> Number(bits, q + 1, width) + 2^width,
                            next |-> q + 1 + width]

\* Mutant: the top bit of a literal above 127 is lost.
SevenBits(bits, p) == Number(bits, p + 2, 7)

HighLiteral(bits, p) == Number(bits, p + 2, 7) + 128

\* One token from p on; "end" when only filling bits are left.
ReadToken(big, bits, p) ==
    IF ~Has(bits, p, 1) THEN [ok |-> TRUE, kind |-> "end"]
    ELSE IF bits[p] = 0
    THEN IF Has(bits, p, 8)
         THEN [ok |-> TRUE, kind |-> "literal", byte |-> Number(bits, p, 8), next |-> p + 8]
         ELSE IF \A q \in p..Len(bits) : bits[q] = 0 THEN [ok |-> TRUE, kind |-> "end"] ELSE Unreadable
    ELSE IF ~Has(bits, p, 2) THEN Unreadable
    ELSE IF bits[p + 1] = 0
    THEN IF Has(bits, p, 9)
         THEN [ok |-> TRUE, kind |-> "literal", byte |-> HighLiteral(bits, p), next |-> p + 9]
         ELSE Unreadable
    ELSE LET offset == ReadOffset(big, bits, p + 2)
         IN  IF ~offset.ok THEN Unreadable
             ELSE LET length == ReadLength(big, bits, offset.next)
                  IN  IF ~length.ok THEN Unreadable
                      ELSE [ok |-> TRUE, kind |-> "copy", offset |-> offset.value,
                            length |-> length.value, next |-> length.next]

\* The areas may overlap, so a copy is made byte by byte.
RECURSIVE CopyBytes(_, _, _, _)
CopyBytes(hist, from, to, length) ==
    IF length = 0 THEN hist
    ELSE CopyBytes([hist EXCEPT ![to] = hist[from]], from + 1, to + 1, length - 1)

\* From the bits to the history; a copy that would reach the last cell is
\* refused.
RECURSIVE Expand(_, _, _, _, _)
Expand(big, bits, p, hist, next_offset) ==
    LET token == ReadToken(big, bits, p)
    IN  IF ~token.ok THEN Unreadable
        ELSE IF token.kind = "end" THEN [ok |-> TRUE, hist |-> hist, next |-> next_offset]
        ELSE IF token.kind = "literal"
        THEN IF next_offset >= HistorySize THEN Unreadable
             ELSE Expand(big, bits, token.next, [hist EXCEPT ![next_offset] = token.byte],
                         next_offset + 1)
        ELSE IF next_offset + token.length >= HistorySize THEN Unreadable
        ELSE Expand(big, bits, token.next,
                    CopyBytes(hist, (next_offset - token.offset) % HistorySize, next_offset,
                              token.length),
                    next_offset + token.length)

\* Mutant: a flush empties the history, but the place in it stays.
OnlyEmpty(dict, reset, flush) ==
    [hist |-> IF flush THEN Empty ELSE dict.hist, roff |-> IF reset THEN 0 ELSE dict.roff]

Flags(dict, reset, flush) ==
    [hist |-> IF flush THEN Empty ELSE dict.hist, roff |-> IF reset \/ flush THEN 0 ELSE dict.roff]

-----------------------------------------------------------------------------
(* The server, and one packet *)

Bytes(hist, from, upto) == [i \in 1..(upto - from) |-> hist[from + i - 1]]

\* What tokens mean to the server, from "off" on.
RECURSIVE Meaning(_, _, _)
Meaning(tokens, hist, off) ==
    IF tokens = <<>> THEN [hist |-> hist, off |-> off]
    ELSE IF tokens[1].kind = "literal"
    THEN Meaning(Tail(tokens), [hist EXCEPT ![off] = tokens[1].byte], off + 1)
    ELSE Meaning(Tail(tokens),
                 [i \in Cells |-> IF i \in off..(off + tokens[1].length - 1)
                                  THEN hist[off - tokens[1].offset + ((i - off) % tokens[1].offset)]
                                  ELSE hist[i]],
                 off + tokens[1].length)

Tokens ==
    [kind : {"literal"}, byte : Literals]
    \cup [kind : {"copy"}, offset : Cells \ {0}, length : 3..(HistorySize - 1)]

\* The token fits, and a copy begins within the history.
Fits(tokens, off) ==
    LET at[n \in 0..Len(tokens)] ==
            IF n = 0 THEN off
            ELSE at[n - 1] + IF tokens[n].kind = "literal" THEN 1 ELSE tokens[n].length
    IN  /\ at[Len(tokens)] < HistorySize
        /\ \A n \in DOMAIN tokens : tokens[n].kind = "copy" => tokens[n].offset <= at[n - 1]

\* A compressed packet; after a flush the server begins anew.
Compressed(big, reset, flush, tokens) ==
    LET hist == IF flush THEN Empty ELSE mppcServer.hist
        off == IF reset \/ flush THEN 0 ELSE mppcServer.off
        meaning == Meaning(tokens, hist, off)
        before == Flags(g_mppc_dict, reset, flush)
        after == Expand(big, Filled(PacketBits(big, tokens)), 1, before.hist, before.roff)
    IN  /\ mppcServer.flush => flush
        /\ Fits(tokens, off)
        /\ mppcServer' = [hist |-> meaning.hist, off |-> meaning.off, flush |-> FALSE]
        /\ g_mppc_dict' = IF after.ok THEN [hist |-> after.hist, roff |-> after.next] ELSE before
        /\ expanded' = [is |-> IF after.ok THEN Bytes(after.hist, before.roff, after.next) ELSE <<"?">>,
                        meant |-> Bytes(meaning.hist, off, meaning.off)]

\* A packet that would not get shorter is sent as it is, and the server will
\* flush; flags of such a packet are not looked at.
Uncompressed ==
    /\ mppcServer' = [mppcServer EXCEPT !.flush = TRUE]
    /\ UNCHANGED <<g_mppc_dict, expanded>>

\* A copy of any size, read by itself.
Probe(big, offset, length) ==
    LET token == [kind |-> "copy", offset |-> offset, length |-> length]
        read == ReadToken(big, Filled(TokenBits(big, token)), 1)
    IN  /\ ~big => offset < 8192 /\ length < 8192
        /\ expanded' = [is |-> IF read.ok THEN <<read.offset, read.length>> ELSE <<>>,
                        meant |-> <<offset, length>>]
        /\ UNCHANGED <<mppcServer, g_mppc_dict>>

MppcNext ==
    \/ \E big, reset, flush \in BOOLEAN, n \in 1..MaxTokens :
          \E tokens \in [1..n -> Tokens] : Compressed(big, reset, flush, tokens)
    \/ Uncompressed
    \/ /\ mppcServer.off = 0
       /\ \E big \in BOOLEAN, offset \in ProbeOffsets, length \in ProbeLengths :
             Probe(big, offset, length)

MppcSpec == MppcInit /\ [][MppcNext]_mppcVars

-----------------------------------------------------------------------------
(* Properties *)

\* Every packet becomes the text the server meant, and both histories are the
\* same where the server still uses them.
TextExpanded ==
    /\ expanded.is = expanded.meant
    /\ ~mppcServer.flush =>
          /\ g_mppc_dict.roff = mppcServer.off
          /\ \A i \in 0..(mppcServer.off - 1) : g_mppc_dict.hist[i] = mppcServer.hist[i]
=============================================================================
