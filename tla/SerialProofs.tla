---------------------------- MODULE SerialProofs ----------------------------
(***************************************************************************)
(* Why the server gets the bytes of a serial port in order, and an event   *)
(* before the data behind it.  What the server has of a port, followed by  *)
(* what waits in the buffer of the pending read of that port, is a stream  *)
(* of bytes in the order in which they left the socket.  Every visit of a  *)
(* pass to a request keeps it so, whatever the passes skip, as long as the *)
(* server has one read of a port pending at a time.                        *)
(***************************************************************************)
EXTENDS SerialPort, ProofLemmas

\* Bytes in the order in which they arrived, the last not after n.
Stream(s, n) == s \in Seq(Nat) /\ Increasing(s) /\ \A i \in 1..Len(s) : s[i] \in 1..n

OneOfAKind(list) ==
    \A i, j \in 1..Len(list) :
        list[i].port = list[j].port /\ list[i].major = list[j].major => i = j

\* A read that is pending lacks something.
Lacking(list) ==
    \A i \in 1..Len(list) : list[i].major = "READ" => Len(list[i].buffer) < list[i].length

\* If the server closes a port with one request pending at most, the ports of
\* the list are open.
Owned(list, ports) == CloseQuiet => \A i \in 1..Len(list) : list[i].port \in ports

\* What the server has got, got[p], and what waits behind it.
Ordered(list, bytes, got) ==
    \A p \in Ports :
        /\ Stream(got[p], bytes[p])
        /\ \A i \in 1..Len(list) : list[i].port = p /\ list[i].major = "READ" =>
               Stream(got[p] \o list[i].buffer, bytes[p])

Counts == [Ports -> Nat]
Gotten == [Ports -> Seq(Nat)]

\* A list of requests that fits what left the sockets and what the server got.
GoodList(list, bytes, got, ports) ==
    /\ list \in Seq(Requests) /\ Len(list) <= MaxRequests
    /\ OneOfAKind(list) /\ Lacking(list) /\ Owned(list, ports)
    /\ Ordered(list, bytes, got)

SerialTypes ==
    /\ open \subseteq Ports /\ uiWaitEventMask \subseteq Ports /\ event \subseteq Ports
    /\ timers \in [Ports -> SUBSET {"total", "interval"}]
    /\ arrived \in Counts /\ \A p \in Ports : arrived[p] <= MaxBytes[p]
    /\ taken \in Counts /\ \A p \in Ports : taken[p] <= arrived[p]
    /\ g_min_timeout_fd \in Ports \cup {NoPort} /\ s_timeout \in BOOLEAN
    /\ sent \in Seq(Completions)
    /\ received \in Gotten

SerialState == SerialTypes /\ GoodList(g_iorequest, taken, received, open)

-----------------------------------------------------------------------------
(* Streams *)

LEMMA Regrouped ==
    ASSUME NEW s \in Seq(Nat), NEW t \in Seq(Nat), NEW u \in Seq(Nat)
    PROVE  (s \o t) \o u = s \o (t \o u)
BY ConcatAssociative, SMTT(30)

LEMMA StreamLater ==
    ASSUME NEW n \in Nat, NEW m \in Nat, n <= m, NEW s, Stream(s, n)
    PROVE  Stream(s, m)
BY DEF Stream

\* What a stream begins with is one, and what follows comes later.
LEMMA StreamParts ==
    ASSUME NEW n \in Nat, NEW s \in Seq(Nat), NEW t \in Seq(Nat), Stream(s \o t, n)
    PROVE  /\ Stream(s, n)
           /\ \A i \in DOMAIN s, k \in DOMAIN t : s[i] < t[k]
<1> DEFINE all == s \o t
<1>1. /\ all \in Seq(Nat) /\ Len(all) = Len(s) + Len(t)
      /\ \A i \in 1..Len(s) : all[i] = s[i]
      /\ \A i \in 1..Len(t) : all[Len(s) + i] = t[i]
    BY BehindIs
<1>2. Len(s) \in Nat /\ Len(t) \in Nat /\ DOMAIN s = 1..Len(s) /\ DOMAIN t = 1..Len(t)
    BY LenProperties
<1>3. DOMAIN all = 1..(Len(s) + Len(t))
    BY <1>1, LenProperties
<1>4. /\ \A i, j \in DOMAIN all : i < j => all[i] < all[j]
      /\ \A i \in 1..Len(all) : all[i] \in 1..n
    BY DEF Stream, Increasing
<1> HIDE DEF all
<1>5. \A i \in 1..Len(s) : i \in DOMAIN all /\ i \in 1..Len(all)
    BY <1>1, <1>2, <1>3
<1>6. Stream(s, n)
    BY <1>1, <1>2, <1>4, <1>5 DEF Stream, Increasing
<1>7. ASSUME NEW i \in DOMAIN s, NEW k \in DOMAIN t PROVE s[i] < t[k]
  <2>1. i \in DOMAIN all /\ Len(s) + k \in DOMAIN all /\ i < Len(s) + k
    BY <1>2, <1>3
  <2>2. all[i] < all[Len(s) + k]
    BY <1>4, <2>1
  <2> QED
    BY <1>1, <1>2, <2>2
<1> QED
    BY <1>6, <1>7

\* The next bytes of the socket go on with it.
LEMMA StreamGoesOn ==
    ASSUME NEW n \in Nat, NEW c \in Nat, NEW s, Stream(s, n)
    PROVE  Stream(s \o [i \in 1..c |-> n + i], n + c)
<1> DEFINE t == [i \in 1..c |-> n + i]
           all == s \o t
<1>1. s \in Seq(Nat) /\ Len(s) \in Nat /\ DOMAIN s = 1..Len(s)
    BY LenProperties DEF Stream
<1>2. t \in Seq(Nat) /\ Len(t) = c
  <2>1. t \in [1..c -> Nat]
    OBVIOUS
  <2> HIDE DEF t
  <2> QED
    BY <2>1, SeqOfLength
<1>3. \A i \in 1..c : t[i] = n + i
    OBVIOUS
<1> HIDE DEF t
<1>4. /\ all \in Seq(Nat) /\ Len(all) = Len(s) + Len(t)
      /\ \A i \in 1..Len(s) : all[i] = s[i]
      /\ \A i \in 1..Len(t) : all[Len(s) + i] = t[i]
  <2>1. s \in Seq(Nat) /\ t \in Seq(Nat)
    BY <1>1, <1>2
  <2> QED
    BY <2>1, BehindIs
<1>5. DOMAIN all = 1..(Len(s) + c)
    BY <1>2, <1>4, LenProperties
<1> HIDE DEF all
<1>6. \A i \in 1..(Len(s) + c) : \/ i \in 1..Len(s) /\ all[i] = s[i]
                                 \/ i - Len(s) \in 1..c /\ i > Len(s) /\ all[i] = n + (i - Len(s))
  <2> SUFFICES ASSUME NEW i \in 1..(Len(s) + c)
               PROVE  \/ i \in 1..Len(s) /\ all[i] = s[i]
                      \/ i - Len(s) \in 1..c /\ i > Len(s) /\ all[i] = n + (i - Len(s))
    OBVIOUS
  <2>1. CASE i <= Len(s)
    BY <1>1, <1>4, <2>1
  <2>2. CASE ~(i <= Len(s))
    <3>1. i - Len(s) \in 1..c /\ Len(s) + (i - Len(s)) = i
      BY <1>1, <2>2
    <3>2. all[Len(s) + (i - Len(s))] = n + (i - Len(s))
      BY <1>2, <1>3, <1>4, <3>1
    <3> QED
      BY <1>1, <2>2, <3>1, <3>2
  <2> QED
    BY <2>1, <2>2
<1>7. \A i, j \in 1..Len(s) : s[i] \in 1..n /\ (i < j => s[i] < s[j])
    BY <1>1 DEF Stream, Increasing
<1>8. ASSUME NEW i \in DOMAIN all, NEW j \in DOMAIN all, i < j PROVE all[i] < all[j]
  <2>1. i \in Nat /\ j \in Nat
    BY <1>1, <1>5
  <2> QED
    BY <1>1, <1>5, <1>6, <1>7, <1>8, <2>1
<1>9. \A i \in 1..(Len(s) + c) : all[i] \in 1..(n + c)
    BY <1>1, <1>6, <1>7
<1>10. Stream(all, n + c)
    BY <1>2, <1>4, <1>5, <1>8, <1>9 DEF Stream, Increasing
<1> QED
    BY <1>10 DEF all, t

LEMMA StreamFilled ==
    ASSUME NEW n \in Nat, NEW c \in Nat, NEW s \in Seq(Nat), NEW t \in Seq(Nat), Stream(s \o t, n)
    PROVE  Stream(s \o (t \o [i \in 1..c |-> n + i]), n + c)
<1> DEFINE more == [i \in 1..c |-> n + i]
<1>1. Stream((s \o t) \o more, n + c)
    BY StreamGoesOn
<1>2. more \in Seq(Nat)
  <2>1. more \in [1..c -> Nat]
    OBVIOUS
  <2> HIDE DEF more
  <2> QED
    BY <2>1, SeqOfLength
<1> HIDE DEF more
<1>3. (s \o t) \o more = s \o (t \o more)
    BY <1>2, Regrouped
<1>4. Stream(s \o (t \o more), n + c)
    BY <1>1, <1>3
<1> QED
    BY <1>4 DEF more

LEMMA SmallerIs ==
    ASSUME NEW m \in Nat \ {0}, NEW n \in Nat \ {0}
    PROVE  Smaller(m, n) \in Nat \ {0} /\ Smaller(m, n) <= m /\ Smaller(m, n) <= n
BY DEF Smaller

LEMMA NothingMore ==
    ASSUME NEW s \in Seq(Nat)
    PROVE  s \o <<>> = s
BY ConcatEmptySeq

-----------------------------------------------------------------------------
(* A request taken out of the list *)

LEMMA WithoutIs ==
    ASSUME NEW S, NEW s \in Seq(S), NEW n \in 1..Len(s)
    PROVE  /\ Without(s, n) \in Seq(S) /\ Len(Without(s, n)) = Len(s) - 1
           /\ \A i \in 1..(Len(s) - 1) : Without(s, n)[i] = IF i < n THEN s[i] ELSE s[i + 1]
<1>1. Without(s, n) = CutOut(s, n)
    BY DEF Without, CutOut
<1> QED
    BY <1>1, CutOutIs

\* Each request that stays has a place of its own in the list before.
LEMMA WithoutKeeps ==
    ASSUME NEW S, NEW s \in Seq(S), NEW n \in 1..Len(s)
    PROVE  \A i \in 1..Len(Without(s, n)) : \E k \in 1..Len(s) :
               /\ k # n /\ k = (IF i < n THEN i ELSE i + 1) /\ Without(s, n)[i] = s[k]
<1> SUFFICES ASSUME NEW i \in 1..Len(Without(s, n))
             PROVE  \E k \in 1..Len(s) : /\ k # n /\ k = (IF i < n THEN i ELSE i + 1)
                                         /\ Without(s, n)[i] = s[k]
    OBVIOUS
<1>1. Len(s) \in Nat /\ i \in 1..(Len(s) - 1) /\ Without(s, n)[i] = IF i < n THEN s[i] ELSE s[i + 1]
    BY LenProperties, WithoutIs
<1>2. CASE i < n
    BY <1>1, <1>2
<1>3. CASE ~(i < n)
    BY <1>1, <1>3
<1> QED
    BY <1>2, <1>3

-----------------------------------------------------------------------------
(* What the server has received after some completions *)

\* What one completion adds for port p.
Bytes(p, completion) == IF completion.port = p THEN completion.buffer ELSE <<>>

\* The loop in Received.
Adds(f, s, p) == f = [n \in 0..Len(s) |-> IF n = 0 THEN <<>> ELSE f[n - 1] \o Bytes(p, s[n])]
Added(s, p) == CHOOSE f : Adds(f, s, p)

LEMMA AddedIs ==
    ASSUME NEW s \in Seq(Completions), NEW p \in Ports
    PROVE  /\ Added(s, p)[0] = <<>>
           /\ \A n \in 1..Len(s) : Added(s, p)[n] = Added(s, p)[n - 1] \o Bytes(p, s[n])
           /\ \A n \in 0..Len(s) : Added(s, p)[n] \in Seq(Nat)
<1> DEFINE X == Seq(Nat)
           N == Len(s)
           F == [n \in Nat |-> [y \in X |-> IF n \in 1..N THEN y \o Bytes(p, s[n]) ELSE y]]
<1>1. N \in Nat /\ <<>> \in X
    BY LenProperties
<1>2. \A n \in 1..N : Bytes(p, s[n]) \in X
  <2>1. \A n \in 1..N : s[n] \in Completions
    BY ElementOfSeq
  <2> QED
    BY <1>1, <2>1 DEF Bytes, Completions
<1>3. \A n \in 1..N, y \in X : y \o Bytes(p, s[n]) \in X
  <2> SUFFICES ASSUME NEW n \in 1..N, NEW y \in X PROVE y \o Bytes(p, s[n]) \in X
    OBVIOUS
  <2>1. Bytes(p, s[n]) \in X
    BY <1>2
  <2> HIDE DEF N
  <2> QED
    BY <2>1, ConcatProperties
<1> HIDE DEF X, N
<1>4. F \in Steps(X) /\ \A n \in 1..N, y \in X : F[n][y] = y \o Bytes(p, s[n])
  <2>1. \A n \in Nat, y \in X : (IF n \in 1..N THEN y \o Bytes(p, s[n]) ELSE y) \in X
    BY <1>3
  <2>2. \A n \in Nat : [y \in X |-> IF n \in 1..N THEN y \o Bytes(p, s[n]) ELSE y] \in [X -> X]
    BY <2>1
  <2>3. F \in [Nat -> [X -> X]]
    BY <2>2
  <2>4. \A n \in 1..N : n \in Nat
    BY <1>1
  <2>5. \A n \in 1..N, y \in X : F[n][y] = y \o Bytes(p, s[n])
    BY <2>4
  <2> QED
    BY <2>3, <2>5 DEF Steps
<1> HIDE DEF F
<1>5. PICK g : Iterates(g, F, <<>>, N) /\ \A n \in 0..N : g[n] \in X
    BY <1>1, <1>4, Iteration
<1> DEFINE h == [n \in 0..N |-> g[n]]
<1>6. Adds(h, s, p)
  <2>1. \A n \in 0..N : g[n] = IF n = 0 THEN <<>> ELSE h[n - 1] \o Bytes(p, s[n])
    <3> SUFFICES ASSUME NEW n \in 0..N
                 PROVE  g[n] = IF n = 0 THEN <<>> ELSE h[n - 1] \o Bytes(p, s[n])
      OBVIOUS
    <3>1. CASE n = 0
      BY <1>5, <3>1 DEF Iterates
    <3>2. CASE n # 0
      <4>1. n \in 1..N /\ n - 1 \in 0..N
        BY <1>1, <3>2
      <4>2. g[n] = F[n][g[n - 1]] /\ g[n - 1] \in X
        BY <1>5, <4>1 DEF Iterates
      <4> QED
        BY <1>4, <3>2, <4>1, <4>2
    <3> QED
      BY <3>1, <3>2
  <2>2. h = [n \in 0..N |-> IF n = 0 THEN <<>> ELSE h[n - 1] \o Bytes(p, s[n])]
    BY <2>1
  <2> HIDE DEF h
  <2> QED
    BY <2>2 DEF Adds, N
<1> HIDE DEF h
<1>7. Adds(Added(s, p), s, p)
    BY <1>6 DEF Added
<1> DEFINE f == Added(s, p)
           S == {n \in Nat : n <= N => f[n] \in X}
<1> HIDE DEF f
<1>8. f = [n \in 0..N |-> IF n = 0 THEN <<>> ELSE f[n - 1] \o Bytes(p, s[n])]
    BY <1>7 DEF Adds, N, f
<1>9. \A n \in 0..N : f[n] = IF n = 0 THEN <<>> ELSE f[n - 1] \o Bytes(p, s[n])
    BY <1>8
<1>10. f[0] = <<>> /\ \A n \in 1..N : f[n] = f[n - 1] \o Bytes(p, s[n])
  <2>1. 0 \in 0..N /\ \A n \in 1..N : n \in 0..N /\ n # 0
    BY <1>1
  <2> QED
    BY <1>9, <2>1
<1>11. \A n \in 0..N : f[n] \in X
  <2>1. 0 \in S
    BY <1>1, <1>10
  <2>2. ASSUME NEW n \in Nat, n \in S PROVE n + 1 \in S
    <3>1. ASSUME n + 1 <= N PROVE f[n + 1] \in X
      <4>1. n + 1 \in 1..N /\ (n + 1) - 1 = n /\ n <= N
        BY <1>1, <3>1
      <4>2. f[n + 1] = f[n] \o Bytes(p, s[n + 1]) /\ f[n] \in X
        BY <1>10, <2>2, <4>1
      <4> QED
        BY <1>3, <4>1, <4>2
    <3> QED
      BY <3>1
  <2>3. Nat \subseteq S
    BY <2>1, <2>2, Induction
  <2> QED
    BY <1>1, <2>3
<1> QED
    BY <1>10, <1>11 DEF f, X, N

\* One more completion changes nothing of what came before.
LEMMA AddedMore ==
    ASSUME NEW s \in Seq(Completions), NEW c \in Completions, NEW p \in Ports
    PROVE  Added(Append(s, c), p)[Len(s) + 1] = Added(s, p)[Len(s)] \o Bytes(p, c)
<1> DEFINE t == Append(s, c)
           N == Len(s)
           f == Added(s, p)
           g == Added(t, p)
           S == {n \in Nat : n <= N => g[n] = f[n]}
<1>1. t \in Seq(Completions) /\ Len(t) = N + 1 /\ N \in Nat /\ t[N + 1] = c
      /\ \A n \in 1..N : t[n] = s[n]
    BY AppendProperties, LenProperties
<1>2. f[0] = <<>> /\ \A n \in 1..N : f[n] = f[n - 1] \o Bytes(p, s[n])
    BY AddedIs
<1>3. g[0] = <<>> /\ \A n \in 1..Len(t) : g[n] = g[n - 1] \o Bytes(p, t[n])
  <2>1. t \in Seq(Completions)
    BY <1>1
  <2> HIDE DEF t
  <2> QED
    BY <2>1, AddedIs
<1> HIDE DEF t, f, g, N
<1>4. 0 \in S
    BY <1>2, <1>3
<1>5. ASSUME NEW n \in Nat, n \in S PROVE n + 1 \in S
  <2>1. ASSUME n + 1 <= N PROVE g[n + 1] = f[n + 1]
    <3>1. n + 1 \in 1..N /\ n + 1 \in 1..Len(t) /\ (n + 1) - 1 = n /\ n <= N
      BY <1>1, <2>1
    <3>2. f[n + 1] = f[n] \o Bytes(p, s[n + 1])
      BY <1>2, <3>1
    <3>3. g[n + 1] = g[n] \o Bytes(p, t[n + 1])
      BY <1>3, <3>1
    <3> QED
      BY <1>1, <1>5, <3>1, <3>2, <3>3
  <2> QED
    BY <2>1
<1>6. Nat \subseteq S
    BY <1>4, <1>5, Induction
<1>7. g[N] = f[N]
    BY <1>1, <1>6
<1>8. N + 1 \in 1..Len(t) /\ (N + 1) - 1 = N
    BY <1>1
<1>9. g[N + 1] = g[N] \o Bytes(p, t[N + 1])
    BY <1>3, <1>8
<1> QED
    BY <1>1, <1>7, <1>9 DEF t, f, g, N

LEMMA ReceivedIs ==
    ASSUME received \in Gotten, NEW s \in Seq(Completions)
    PROVE  /\ Received(s) \in Gotten
           /\ \A p \in Ports : Received(s)[p] = received[p] \o Added(s, p)[Len(s)]
<1>1. Received(s) = [p \in Ports |-> received[p] \o Added(s, p)[Len(s)]]
    BY DEF Received, Added, Adds, Bytes
<1>2. ASSUME NEW p \in Ports PROVE received[p] \o Added(s, p)[Len(s)] \in Seq(Nat)
  <2>1. received[p] \in Seq(Nat) /\ Added(s, p)[Len(s)] \in Seq(Nat)
    <3>1. Len(s) \in 0..Len(s)
      BY LenProperties
    <3>2. Added(s, p)[Len(s)] \in Seq(Nat)
      BY <3>1, AddedIs
    <3> QED
      BY <3>2 DEF Gotten
  <2> QED
    BY <2>1, ConcatProperties
<1> QED
    BY <1>1, <1>2 DEF Gotten

\* With nothing sent, it is what it was, and one more completion adds its bytes.
LEMMA ReceivedNothing ==
    ASSUME received \in Gotten
    PROVE  Received(<<>>) = received
<1>1. <<>> \in Seq(Completions) /\ Len(<<>>) = 0
    BY EmptySeq
<1>2. \A p \in Ports : Received(<<>>)[p] = received[p] \o Added(<<>>, p)[Len(<<>>)]
    BY <1>1, ReceivedIs
<1>3. \A p \in Ports : Added(<<>>, p)[0] = <<>>
    BY <1>1, AddedIs
<1>4. \A p \in Ports : received[p] \o <<>> = received[p]
    BY NothingMore DEF Gotten
<1>5. \A p \in Ports : Received(<<>>)[p] = received[p]
    BY <1>1, <1>2, <1>3, <1>4
<1>6. Received(<<>>) \in Gotten
    BY <1>1, ReceivedIs
<1> HIDE DEF Received
<1> QED
    BY <1>5, <1>6 DEF Gotten

LEMMA ReceivedMore ==
    ASSUME received \in Gotten, NEW s \in Seq(Completions), NEW c \in Completions
    PROVE  /\ Received(Append(s, c)) \in Gotten
           /\ \A p \in Ports : Received(Append(s, c))[p] = Received(s)[p] \o Bytes(p, c)
<1> DEFINE t == Append(s, c)
<1>1. t \in Seq(Completions) /\ Len(t) = Len(s) + 1
    BY AppendProperties
<1>2. \A p \in Ports : Added(t, p)[Len(s) + 1] = Added(s, p)[Len(s)] \o Bytes(p, c)
    BY AddedMore
<1> HIDE DEF t
<1>3. Received(t) \in Gotten
      /\ \A p \in Ports : Received(t)[p] = received[p] \o Added(t, p)[Len(t)]
    BY <1>1, ReceivedIs
<1>4. \A p \in Ports : Received(s)[p] = received[p] \o Added(s, p)[Len(s)]
    BY ReceivedIs
<1>5. ASSUME NEW p \in Ports
      PROVE  received[p] \o (Added(s, p)[Len(s)] \o Bytes(p, c))
                 = (received[p] \o Added(s, p)[Len(s)]) \o Bytes(p, c)
  <2>1. received[p] \in Seq(Nat) /\ Added(s, p)[Len(s)] \in Seq(Nat) /\ Bytes(p, c) \in Seq(Nat)
    <3>1. Added(s, p)[Len(s)] \in Seq(Nat)
      <4>1. Len(s) \in 0..Len(s)
        BY LenProperties
      <4> QED
        BY <4>1, AddedIs
    <3>2. Bytes(p, c) \in Seq(Nat)
      BY EmptySeq DEF Bytes, Completions
    <3> QED
      BY <3>1, <3>2 DEF Gotten
  <2> DEFINE a == received[p]
             b == Added(s, p)[Len(s)]
             d == Bytes(p, c)
  <2>2. a \in Seq(Nat) /\ b \in Seq(Nat) /\ d \in Seq(Nat)
    BY <2>1
  <2> HIDE DEF a, b, d
  <2>3. (a \o b) \o d = a \o (b \o d)
    BY <2>2, Regrouped
  <2> QED
    BY <2>3 DEF a, b, d
<1>6. \A p \in Ports : Received(t)[p] = Received(s)[p] \o Bytes(p, c)
    BY <1>1, <1>2, <1>3, <1>4, <1>5
<1> QED
    BY <1>3, <1>6 DEF t

-----------------------------------------------------------------------------
(* What happens to the list *)

Later(bytes, later) == later \in Counts /\ \A p \in Ports : bytes[p] <= later[p]

\* A request stays, and a read may have got bytes that just left the socket.
LEMMA Kept ==
    ASSUME NEW bytes \in Counts, NEW later, Later(bytes, later), NEW got \in Gotten, NEW ports,
           NEW list, GoodList(list, bytes, got, ports),
           NEW n \in 1..Len(list), NEW request \in Requests,
           request.port = list[n].port, request.major = list[n].major,
           request.major = "READ" => /\ Len(request.buffer) < request.length
                                     /\ Stream(got[request.port] \o request.buffer,
                                               later[request.port])
    PROVE  GoodList([list EXCEPT ![n] = request], later, got, ports)
<1> DEFINE new == [list EXCEPT ![n] = request]
<1>1. list \in Seq(Requests) /\ Len(list) \in Nat /\ DOMAIN list = 1..Len(list)
    BY LenProperties DEF GoodList
<1>2. /\ new \in Seq(Requests) /\ Len(new) = Len(list)
      /\ new[n] = request /\ \A i \in 1..Len(list) : i # n => new[i] = list[i]
  <2>1. new \in Seq(Requests) /\ Len(new) = Len(list)
    BY <1>1, ExceptSeq
  <2>2. new[n] = request /\ \A i \in 1..Len(list) : i # n => new[i] = list[i]
    BY <1>1
  <2> QED
    BY <2>1, <2>2
<1> HIDE DEF new
<1>3. OneOfAKind(new)
  <2>1. \A i \in 1..Len(list) : new[i].port = list[i].port /\ new[i].major = list[i].major
    BY <1>2
  <2> QED
    BY <1>2, <2>1 DEF GoodList, OneOfAKind
<1>4. Lacking(new)
    BY <1>2 DEF GoodList, Lacking
<1>5. Owned(new, ports)
    BY <1>2 DEF GoodList, Owned
<1>6. Ordered(new, later, got)
  <2> SUFFICES ASSUME NEW p \in Ports
               PROVE  /\ Stream(got[p], later[p])
                      /\ \A i \in 1..Len(new) : new[i].port = p /\ new[i].major = "READ" =>
                             Stream(got[p] \o new[i].buffer, later[p])
    BY DEF Ordered
  <2>1. bytes[p] \in Nat /\ later[p] \in Nat /\ bytes[p] <= later[p]
    BY DEF Later, Counts
  <2>2. Stream(got[p], later[p])
    BY <2>1, StreamLater DEF GoodList, Ordered
  <2>3. ASSUME NEW i \in 1..Len(list), new[i].port = p, new[i].major = "READ"
        PROVE  Stream(got[p] \o new[i].buffer, later[p])
    <3>1. CASE i = n
      BY <1>2, <2>3, <3>1
    <3>2. CASE i # n
      <4>1. Stream(got[p] \o new[i].buffer, bytes[p])
        BY <1>2, <2>3, <3>2 DEF GoodList, Ordered
      <4> QED
        BY <2>1, <4>1, StreamLater
    <3> QED
      BY <3>1, <3>2
  <2> QED
    BY <1>2, <2>2, <2>3
<1>7. Len(new) <= MaxRequests
    BY <1>2 DEF GoodList
<1> QED
    BY <1>2, <1>3, <1>4, <1>5, <1>6, <1>7 DEF GoodList, new

\* A request is answered or ended, and the server gets what a read had.
LEMMA TakenOut ==
    ASSUME NEW bytes \in Counts, NEW later, Later(bytes, later),
           NEW got \in Gotten, NEW more \in Gotten, NEW ports, NEW left,
           NEW list, GoodList(list, bytes, got, ports),
           NEW n \in 1..Len(list),
           \A p \in Ports : p # list[n].port => more[p] = got[p],
           list[n].major = "READ" \/ more = got,
           Stream(more[list[n].port], later[list[n].port]),
           Owned(Without(list, n), left)
    PROVE  GoodList(Without(list, n), later, more, left)
<1> DEFINE new == Without(list, n)
<1>1. list \in Seq(Requests) /\ Len(list) \in Nat
    BY LenProperties DEF GoodList
<1>2. new \in Seq(Requests) /\ Len(new) = Len(list) - 1
    BY <1>1, WithoutIs
<1>3. \A i \in 1..Len(new) : \E k \in 1..Len(list) :
          /\ k # n /\ k = (IF i < n THEN i ELSE i + 1) /\ new[i] = list[k]
    BY <1>1, WithoutKeeps
<1> HIDE DEF new
<1>4. OneOfAKind(new)
  <2> SUFFICES ASSUME NEW i \in 1..Len(new), NEW j \in 1..Len(new),
                      new[i].port = new[j].port, new[i].major = new[j].major
               PROVE  i = j
    BY DEF OneOfAKind
  <2>1. PICK k \in 1..Len(list) : k = (IF i < n THEN i ELSE i + 1) /\ new[i] = list[k]
    BY <1>3
  <2>2. PICK m \in 1..Len(list) : m = (IF j < n THEN j ELSE j + 1) /\ new[j] = list[m]
    BY <1>3
  <2>3. k = m
    BY <2>1, <2>2 DEF GoodList, OneOfAKind
  <2>4. i \in Nat /\ j \in Nat /\ n \in Nat
    BY <1>1, <1>2
  <2> QED
    BY <2>1, <2>2, <2>3, <2>4
<1>5. Lacking(new)
    BY <1>3 DEF GoodList, Lacking
<1>6. Ordered(new, later, more)
  <2> SUFFICES ASSUME NEW p \in Ports
               PROVE  /\ Stream(more[p], later[p])
                      /\ \A i \in 1..Len(new) : new[i].port = p /\ new[i].major = "READ" =>
                             Stream(more[p] \o new[i].buffer, later[p])
    BY DEF Ordered
  <2>1. bytes[p] \in Nat /\ later[p] \in Nat /\ bytes[p] <= later[p]
    BY DEF Later, Counts
  <2>2. Stream(more[p], later[p])
    <3>1. CASE p = list[n].port
      BY <3>1
    <3>2. CASE p # list[n].port
      <4>1. more[p] = got[p] /\ Stream(got[p], bytes[p])
        BY <3>2 DEF GoodList, Ordered
      <4> QED
        BY <2>1, <4>1, StreamLater
    <3> QED
      BY <3>1, <3>2
  <2>3. ASSUME NEW i \in 1..Len(new), new[i].port = p, new[i].major = "READ"
        PROVE  Stream(more[p] \o new[i].buffer, later[p])
    <3>1. PICK k \in 1..Len(list) : k # n /\ new[i] = list[k]
      BY <1>3
    <3>2. Stream(got[p] \o list[k].buffer, bytes[p])
      BY <2>3, <3>1 DEF GoodList, Ordered
    <3>3. more[p] = got[p]
      <4>1. p = list[n].port /\ list[n].major = "READ" => k = n
        BY <2>3, <3>1 DEF GoodList, OneOfAKind
      <4> QED
        BY <3>1, <4>1
    <3>4. Stream(got[p] \o list[k].buffer, later[p])
      BY <2>1, <3>2, StreamLater
    <3> QED
      BY <3>1, <3>3, <3>4
  <2> QED
    BY <2>2, <2>3
<1>7. Len(new) <= MaxRequests
    BY <1>1, <1>2, BoundAssumption DEF GoodList
<1> QED
    BY <1>2, <1>4, <1>5, <1>6, <1>7 DEF GoodList, new

-----------------------------------------------------------------------------
(* A pass over the list *)

Passes == [list : Seq(Requests), at : Nat \ {0}, result : Nat, event : SUBSET Ports,
           taken : Counts, sent : Seq(Completions)]

\* A pass may stop anywhere: what it sent, after "earlier", is what the server
\* has got, and the reads it has still to visit have what select promised.
GoodPass(pass, earlier, rfds) ==
    /\ pass \in Passes
    /\ GoodList(pass.list, pass.taken, Received(earlier \o pass.sent), open)
    /\ \A p \in Ports : pass.taken[p] <= arrived[p]
    /\ \A i \in 1..Len(pass.list) :
           i >= pass.at /\ pass.list[i].major = "READ" /\ pass.list[i].port \in rfds
               => pass.taken[pass.list[i].port] < arrived[pass.list[i].port]

\* What left the sockets when request "at" was visited.
Left(pass, request, bytes) ==
    /\ Later(pass.taken, bytes) /\ \A p \in Ports : bytes[p] <= arrived[p]
    /\ \A p \in Ports : p # request.port \/ request.major # "READ" => bytes[p] = pass.taken[p]

LEMMA RequestAt ==
    ASSUME NEW list \in Seq(Requests), NEW i \in 1..Len(list)
    PROVE  /\ list[i] \in Requests /\ list[i].port \in Ports /\ list[i].major \in Majors
           /\ list[i].length \in Nat /\ list[i].buffer \in Seq(Nat)
<1>1. list[i] \in Requests
    BY ElementOfSeq
<1> QED
    BY <1>1 DEF Requests

LEMMA AppendBehind ==
    ASSUME NEW S, NEW s \in Seq(S), NEW t \in Seq(S), NEW c \in S
    PROVE  s \o Append(t, c) = Append(s \o t, c) /\ s \o t \in Seq(S)
<1> DEFINE one == <<c>>
<1>1. one \in Seq(S)
    OBVIOUS
<1>2. s \o t \in Seq(S)
    BY ConcatProperties
<1>3. Append(t, c) = t \o one /\ Append(s \o t, c) = (s \o t) \o one
    BY <1>2, AppendIsConcat
<1> HIDE DEF one
<1>4. (s \o t) \o one = s \o (t \o one)
    BY <1>1, ConcatAssociative, SMTT(30)
<1> QED
    BY <1>2, <1>3, <1>4

LEMMA PassTypes ==
    ASSUME NEW pass \in Passes
    PROVE  /\ pass.list \in Seq(Requests) /\ pass.at \in Nat \ {0} /\ pass.result \in Nat
           /\ pass.event \subseteq Ports /\ pass.taken \in Counts /\ pass.sent \in Seq(Completions)
           /\ Len(pass.list) \in Nat
BY LenProperties DEF Passes

LEMMA PassAtIs ==
    ASSUME NEW list, NEW at, NEW result, NEW events, NEW bytes, NEW completions
    PROVE  /\ PassAt(list, at, result, events, bytes, completions).list = list
           /\ PassAt(list, at, result, events, bytes, completions).at = at
           /\ PassAt(list, at, result, events, bytes, completions).result = result
           /\ PassAt(list, at, result, events, bytes, completions).event = events
           /\ PassAt(list, at, result, events, bytes, completions).taken = bytes
           /\ PassAt(list, at, result, events, bytes, completions).sent = completions
           /\ (/\ list \in Seq(Requests) /\ at \in Nat \ {0} /\ result \in Nat
               /\ events \in SUBSET Ports /\ bytes \in Counts /\ completions \in Seq(Completions))
                  => PassAt(list, at, result, events, bytes, completions) \in Passes
BY DEF PassAt, Passes

LEMMA KeepGood ==
    ASSUME received \in Gotten, NEW earlier \in Seq(Completions), NEW rfds,
           NEW pass, GoodPass(pass, earlier, rfds), pass.at <= Len(pass.list),
           NEW request \in Requests,
           request.port = pass.list[pass.at].port, request.major = pass.list[pass.at].major,
           NEW result \in Nat, NEW events \in SUBSET Ports,
           NEW bytes, Left(pass, request, bytes),
           request.major = "READ" => /\ Len(request.buffer) < request.length
                                     /\ Stream(Received(earlier \o pass.sent)[request.port]
                                                   \o request.buffer, bytes[request.port])
    PROVE  GoodPass(Keep(Changed(pass, result, events, bytes), request), earlier, rfds)
<1> DEFINE list == pass.list
           at == pass.at
           got == Received(earlier \o pass.sent)
           new == [list EXCEPT ![at] = request]
           next == PassAt(new, at + 1, result, events, bytes, pass.sent)
<1>1. /\ list \in Seq(Requests) /\ Len(list) \in Nat /\ at \in Nat \ {0} /\ at \in 1..Len(list)
      /\ pass.taken \in Counts /\ pass.sent \in Seq(Completions)
    BY PassTypes DEF GoodPass
<1>2. got \in Gotten
  <2>1. earlier \o pass.sent \in Seq(Completions)
    BY <1>1, ConcatProperties
  <2> QED
    BY <2>1, ReceivedIs
<1>3. next = Keep(Changed(pass, result, events, bytes), request)
    BY DEF Keep, Changed, PassAt
<1>4. GoodList(list, pass.taken, got, open)
    BY DEF GoodPass
<1>5. /\ Later(pass.taken, bytes) /\ bytes \in Counts
      /\ (request.major = "READ" => /\ Len(request.buffer) < request.length
                                    /\ Stream(got[request.port] \o request.buffer,
                                              bytes[request.port]))
    BY DEF Left, Later
<1>6. GoodList(new, bytes, got, open)
  <2>1. request.port = list[at].port /\ request.major = list[at].major
    OBVIOUS
  <2> HIDE DEF list, at, got
  <2> QED
    BY <1>1, <1>2, <1>4, <1>5, <2>1, Kept
<1>7. \A i \in 1..Len(new) : i # at => new[i] = list[i]
    BY <1>1, ExceptSeq
<1>8. /\ next.list = new /\ next.at = at + 1 /\ next.taken = bytes /\ next.sent = pass.sent
      /\ next \in Passes
  <2>1. new \in Seq(Requests)
    BY <1>6 DEF GoodList
  <2>2. at + 1 \in Nat \ {0}
    BY <1>1
  <2> HIDE DEF new, at
  <2> QED
    BY <1>1, <1>5, <2>1, <2>2, PassAtIs
<1> HIDE DEF next
<1>9. ASSUME NEW i \in 1..Len(new), i >= at + 1, new[i].major = "READ", new[i].port \in rfds
      PROVE  bytes[new[i].port] < arrived[new[i].port]
  <2>1. Len(new) = Len(list)
    BY <1>1, ExceptSeq
  <2> HIDE DEF new
  <2>2. i \in 1..Len(list) /\ i # at /\ i >= at /\ new[i] = list[i]
    BY <1>1, <1>7, <1>9, <2>1
  <2>3. list[i].port \in Ports
    <3> HIDE DEF list
    <3> QED
      BY <1>1, <2>2, RequestAt
  <2>4. ~(list[i].port = request.port /\ request.major = "READ")
    BY <1>1, <1>4, <1>9, <2>2 DEF GoodList, OneOfAKind
  <2>5. bytes[list[i].port] = pass.taken[list[i].port]
    BY <2>3, <2>4 DEF Left
  <2>6. pass.taken[list[i].port] < arrived[list[i].port]
    BY <1>9, <2>2 DEF GoodPass
  <2> QED
    BY <2>2, <2>5, <2>6
<1>10. \A p \in Ports : bytes[p] <= arrived[p]
    BY DEF Left
<1> HIDE DEF new
<1>11. GoodPass(next, earlier, rfds)
    BY <1>6, <1>8, <1>9, <1>10 DEF GoodPass
<1> QED
    BY <1>3, <1>11

LEMMA CompleteGood ==
    ASSUME received \in Gotten, NEW earlier \in Seq(Completions), NEW rfds,
           NEW pass, GoodPass(pass, earlier, rfds), pass.at <= Len(pass.list),
           NEW request \in Requests,
           request.port = pass.list[pass.at].port, request.major = pass.list[pass.at].major,
           NEW result \in Nat, NEW events \in SUBSET Ports,
           NEW bytes, Left(pass, request, bytes),
           request.major = "READ" => Stream(Received(earlier \o pass.sent)[request.port]
                                                \o request.buffer, bytes[request.port])
    PROVE  GoodPass(Complete(Changed(pass, result, events, bytes), request), earlier, rfds)
<1> DEFINE list == pass.list
           at == pass.at
           c == Answer(request)
           before == earlier \o pass.sent
           got == Received(before)
           more == Received(Append(before, c))
           new == Without(list, at)
           then == IF at = 1 THEN Len(list) + 1 ELSE at + 1
           next == PassAt(new, then, result, events, bytes, Append(pass.sent, c))
<1>1. /\ list \in Seq(Requests) /\ Len(list) \in Nat /\ at \in Nat \ {0} /\ at \in 1..Len(list)
      /\ pass.taken \in Counts /\ pass.sent \in Seq(Completions)
    BY PassTypes DEF GoodPass
<1>2. c \in Completions /\ c.port = request.port /\ request.port \in Ports
      /\ c.buffer = IF request.major = "READ" THEN request.buffer ELSE <<>>
    BY EmptySeq DEF Answer, Requests, Completions
<1> HIDE DEF c
<1>3. /\ before \in Seq(Completions) /\ earlier \o Append(pass.sent, c) = Append(before, c)
      /\ Append(pass.sent, c) \in Seq(Completions)
    BY <1>1, <1>2, AppendBehind, AppendProperties, SMTT(30)
<1>4. next = Complete(Changed(pass, result, events, bytes), request)
    BY DEF Complete, Changed, PassAt, c
<1>5. GoodList(list, pass.taken, got, open)
    BY DEF GoodPass
<1> HIDE DEF before
<1>6. got \in Gotten /\ more \in Gotten /\ \A p \in Ports : more[p] = got[p] \o Bytes(p, c)
    BY <1>2, <1>3, ReceivedIs, ReceivedMore
<1>61. \A p \in Ports : got[p] \o <<>> = got[p]
  <2>1. \A p \in Ports : got[p] \in Seq(Nat)
    BY <1>6 DEF Gotten
  <2> QED
    BY <2>1, NothingMore
<1>7. Later(pass.taken, bytes) /\ bytes \in Counts
    BY DEF Left, Later
<1>8. Stream(got[request.port], bytes[request.port])
  <2>1. Stream(got[request.port], pass.taken[request.port])
    BY <1>2, <1>5 DEF GoodList, Ordered
  <2> DEFINE s == got[request.port]
             m == pass.taken[request.port]
             n == bytes[request.port]
  <2>2. m \in Nat /\ n \in Nat /\ m <= n
    BY <1>1, <1>2, <1>7 DEF Later, Counts
  <2> HIDE DEF s, m, n
  <2>3. Stream(s, m) => Stream(s, n)
    BY <2>2, StreamLater
  <2> QED
    BY <2>1, <2>3 DEF s, m, n
<1>9. Stream(more[request.port], bytes[request.port])
  <2>1. CASE request.major = "READ"
    BY <1>2, <1>6, <2>1 DEF Bytes, before
  <2>2. CASE request.major # "READ"
    BY <1>2, <1>6, <1>61, <1>8, <2>2 DEF Bytes
  <2> QED
    BY <2>1, <2>2
<1>10. \A p \in Ports : p # request.port => more[p] = got[p]
    BY <1>2, <1>6, <1>61 DEF Bytes
<1>11. request.major = "READ" \/ more = got
  <2>1. ASSUME request.major # "READ" PROVE \A p \in Ports : more[p] = got[p]
    BY <1>2, <1>6, <1>61, <2>1 DEF Bytes
  <2> HIDE DEF more, got
  <2> QED
    BY <1>6, <2>1 DEF Gotten
<1>12. Owned(new, open)
  <2>1. \A i \in 1..Len(new) : \E k \in 1..Len(list) : new[i] = list[k]
    <3> HIDE DEF list, at
    <3> QED
      BY <1>1, WithoutKeeps
  <2> HIDE DEF new
  <2> QED
    BY <1>5, <2>1 DEF GoodList, Owned
<1>13. GoodList(new, bytes, more, open)
  <2>1. request.port = list[at].port /\ request.major = list[at].major
    OBVIOUS
  <2>2. \A p \in Ports : p # list[at].port => more[p] = got[p]
    BY <1>10, <2>1
  <2>3. (list[at].major = "READ" \/ more = got) /\ Stream(more[list[at].port], bytes[list[at].port])
    BY <1>9, <1>11, <2>1
  <2> HIDE DEF list, at, got, more
  <2> QED
    BY <1>1, <1>5, <1>6, <1>7, <1>12, <2>2, <2>3, TakenOut
<1>14. /\ next.list = new /\ next.at = then /\ next.taken = bytes
       /\ next.sent = Append(pass.sent, c) /\ next \in Passes
  <2>1. new \in Seq(Requests)
    BY <1>13 DEF GoodList
  <2>2. then \in Nat \ {0}
    BY <1>1
  <2> DEFINE completions == Append(pass.sent, c)
  <2>3. completions \in Seq(Completions)
    BY <1>3
  <2> HIDE DEF new, then, completions
  <2>4. /\ PassAt(new, then, result, events, bytes, completions).list = new
        /\ PassAt(new, then, result, events, bytes, completions).at = then
        /\ PassAt(new, then, result, events, bytes, completions).taken = bytes
        /\ PassAt(new, then, result, events, bytes, completions).sent = completions
        /\ PassAt(new, then, result, events, bytes, completions) \in Passes
    BY <1>7, <2>1, <2>2, <2>3, PassAtIs, SMTT(30)
  <2> QED
    BY <2>4 DEF completions
<1> HIDE DEF next
<1>15. ASSUME NEW i \in 1..Len(new), i >= then, new[i].major = "READ", new[i].port \in rfds
       PROVE  bytes[new[i].port] < arrived[new[i].port]
  <2>1. Len(new) = Len(list) - 1
    BY <1>1, WithoutIs
  <2>2. PICK k \in 1..Len(list) : /\ k # at /\ k = (IF i < at THEN i ELSE i + 1)
                                  /\ new[i] = list[k]
    BY <1>1, WithoutKeeps
  <2> HIDE DEF new
  <2>3. k >= at
    BY <1>1, <1>15, <2>1, <2>2
  <2>4. list[k].port \in Ports
    <3> HIDE DEF list
    <3> QED
      BY <1>1, RequestAt
  <2>5. ~(list[k].port = request.port /\ request.major = "READ")
    BY <1>1, <1>5, <1>15, <2>2 DEF GoodList, OneOfAKind
  <2>6. bytes[list[k].port] = pass.taken[list[k].port]
    BY <2>4, <2>5 DEF Left
  <2>7. pass.taken[list[k].port] < arrived[list[k].port]
    BY <1>15, <2>2, <2>3 DEF GoodPass
  <2> QED
    BY <2>2, <2>6, <2>7
<1>16. \A p \in Ports : bytes[p] <= arrived[p]
    BY DEF Left
<1> HIDE DEF new, then
<1>17. GoodPass(next, earlier, rfds)
    BY <1>3, <1>13, <1>14, <1>15, <1>16 DEF GoodPass
<1> QED
    BY <1>4, <1>17

-----------------------------------------------------------------------------
(* A visit to a request *)

\* What a request is without its old buffer.
LEMMA WithBuffer ==
    ASSUME NEW request \in Requests, NEW buffer \in Seq(Nat)
    PROVE  /\ [request EXCEPT !.buffer = buffer] \in Requests
           /\ [request EXCEPT !.buffer = buffer].port = request.port
           /\ [request EXCEPT !.buffer = buffer].major = request.major
           /\ [request EXCEPT !.buffer = buffer].length = request.length
           /\ [request EXCEPT !.buffer = buffer].buffer = buffer
BY DEF Requests

LEMMA Unchanged ==
    ASSUME NEW pass, NEW request
    PROVE  /\ Keep(Changed(pass, pass.result, pass.event, pass.taken), request)
                  = Keep(pass, request)
           /\ Complete(Changed(pass, pass.result, pass.event, pass.taken), request)
                  = Complete(pass, request)
BY DEF Keep, Complete, Changed, PassAt

LEMMA NothingLeft ==
    ASSUME NEW earlier, NEW rfds, NEW pass, GoodPass(pass, earlier, rfds), NEW request
    PROVE  Left(pass, request, pass.taken)
<1>1. pass.taken \in Counts
    BY PassTypes DEF GoodPass
<1> QED
    BY <1>1 DEF Left, Later, Counts, GoodPass

LEMMA ReadGood ==
    ASSUME received \in Gotten, arrived \in Counts,
           NEW earlier \in Seq(Completions), NEW rfds,
           NEW pass, GoodPass(pass, earlier, rfds), pass.at <= Len(pass.list),
           pass.list[pass.at].major = "READ", pass.list[pass.at].port \in rfds
    PROVE  GoodPass(Read(pass), earlier, rfds)
<1> DEFINE request == pass.list[pass.at]
           p == request.port
           size == Smaller(request.length - Len(request.buffer), Chunk)
           count == Smaller(arrived[p] - pass.taken[p], size)
           result == IF count > 0 THEN count ELSE pass.result
           bytes == [i \in 1..result |-> IF count > 0 THEN pass.taken[p] + i ELSE 0]
           buffer == Filled(request.buffer, bytes)
           after == [request EXCEPT !.buffer = buffer]
           new == [pass.taken EXCEPT ![p] = @ + count]
           got == Received(earlier \o pass.sent)
<1>1. /\ pass.list \in Seq(Requests) /\ pass.at \in 1..Len(pass.list) /\ pass.taken \in Counts
      /\ pass.event \in SUBSET Ports /\ pass \in Passes /\ pass.sent \in Seq(Completions)
    BY PassTypes DEF GoodPass
<1>2. /\ request \in Requests /\ p \in Ports /\ request.length \in Nat
      /\ request.buffer \in Seq(Nat) /\ Len(request.buffer) \in Nat
    BY <1>1, RequestAt, LenProperties
<1>3. pass.taken[p] \in Nat /\ arrived[p] \in Nat /\ pass.taken[p] < arrived[p]
  <2>1. pass.at >= pass.at
    BY <1>1
  <2> QED
    BY <1>1, <1>2, <2>1 DEF GoodPass, Counts
<1>4. Len(request.buffer) < request.length
    BY <1>1 DEF GoodPass, GoodList, Lacking
<1>5. Stream(got[p] \o request.buffer, pass.taken[p])
    BY <1>1, <1>2 DEF GoodPass, GoodList, Ordered
<1>6. Read(pass) = IF Len(after.buffer) = request.length \/ result = 0
                   THEN Complete(Changed(pass, result, pass.event, new), after)
                   ELSE Keep(Changed(pass, result, pass.event, new), after)
    BY DEF Read
<1>7. request.port = p /\ request.major = "READ"
    OBVIOUS
<1>8. /\ count \in Nat \ {0} /\ count <= arrived[p] - pass.taken[p]
      /\ count <= request.length - Len(request.buffer)
  <2> DEFINE free == request.length - Len(request.buffer)
             waiting == arrived[p] - pass.taken[p]
  <2>1. free \in Nat \ {0} /\ waiting \in Nat \ {0} /\ Chunk \in Nat \ {0}
    <3>1. Chunk \in Nat \ {0}
      BY LengthAssumption
    <3> DEFINE m == request.length
               n == Len(request.buffer)
    <3>2. m \in Nat /\ n \in Nat /\ n < m
      BY <1>2, <1>4
    <3> HIDE DEF m, n
    <3>3. m - n \in Nat \ {0}
      BY <3>2
    <3> QED
      BY <1>3, <3>1, <3>3 DEF m, n
  <2> HIDE DEF free, waiting
  <2>2. Smaller(free, Chunk) \in Nat \ {0} /\ Smaller(free, Chunk) <= free
    BY <2>1, SmallerIs
  <2>3. /\ Smaller(waiting, Smaller(free, Chunk)) \in Nat \ {0}
        /\ Smaller(waiting, Smaller(free, Chunk)) <= waiting
        /\ Smaller(waiting, Smaller(free, Chunk)) <= Smaller(free, Chunk)
    BY <2>1, <2>2, SmallerIs
  <2>4. Smaller(waiting, Smaller(free, Chunk)) <= free
    BY <2>1, <2>2, <2>3
  <2>5. count = Smaller(waiting, Smaller(free, Chunk))
    BY DEF free, waiting
  <2> QED
    BY <2>3, <2>4, <2>5 DEF free, waiting
<1> HIDE DEF count
<1>9. result = count /\ bytes = [i \in 1..count |-> pass.taken[p] + i]
  <2>1. count > 0
    BY <1>8
  <2>2. result = count
    BY <2>1
  <2> HIDE DEF result
  <2> QED
    BY <2>1, <2>2
<1>10. bytes \in Seq(Nat) /\ Len(bytes) = count
  <2>1. bytes \in [1..count -> Nat]
    <3> DEFINE base == pass.taken[p]
    <3>1. base \in Nat /\ bytes = [i \in 1..count |-> base + i] /\ count \in Nat
      BY <1>3, <1>8, <1>9
    <3> HIDE DEF base, bytes
    <3> QED
      BY <3>1
  <2> HIDE DEF bytes
  <2> QED
    BY <1>8, <2>1, SeqOfLength
<1>11. Stream(got[p] \o buffer, pass.taken[p] + count)
  <2> DEFINE a == got[p]
             b == request.buffer
             n == pass.taken[p]
             more == [i \in 1..count |-> n + i]
  <2>1. more = bytes /\ buffer = b \o bytes
    BY <1>9 DEF Filled
  <2>2. a \in Seq(Nat) /\ b \in Seq(Nat)
    <3>1. earlier \o pass.sent \in Seq(Completions)
      BY <1>1, ConcatProperties
    <3>2. got \in Gotten
      BY <3>1, ReceivedIs
    <3> QED
      BY <1>2, <3>2 DEF Gotten
  <2>3. Stream(a \o (b \o more), n + count)
    <3>1. n \in Nat /\ count \in Nat /\ Stream(a \o b, n)
      BY <1>3, <1>5, <1>8
    <3> HIDE DEF a, b, n
    <3> QED
      BY <2>2, <3>1, StreamFilled
  <2> HIDE DEF a, b, n, more, bytes, buffer
  <2>4. Stream(a \o buffer, n + count)
    BY <2>1, <2>3
  <2> QED
    BY <2>4 DEF a, n
<1>12. buffer \in Seq(Nat) /\ Len(buffer) = Len(request.buffer) + count
  <2> DEFINE b == request.buffer
  <2>1. b \in Seq(Nat) /\ bytes \in Seq(Nat) /\ buffer = b \o bytes
    BY <1>2, <1>10 DEF Filled
  <2> HIDE DEF b, bytes, buffer
  <2>2. buffer \in Seq(Nat) /\ Len(buffer) = Len(b) + Len(bytes)
    BY <2>1, ConcatProperties
  <2> QED
    BY <1>10, <2>2 DEF b
<1> HIDE DEF bytes, buffer
<1>13. /\ after \in Requests /\ after.port = p /\ after.major = "READ"
       /\ after.length = request.length /\ after.buffer = buffer
  <2> HIDE DEF request
  <2> QED
    BY <1>2, <1>7, <1>12, WithBuffer
<1>14. new[p] = pass.taken[p] + count /\ new \in Counts
       /\ \A q \in Ports : q # p => new[q] = pass.taken[q]
  <2>1. pass.taken \in [Ports -> Nat] /\ pass.taken[p] + count \in Nat /\ p \in Ports
    BY <1>1, <1>2, <1>3, <1>8, SMTT(30) DEF Counts
  <2> HIDE DEF p
  <2> QED
    BY <2>1 DEF Counts
<1>15. \A q \in Ports : pass.taken[q] \in Nat /\ arrived[q] \in Nat /\ pass.taken[q] <= arrived[q]
    BY <1>1 DEF GoodPass, Counts
<1> HIDE DEF after, new, got
<1>16. Left(pass, after, new)
  <2>1. ASSUME NEW q \in Ports PROVE pass.taken[q] <= new[q] /\ new[q] <= arrived[q]
    <3>1. CASE q = p
      BY <1>3, <1>8, <1>14, <3>1, SMTT(30)
    <3>2. CASE q # p
      BY <1>14, <1>15, <3>2
    <3> QED
      BY <3>1, <3>2
  <2> QED
    BY <1>13, <1>14, <2>1 DEF Left, Later
<1>17. Stream(got[after.port] \o after.buffer, new[after.port])
    BY <1>11, <1>13, <1>14
<1>18. after.port = pass.list[pass.at].port /\ after.major = pass.list[pass.at].major
    BY <1>7, <1>13
<1>19. Len(after.buffer) <= request.length /\ Len(after.buffer) \in Nat
  <2> DEFINE m == Len(request.buffer)
             n == request.length
             k == Len(after.buffer)
  <2>1. m \in Nat /\ n \in Nat /\ count \in Nat /\ count <= n - m /\ k = m + count
    BY <1>2, <1>8, <1>12, <1>13
  <2> HIDE DEF m, n, k
  <2>2. k <= n /\ k \in Nat
    BY <2>1
  <2> QED
    BY <2>2 DEF n, k
<1>20. result \in Nat /\ result # 0
    BY <1>8, <1>9
<1> HIDE DEF request, result
<1>21. CASE Len(after.buffer) = request.length
  <2>1. GoodPass(Complete(Changed(pass, result, pass.event, new), after), earlier, rfds)
    BY <1>1, <1>13, <1>16, <1>17, <1>18, <1>20, CompleteGood DEF got
  <2> QED
    BY <1>6, <1>21, <2>1
<1>22. CASE Len(after.buffer) # request.length
  <2>1. Len(after.buffer) < after.length
    BY <1>2, <1>13, <1>19, <1>22
  <2>2. GoodPass(Keep(Changed(pass, result, pass.event, new), after), earlier, rfds)
    BY <1>1, <1>13, <1>16, <1>17, <1>18, <1>20, <2>1, KeepGood DEF got
  <2> QED
    BY <1>6, <1>20, <1>22, <2>2
<1> QED
    BY <1>21, <1>22

LEMMA WriteGood ==
    ASSUME received \in Gotten, NEW earlier \in Seq(Completions), NEW rfds,
           NEW accepted \in 1..Chunk,
           NEW pass, GoodPass(pass, earlier, rfds), pass.at <= Len(pass.list),
           pass.list[pass.at].major = "WRITE"
    PROVE  GoodPass(Write(pass, accepted), earlier, rfds)
<1> DEFINE request == pass.list[pass.at]
           count == Smaller(Smaller(Len(request.buffer), Chunk), accepted)
           buffer == SubSeq(request.buffer, count + 1, Len(request.buffer))
           after == [request EXCEPT !.buffer = buffer]
<1>1. /\ pass.list \in Seq(Requests) /\ pass.at \in 1..Len(pass.list) /\ pass.taken \in Counts
      /\ pass.event \in SUBSET Ports
    BY PassTypes DEF GoodPass
<1>2. /\ request \in Requests /\ request.buffer \in Seq(Nat) /\ Len(request.buffer) \in Nat
    BY <1>1, RequestAt, LenProperties
<1>3. Write(pass, accepted) = IF after.buffer = <<>>
                              THEN Complete(Changed(pass, count, pass.event, pass.taken), after)
                              ELSE Keep(Changed(pass, count, pass.event, pass.taken), after)
    BY DEF Write
<1>4. request.major = "WRITE"
    OBVIOUS
<1>5. count \in Nat /\ count <= Len(request.buffer)
    BY <1>2, LengthAssumption DEF Smaller
<1> HIDE DEF count
<1>6. buffer \in Seq(Nat)
  <2> DEFINE b == request.buffer
  <2>1. b \in Seq(Nat) /\ Len(b) \in Nat /\ count <= Len(b)
    BY <1>2, <1>5
  <2>2. Len(b) <= Len(b)
    BY <2>1
  <2> HIDE DEF b
  <2>3. SubSeq(b, count + 1, Len(b)) \in Seq(Nat)
    BY <1>5, <2>1, <2>2, PartIs
  <2> QED
    BY <2>3 DEF b
<1> HIDE DEF buffer
<1>7. after \in Requests /\ after.port = request.port /\ after.major = "WRITE"
  <2> HIDE DEF request
  <2> QED
    BY <1>2, <1>4, <1>6, WithBuffer
<1> HIDE DEF after
<1>8. Left(pass, after, pass.taken)
    BY NothingLeft
<1>9. after.port = pass.list[pass.at].port /\ after.major = pass.list[pass.at].major
    BY <1>7
<1>10. after.major # "READ"
    BY <1>7
<1> HIDE DEF request
<1>11. GoodPass(Complete(Changed(pass, count, pass.event, pass.taken), after), earlier, rfds)
    BY <1>1, <1>5, <1>7, <1>8, <1>9, <1>10, CompleteGood
<1>12. GoodPass(Keep(Changed(pass, count, pass.event, pass.taken), after), earlier, rfds)
    BY <1>1, <1>5, <1>7, <1>8, <1>9, <1>10, KeepGood
<1> QED
    BY <1>3, <1>11, <1>12

LEMMA GetEventGood ==
    ASSUME received \in Gotten, NEW earlier \in Seq(Completions), NEW rfds,
           NEW pass, GoodPass(pass, earlier, rfds), pass.at <= Len(pass.list),
           pass.list[pass.at].major = "WAIT"
    PROVE  GoodPass(GetEvent(pass), earlier, rfds)
<1> DEFINE request == pass.list[pass.at]
           p == request.port
           told == p \in pass.event /\ p \in uiWaitEventMask
           result == IF told THEN 4 ELSE pass.result
           events == pass.event \ {p}
<1>1. /\ pass.list \in Seq(Requests) /\ pass.at \in 1..Len(pass.list) /\ pass.result \in Nat
      /\ pass.event \in SUBSET Ports
    BY PassTypes DEF GoodPass
<1>2. request \in Requests
    BY <1>1, RequestAt
<1>3. GetEvent(pass) = IF told THEN Complete(Changed(pass, result, events, pass.taken), request)
                       ELSE Keep(Changed(pass, result, events, pass.taken), request)
    BY DEF GetEvent
<1>4. result \in Nat /\ events \in SUBSET Ports
    BY <1>1
<1> HIDE DEF result, events, told
<1>5. Left(pass, request, pass.taken)
    BY NothingLeft
<1>6. request.port = pass.list[pass.at].port /\ request.major = pass.list[pass.at].major
      /\ request.major # "READ"
    OBVIOUS
<1> HIDE DEF request
<1>7. GoodPass(Complete(Changed(pass, result, events, pass.taken), request), earlier, rfds)
    BY <1>2, <1>4, <1>5, <1>6, CompleteGood
<1>8. GoodPass(Keep(Changed(pass, result, events, pass.taken), request), earlier, rfds)
    BY <1>2, <1>4, <1>5, <1>6, KeepGood
<1> QED
    BY <1>3, <1>7, <1>8

\* A request that is left alone stays as it is.
LEMMA AloneGood ==
    ASSUME received \in Gotten, NEW earlier \in Seq(Completions), NEW rfds,
           NEW pass, GoodPass(pass, earlier, rfds), pass.at <= Len(pass.list)
    PROVE  GoodPass(Keep(pass, pass.list[pass.at]), earlier, rfds)
<1> DEFINE request == pass.list[pass.at]
           got == Received(earlier \o pass.sent)
<1>1. /\ pass.list \in Seq(Requests) /\ pass.at \in 1..Len(pass.list) /\ pass.result \in Nat
      /\ pass.event \in SUBSET Ports
    BY PassTypes DEF GoodPass
<1>2. request \in Requests /\ request.port \in Ports
    BY <1>1, RequestAt
<1>3. request.port = pass.list[pass.at].port /\ request.major = pass.list[pass.at].major
    OBVIOUS
<1>4. request.major = "READ" => /\ Len(request.buffer) < request.length
                                /\ Stream(got[request.port] \o request.buffer,
                                          pass.taken[request.port])
    BY <1>1, <1>2 DEF GoodPass, GoodList, Lacking, Ordered
<1>5. Left(pass, request, pass.taken)
    BY NothingLeft
<1> HIDE DEF request
<1>6. GoodPass(Keep(Changed(pass, pass.result, pass.event, pass.taken), request), earlier, rfds)
    BY <1>1, <1>2, <1>3, <1>4, <1>5, KeepGood DEF got
<1> QED
    BY <1>6, Unchanged DEF request

LEMMA VisitGood ==
    ASSUME received \in Gotten, arrived \in Counts,
           NEW earlier \in Seq(Completions), NEW rfds, NEW wfds, NEW accepted \in 1..Chunk,
           NEW pass, GoodPass(pass, earlier, rfds), pass.at <= Len(pass.list)
    PROVE  GoodPass(Visit(pass, rfds, wfds, accepted), earlier, rfds)
<1> DEFINE request == pass.list[pass.at]
<1>1. CASE request.major = "READ" /\ request.port \in rfds
  <2>1. Visit(pass, rfds, wfds, accepted) = Read(pass)
    BY <1>1 DEF Visit
  <2> QED
    BY <1>1, <2>1, ReadGood
<1>2. CASE request.major = "WRITE" /\ request.port \in wfds
  <2>1. Visit(pass, rfds, wfds, accepted) = Write(pass, accepted)
    BY <1>2 DEF Visit
  <2> QED
    BY <1>2, <2>1, WriteGood
<1>3. CASE request.major = "WAIT"
  <2>1. Visit(pass, rfds, wfds, accepted) = GetEvent(pass)
    BY <1>3 DEF Visit
  <2> QED
    BY <1>3, <2>1, GetEventGood
<1>4. CASE /\ ~(request.major = "READ" /\ request.port \in rfds)
           /\ ~(request.major = "WRITE" /\ request.port \in wfds)
           /\ request.major # "WAIT"
  <2>1. Visit(pass, rfds, wfds, accepted) = Keep(pass, request)
    BY <1>4 DEF Visit
  <2> QED
    BY <2>1, AloneGood
<1> QED
    BY <1>1, <1>2, <1>3, <1>4

-----------------------------------------------------------------------------
(* A whole pass *)

\* What the loop does at each turn, until it is behind the list.
Visited(pass, rfds, wfds, accepted) ==
    IF pass.at > Len(pass.list) THEN pass ELSE Visit(pass, rfds, wfds, accepted)

Turns(after, start, rfds, wfds, accepted) ==
    /\ after[0] = start
    /\ \A n \in 1..Len(start.list) : after[n] = Visited(after[n - 1], rfds, wfds, accepted)

\* A pass is its turns, and is in whatever set they stay in.
Passed(X, start, rfds, wfds, accepted) ==
    \E after : /\ Turns(after, start, rfds, wfds, accepted)
               /\ \A n \in 0..Len(start.list) : after[n] \in X
               /\ Pass(start, rfds, wfds, accepted) = after[Len(start.list)]

LEMMA PassIs ==
    ASSUME NEW X, NEW start \in X, Len(start.list) \in Nat,
           NEW rfds, NEW wfds, NEW accepted,
           \A pass \in X : Visited(pass, rfds, wfds, accepted) \in X
    PROVE  Passed(X, start, rfds, wfds, accepted)
<1> DEFINE N == Len(start.list)
           V(pass) == Visited(pass, rfds, wfds, accepted)
           Turn(before) == Only({IF b.at > Len(b.list) THEN b ELSE Visit(b, rfds, wfds, accepted) :
                                     b \in {before}})
           Loop(f) == f = [n \in 0..N |-> IF n = 0 THEN start ELSE Turn(f[n - 1])]
           after == CHOOSE f : Loop(f)
           F == [n \in Nat |-> [pass \in X |-> V(pass)]]
<1>1. \A before : Turn(before) = V(before)
  <2> SUFFICES ASSUME NEW before PROVE Turn(before) = V(before)
    OBVIOUS
  <2>1. {IF b.at > Len(b.list) THEN b ELSE Visit(b, rfds, wfds, accepted) : b \in {before}}
            = {V(before)}
    BY DEF Visited
  <2>2. Only({V(before)}) = V(before)
    BY DEF Only
  <2> QED
    BY <2>1, <2>2
<1>2. Pass(start, rfds, wfds, accepted) = after[N]
    BY DEF Pass
<1> HIDE DEF V, Turn, N
<1>3. \A pass \in X : V(pass) \in X
    BY DEF V
<1>4. F \in Steps(X) /\ \A n \in Nat, pass \in X : F[n][pass] = V(pass)
    BY <1>3 DEF Steps
<1> HIDE DEF F
<1>5. PICK g : Iterates(g, F, start, N) /\ \A n \in 0..N : g[n] \in X
    BY <1>4, Iteration DEF N
<1>6. N \in Nat
    BY DEF N
<1> DEFINE h == [n \in 0..N |-> g[n]]
<1>7. \A n \in 0..N : g[n] = IF n = 0 THEN start ELSE Turn(h[n - 1])
  <2> SUFFICES ASSUME NEW n \in 0..N PROVE g[n] = IF n = 0 THEN start ELSE Turn(h[n - 1])
    OBVIOUS
  <2>1. CASE n = 0
    BY <1>5, <2>1 DEF Iterates
  <2>2. CASE n # 0
    <3>1. n \in 1..N /\ n - 1 \in 0..N /\ n \in Nat
      BY <1>6, <2>2
    <3>2. g[n] = F[n][g[n - 1]] /\ g[n - 1] \in X
      BY <1>5, <3>1 DEF Iterates
    <3> QED
      BY <1>1, <1>4, <2>2, <3>1, <3>2
  <2> QED
    BY <2>1, <2>2
<1>8. Loop(h)
    BY <1>7
<1> HIDE DEF h, Loop
<1>9. Loop(after)
    BY <1>8
<1> HIDE DEF after
<1>10. \A n \in 0..N : after[n] = IF n = 0 THEN start ELSE Turn(after[n - 1])
    BY <1>9 DEF Loop
<1>11. after[0] = start /\ \A n \in 1..N : after[n] = V(after[n - 1])
  <2>1. 0 \in 0..N /\ \A n \in 1..N : n \in 0..N /\ n # 0
    BY <1>6
  <2> QED
    BY <1>1, <1>10, <2>1
<1> DEFINE S == {n \in Nat : n <= N => after[n] \in X}
<1>12. \A n \in 0..N : after[n] \in X
  <2>1. 0 \in S
    BY <1>11
  <2>2. ASSUME NEW n \in Nat, n \in S PROVE n + 1 \in S
    <3>1. ASSUME n + 1 <= N PROVE after[n + 1] \in X
      <4>1. n + 1 \in 1..N /\ (n + 1) - 1 = n /\ n <= N
        BY <1>6, <3>1
      <4>2. after[n + 1] = V(after[n])
        BY <1>11, <4>1
      <4> QED
        BY <1>3, <2>2, <4>1, <4>2
    <3> QED
      BY <3>1
  <2>3. Nat \subseteq S
    BY <2>1, <2>2, Induction
  <2> QED
    BY <1>6, <2>3
<1> QED
    BY <1>2, <1>11, <1>12 DEF N, Turns, V, Passed

LEMMA VisitedGood ==
    ASSUME received \in Gotten, arrived \in Counts,
           NEW earlier \in Seq(Completions), NEW rfds, NEW wfds, NEW accepted \in 1..Chunk,
           NEW pass, GoodPass(pass, earlier, rfds)
    PROVE  GoodPass(Visited(pass, rfds, wfds, accepted), earlier, rfds)
<1>1. pass.at \in Nat /\ Len(pass.list) \in Nat
    BY PassTypes DEF GoodPass
<1>2. CASE pass.at > Len(pass.list)
    BY <1>2 DEF Visited
<1>3. CASE ~(pass.at > Len(pass.list))
  <2>1. pass.at <= Len(pass.list)
    BY <1>1, <1>3
  <2> QED
    BY <1>3, <2>1, VisitGood DEF Visited
<1> QED
    BY <1>2, <1>3

LEMMA PassGood ==
    ASSUME received \in Gotten, arrived \in Counts,
           NEW earlier \in Seq(Completions), NEW rfds, NEW wfds, NEW accepted \in 1..Chunk,
           NEW start, GoodPass(start, earlier, rfds)
    PROVE  GoodPass(Pass(start, rfds, wfds, accepted), earlier, rfds)
<1> DEFINE X == {pass \in Passes : GoodPass(pass, earlier, rfds)}
<1>1. \A pass \in X : Visited(pass, rfds, wfds, accepted) \in X
  <2> SUFFICES ASSUME NEW pass \in X PROVE Visited(pass, rfds, wfds, accepted) \in X
    OBVIOUS
  <2>1. GoodPass(Visited(pass, rfds, wfds, accepted), earlier, rfds)
    BY VisitedGood
  <2> QED
    BY <2>1 DEF GoodPass
<1>2. start \in X /\ Len(start.list) \in Nat
    BY PassTypes DEF GoodPass
<1>3. \A pass \in X : GoodPass(pass, earlier, rfds)
    OBVIOUS
<1> HIDE DEF X
<1>4. PICK after : /\ \A n \in 0..Len(start.list) : after[n] \in X
                   /\ Pass(start, rfds, wfds, accepted) = after[Len(start.list)]
  <2>1. Passed(X, start, rfds, wfds, accepted)
    BY <1>1, <1>2, PassIs
  <2> QED
    BY <2>1 DEF Passed
<1>5. Len(start.list) \in 0..Len(start.list)
    BY <1>2
<1> QED
    BY <1>3, <1>4, <1>5

-----------------------------------------------------------------------------
(* The pass that looks for events only *)

Waits(i) == g_iorequest[i].major = "WAIT" /\ HasEvent(g_iorequest[i].port)

\* What such a pass has done so far.  Until it finds an event that is waited
\* for, the list is as it was and no request before "at" waits for one.
LooksForEvents(pass) ==
    /\ GoodPass(pass, <<>>, {}) /\ pass.taken = taken /\ pass.event \subseteq event
    /\ \A i \in 1..Len(pass.sent) : pass.sent[i].major = "WAIT" /\ HasEvent(pass.sent[i].port)
    /\ \A i \in 1..Len(pass.list) :
           pass.list[i].major = "WAIT" => Pending(pass.list[i].port, "WAIT") # {}
    /\ pass.sent = <<>> =>
           /\ pass.list = g_iorequest
           /\ event \cap uiWaitEventMask \subseteq pass.event
           /\ \A i \in 1..Len(g_iorequest) : i < pass.at => ~Waits(i)

LEMMA GetEventLooks ==
    ASSUME SerialState, NEW pass, LooksForEvents(pass), pass.at <= Len(pass.list),
           pass.list[pass.at].major = "WAIT"
    PROVE  LooksForEvents(GetEvent(pass))
<1> DEFINE list == pass.list
           at == pass.at
           request == list[at]
           p == request.port
           told == p \in pass.event /\ p \in uiWaitEventMask
           result == IF told THEN 4 ELSE pass.result
           events == pass.event \ {p}
           next == GetEvent(pass)
<1>1. /\ list \in Seq(Requests) /\ at \in 1..Len(list) /\ pass.sent \in Seq(Completions)
      /\ Len(list) \in Nat /\ DOMAIN list = 1..Len(list)
    BY PassTypes, LenProperties DEF LooksForEvents, GoodPass
<1>2. request \in Requests /\ request.major = "WAIT"
    BY <1>1, RequestAt
<1>3. GoodPass(next, <<>>, {})
  <2>1. received \in Gotten /\ <<>> \in Seq(Completions) /\ GoodPass(pass, <<>>, {})
    BY EmptySeq DEF SerialState, SerialTypes, LooksForEvents
  <2> QED
    BY <2>1, GetEventGood
<1>4. Pending(p, "WAIT") # {}
    BY <1>1, <1>2 DEF LooksForEvents
<1>5. CASE told
  <2> DEFINE c == Answer(request)
             completions == Append(pass.sent, c)
             new == Without(list, at)
             then == IF at = 1 THEN Len(list) + 1 ELSE at + 1
  <2>1. next = PassAt(new, then, result, events, pass.taken, completions)
    BY <1>5 DEF GetEvent, Complete, Changed, PassAt
  <2>2. c \in Completions /\ c.major = "WAIT" /\ c.port = p
    BY <1>2, EmptySeq DEF Answer, Requests, Completions
  <2> HIDE DEF c, then
  <2>3. /\ completions # <<>> /\ Len(completions) = Len(pass.sent) + 1
        /\ \A i \in 1..Len(pass.sent) : completions[i] = pass.sent[i]
        /\ completions[Len(pass.sent) + 1] = c /\ Len(pass.sent) \in Nat
    BY <1>1, <2>2, AppendProperties, LenProperties
  <2>4. \A i \in 1..Len(new) : \E k \in 1..Len(list) : new[i] = list[k]
    <3> HIDE DEF list, at
    <3> QED
      BY <1>1, WithoutKeeps
  <2> HIDE DEF completions, new, events, result
  <2>5. /\ next.list = new /\ next.event = events /\ next.taken = pass.taken
        /\ next.sent = completions
    BY <2>1, PassAtIs
  <2> HIDE DEF next
  <2>6. HasEvent(p)
    BY <1>4, <1>5 DEF LooksForEvents, HasEvent
  <2>7. \A i \in 1..Len(completions) : completions[i].major = "WAIT" /\ HasEvent(completions[i].port)
    <3>1. \A i \in 1..Len(completions) : i \in 1..Len(pass.sent) \/ i = Len(pass.sent) + 1
      BY <2>3
    <3> QED
      BY <2>2, <2>3, <2>6, <3>1 DEF LooksForEvents
  <2>8. \A i \in 1..Len(new) : new[i].major = "WAIT" => Pending(new[i].port, "WAIT") # {}
    BY <2>4 DEF LooksForEvents
  <2>9. pass.taken = taken /\ events \subseteq event
    BY DEF LooksForEvents, events
  <2>10. LooksForEvents(next)
    BY <1>3, <2>3, <2>5, <2>7, <2>8, <2>9 DEF LooksForEvents
  <2> QED
    BY <2>10 DEF next
<1>6. CASE ~told
  <2> DEFINE new == [list EXCEPT ![at] = request]
  <2>1. next = PassAt(new, at + 1, result, events, pass.taken, pass.sent)
    BY <1>6 DEF GetEvent, Keep, Changed, PassAt
  <2>2. new = list
    <3>1. list \in [1..Len(list) -> Requests]
      BY <1>1, LenProperties
    <3> HIDE DEF list, at
    <3> QED
      BY <1>1, <3>1
  <2> HIDE DEF new, events, result
  <2>3. /\ next.list = list /\ next.event = events /\ next.taken = pass.taken
        /\ next.sent = pass.sent /\ next.at = at + 1
    BY <2>1, <2>2, PassAtIs
  <2> HIDE DEF next
  <2>4. pass.taken = taken /\ events \subseteq event
    BY DEF LooksForEvents, events
  <2>5. ASSUME pass.sent = <<>>
        PROVE  /\ list = g_iorequest /\ event \cap uiWaitEventMask \subseteq events
               /\ \A i \in 1..Len(g_iorequest) : i < at + 1 => ~Waits(i)
    <3>1. /\ list = g_iorequest /\ event \cap uiWaitEventMask \subseteq pass.event
          /\ \A i \in 1..Len(g_iorequest) : i < at => ~Waits(i)
      BY <2>5 DEF LooksForEvents
    <3>2. ~(p \in event /\ p \in uiWaitEventMask)
      BY <1>6, <3>1
    <3>3. event \cap uiWaitEventMask \subseteq events
      BY <3>1, <3>2 DEF events
    <3>4. ~Waits(at)
      BY <3>1, <3>2 DEF Waits, HasEvent
    <3>5. \A i \in 1..Len(g_iorequest) : i < at + 1 => i < at \/ i = at
      BY <1>1, <3>1
    <3> QED
      BY <3>1, <3>3, <3>4, <3>5
  <2>6. LooksForEvents(next)
    BY <1>3, <2>3, <2>4, <2>5 DEF LooksForEvents
  <2> QED
    BY <2>6 DEF next
<1> QED
    BY <1>5, <1>6

LEMMA VisitedLooks ==
    ASSUME SerialState, NEW pass, LooksForEvents(pass)
    PROVE  LooksForEvents(Visited(pass, {}, {}, 1))
<1> DEFINE list == pass.list
           at == pass.at
           request == list[at]
<1>1. /\ list \in Seq(Requests) /\ at \in Nat \ {0} /\ Len(list) \in Nat
      /\ GoodPass(pass, <<>>, {})
    BY PassTypes DEF LooksForEvents, GoodPass
<1>2. CASE at > Len(list)
    BY <1>2 DEF Visited
<1>3. CASE ~(at > Len(list))
  <2>1. at <= Len(list) /\ at \in 1..Len(list)
    BY <1>1, <1>3
  <2>2. CASE request.major = "WAIT"
    <3>1. Visited(pass, {}, {}, 1) = GetEvent(pass)
      BY <1>3, <2>2 DEF Visited, Visit
    <3> QED
      BY <2>1, <2>2, <3>1, GetEventLooks
  <2>3. CASE request.major # "WAIT"
    <3> DEFINE next == Keep(pass, request)
               new == [list EXCEPT ![at] = request]
    <3>1. Visited(pass, {}, {}, 1) = next
      BY <1>3, <2>3 DEF Visited, Visit
    <3>2. GoodPass(next, <<>>, {})
      <4>1. received \in Gotten /\ <<>> \in Seq(Completions)
        BY EmptySeq DEF SerialState, SerialTypes
      <4> QED
        BY <1>1, <2>1, <4>1, AloneGood
    <3>3. next = PassAt(new, at + 1, pass.result, pass.event, pass.taken, pass.sent)
      BY DEF Keep
    <3>4. new = list
      <4>1. list \in [1..Len(list) -> Requests]
        BY <1>1, LenProperties
      <4> HIDE DEF list, at
      <4> QED
        BY <2>1, <4>1
    <3> HIDE DEF new, next
    <3>5. /\ next.list = list /\ next.event = pass.event /\ next.taken = pass.taken
          /\ next.sent = pass.sent /\ next.at = at + 1
      BY <3>3, <3>4, PassAtIs
    <3>6. ASSUME pass.sent = <<>>
          PROVE  \A i \in 1..Len(g_iorequest) : i < at + 1 => ~Waits(i)
      <4>1. list = g_iorequest /\ \A i \in 1..Len(g_iorequest) : i < at => ~Waits(i)
        BY <3>6 DEF LooksForEvents
      <4>2. ~Waits(at)
        BY <2>3, <4>1 DEF Waits
      <4>3. \A i \in 1..Len(g_iorequest) : i < at + 1 => i < at \/ i = at
        BY <1>1, <4>1
      <4> QED
        BY <4>1, <4>2, <4>3
    <3>7. LooksForEvents(next)
      BY <3>2, <3>5, <3>6 DEF LooksForEvents
    <3> QED
      BY <3>1, <3>7
  <2> QED
    BY <2>2, <2>3
<1> QED
    BY <1>2, <1>3

\* The pass for events, and what follows if it finds none.
LEMMA EventPassLooks ==
    ASSUME SerialState
    PROVE  /\ LooksForEvents(EventPass)
           /\ EventPass.sent = <<>> => \A i \in 1..Len(g_iorequest) : ~Waits(i)
<1> DEFINE start == Start(g_iorequest, event, taken)
           X == {pass \in Passes : LooksForEvents(pass)}
           N == Len(g_iorequest)
<1>1. g_iorequest \in Seq(Requests) /\ N \in Nat /\ DOMAIN g_iorequest = 1..N
    BY LenProperties DEF SerialState, GoodList
<1>2. /\ start.list = g_iorequest /\ start.at = 1 /\ start.event = event /\ start.taken = taken
      /\ start.sent = <<>> /\ start \in Passes
  <2>1. <<>> \in Seq(Completions) /\ event \in SUBSET Ports /\ taken \in Counts
    BY EmptySeq DEF SerialState, SerialTypes
  <2> QED
    BY <1>1, <2>1 DEF Start, PassAt, Passes
<1> HIDE DEF start
<1>3. LooksForEvents(start)
  <2>1. <<>> \o start.sent = <<>>
    BY <1>2
  <2>2. Received(<<>> \o start.sent) = received
    BY <2>1, ReceivedNothing DEF SerialState, SerialTypes
  <2>3. GoodPass(start, <<>>, {})
    BY <1>2, <2>2 DEF GoodPass, SerialState, SerialTypes
  <2>4. \A i \in 1..N : g_iorequest[i].major = "WAIT" => Pending(g_iorequest[i].port, "WAIT") # {}
    BY <1>1 DEF Pending
  <2>5. Len(start.sent) = 0
    BY <1>2
  <2>6. \A i \in 1..N : ~(i < start.at)
    BY <1>2
  <2> QED
    BY <1>2, <2>3, <2>4, <2>5, <2>6 DEF LooksForEvents
<1>4. \A pass \in X : Visited(pass, {}, {}, 1) \in X
  <2> SUFFICES ASSUME NEW pass \in X PROVE Visited(pass, {}, {}, 1) \in X
    OBVIOUS
  <2>1. LooksForEvents(Visited(pass, {}, {}, 1))
    BY VisitedLooks
  <2> QED
    BY <2>1 DEF LooksForEvents, GoodPass
<1>5. start \in X /\ Len(start.list) = N
    BY <1>2, <1>3
<1>6. \A pass \in X : LooksForEvents(pass)
    OBVIOUS
<1> HIDE DEF X
<1>7. PICK after : /\ Turns(after, start, {}, {}, 1)
                   /\ \A n \in 0..N : after[n] \in X
                   /\ Pass(start, {}, {}, 1) = after[N]
  <2>1. Len(start.list) \in Nat
    BY <1>1, <1>5
  <2>2. start \in X
    BY <1>5
  <2>3. Passed(X, start, {}, {}, 1)
    BY <1>4, <2>1, <2>2, PassIs
  <2> QED
    BY <1>5, <2>3 DEF Passed
<1>8. EventPass = after[N] /\ N \in 0..N
    BY <1>1, <1>7 DEF EventPass, start
<1> DEFINE S == {n \in Nat : n <= N => (after[n].sent = <<>> => after[n].at >= n + 1)}
<1>9. Nat \subseteq S
  <2>1. 0 \in S
    BY <1>2, <1>7 DEF Turns
  <2>2. ASSUME NEW n \in Nat, n \in S PROVE n + 1 \in S
    <3> DEFINE before == after[n]
               next == after[n + 1]
    <3> SUFFICES ASSUME n + 1 <= N, next.sent = <<>> PROVE next.at >= (n + 1) + 1
      OBVIOUS
    <3>1. n + 1 \in 1..N /\ (n + 1) - 1 = n /\ n \in 0..N /\ n <= N /\ n + 1 \in 0..N
      BY <1>1
    <3>2. next = Visited(before, {}, {}, 1)
      BY <1>5, <1>7, <3>1 DEF Turns
    <3>3. LooksForEvents(before) /\ before.at \in Nat \ {0} /\ before.sent \in Seq(Completions)
      <4>1. LooksForEvents(before)
        BY <1>6, <1>7, <3>1
      <4> QED
        BY <4>1, PassTypes DEF LooksForEvents, GoodPass
    <3> HIDE DEF before, next
    <3>4. CASE before.at > Len(before.list)
      <4>1. next = before
        BY <3>2, <3>4 DEF Visited
      <4>2. before.list = g_iorequest
        BY <3>3, <4>1 DEF LooksForEvents
      <4> QED
        BY <1>1, <3>1, <3>3, <3>4, <4>1, <4>2
    <3>5. CASE ~(before.at > Len(before.list))
      <4> DEFINE request == before.list[before.at]
      <4>1. next = Visit(before, {}, {}, 1)
        BY <3>2, <3>5 DEF Visited
      <4>2. CASE request.major = "WAIT"
        <5> DEFINE told == request.port \in before.event /\ request.port \in uiWaitEventMask
                   result == IF told THEN 4 ELSE before.result
                   events == before.event \ {request.port}
        <5>1. next = IF told THEN Complete(Changed(before, result, events, before.taken), request)
                     ELSE Keep(Changed(before, result, events, before.taken), request)
          BY <4>1, <4>2 DEF Visit, GetEvent
        <5>2. CASE told
          <6> DEFINE c == Answer(request)
                     completions == Append(before.sent, c)
          <6>1. next.sent = completions
            BY <5>1, <5>2 DEF Complete, Changed, PassAt
          <6>2. completions # <<>>
            <7>1. before.list \in Seq(Requests) /\ before.at \in 1..Len(before.list)
              BY <3>3, <3>5, PassTypes DEF LooksForEvents, GoodPass
            <7>2. request \in Requests
              BY <7>1, RequestAt
            <7>3. c \in Completions
              BY <7>2, EmptySeq DEF Answer, Requests, Completions
            <7> HIDE DEF c
            <7> QED
              BY <3>3, <7>3, AppendProperties
          <6> QED
            BY <6>1, <6>2
        <5>3. CASE ~told
          <6>1. next.sent = before.sent /\ next.at = before.at + 1
            BY <5>1, <5>3 DEF Keep, Changed, PassAt
          <6> QED
            BY <2>2, <3>1, <3>3, <6>1 DEF before
        <5> QED
          BY <5>2, <5>3
      <4>3. CASE request.major # "WAIT"
        <5>1. next.sent = before.sent /\ next.at = before.at + 1
          BY <4>1, <4>3 DEF Visit, Keep, PassAt
        <5> QED
          BY <2>2, <3>1, <3>3, <5>1 DEF before
      <4> QED
        BY <4>2, <4>3
    <3> QED
      BY <3>4, <3>5
  <2> QED
    BY <2>1, <2>2, Induction
<1>10. LooksForEvents(after[N])
    BY <1>6, <1>7, <1>8
<1>11. ASSUME after[N].sent = <<>> PROVE \A i \in 1..N : ~Waits(i)
  <2>1. after[N].at >= N + 1
    BY <1>1, <1>9, <1>11
  <2>2. after[N].at \in Nat
    BY <1>10, PassTypes DEF LooksForEvents, GoodPass
  <2>3. \A i \in 1..N : i < after[N].at
    BY <1>1, <2>1, <2>2
  <2> QED
    BY <1>10, <1>11, <2>3 DEF LooksForEvents
<1> QED
    BY <1>8, <1>10, <1>11

\* The second pass starts from what the first left.
LEMMA AgainGood ==
    ASSUME SerialState, NEW rfds, NEW first, LooksForEvents(first),
           \A p \in rfds : taken[p] < arrived[p]
    PROVE  /\ GoodPass(Again(first), first.sent, rfds) /\ first.sent \in Seq(Completions)
           /\ Again(first).list = first.list /\ Again(first).at = 1
<1> DEFINE again == Again(first)
<1>1. /\ first.list \in Seq(Requests) /\ first.event \in SUBSET Ports /\ first.taken \in Counts
      /\ first.sent \in Seq(Completions) /\ <<>> \in Seq(Completions)
    BY PassTypes, EmptySeq DEF LooksForEvents, GoodPass
<1>2. /\ again.list = first.list /\ again.at = 1 /\ again.taken = first.taken
      /\ again.sent = <<>> /\ again \in Passes
    BY <1>1 DEF Again, Start, PassAt, Passes
<1> HIDE DEF again
<1>3. first.sent \o again.sent = first.sent /\ <<>> \o first.sent = first.sent
    BY <1>1, <1>2, ConcatEmptySeq
<1>4. /\ GoodList(first.list, first.taken, Received(<<>> \o first.sent), open)
      /\ \A p \in Ports : first.taken[p] <= arrived[p]
      /\ first.taken = taken
    BY DEF LooksForEvents, GoodPass
<1>5. GoodPass(again, first.sent, rfds)
    BY <1>2, <1>3, <1>4 DEF GoodPass
<1> QED
    BY <1>1, <1>2, <1>5 DEF again

LEMMA FinishGood ==
    ASSUME SerialState, NEW earlier \in Seq(Completions), NEW rfds,
           NEW pass, GoodPass(pass, earlier, rfds), Finish(pass, earlier), rdpdr_add_fds
    PROVE  SerialState'
<1>1. /\ pass.event \in SUBSET Ports /\ pass.taken \in Counts /\ pass.sent \in Seq(Completions)
    BY PassTypes DEF GoodPass
<1>2. earlier \o pass.sent \in Seq(Completions)
    BY <1>1, ConcatProperties
<1>3. Received(earlier \o pass.sent) \in Gotten
    BY <1>2, ReceivedIs DEF SerialState, SerialTypes
<1>4. /\ g_iorequest' = pass.list /\ event' = pass.event /\ taken' = pass.taken
      /\ sent' = earlier \o pass.sent /\ received' = Received(earlier \o pass.sent)
      /\ UNCHANGED <<open, uiWaitEventMask, timers, arrived>>
    BY DEF Finish
<1>5. GoodList(g_iorequest', taken', received', open')
    BY <1>4 DEF GoodPass
<1>6. g_min_timeout_fd' \in Ports \cup {NoPort} /\ s_timeout' \in BOOLEAN
  <2>1. CASE Timed = {}
    BY <2>1 DEF rdpdr_add_fds, SerialState, SerialTypes
  <2>2. CASE Timed # {}
    <3>1. Timed \subseteq Ports
      <4>1. \A i \in DOMAIN g_iorequest : g_iorequest[i].port \in Ports
        BY RequestAt, LenProperties DEF SerialState, GoodList
      <4> QED
        BY <4>1 DEF Timed
    <3> QED
      BY <2>2, <3>1 DEF rdpdr_add_fds
  <2> QED
    BY <2>1, <2>2
<1>7. SerialTypes'
    BY <1>1, <1>2, <1>3, <1>4, <1>6 DEF SerialState, SerialTypes, GoodPass
<1> QED
    BY <1>5, <1>7 DEF SerialState

-----------------------------------------------------------------------------
(* The actions *)

\* The first request of a port, if it has one, is ended.
LEMMA AbortIs ==
    ASSUME NEW list \in Seq(Requests), NEW p
    PROVE  \/ /\ \A i \in 1..Len(list) : list[i].port # p
              /\ Abort(list, p) = [list |-> list, sent |-> <<>>]
           \/ \E n \in 1..Len(list) :
                  /\ list[n].port = p
                  /\ Abort(list, p) = [list |-> Without(list, n), sent |-> <<Ended(list[n])>>]
<1> DEFINE mine == {i \in DOMAIN list : list[i].port = p}
           first == CHOOSE i \in mine : \A j \in mine : i <= j
<1>1. DOMAIN list = 1..Len(list) /\ Len(list) \in Nat
    BY LenProperties
<1>2. CASE mine = {}
    BY <1>1, <1>2 DEF Abort
<1>3. CASE mine # {}
  <2>1. mine \in SUBSET Nat
    BY <1>1
  <2>2. \E i \in mine : \A j \in mine : i <= j
    BY <1>3, <2>1, Smallest
  <2>3. first \in mine
    BY <2>2
  <2>4. Abort(list, p) = [list |-> Without(list, first), sent |-> <<Ended(list[first])>>]
    BY <1>3 DEF Abort
  <2> QED
    BY <1>1, <2>3, <2>4
<1> QED
    BY <1>2, <1>3

EndsOne(completions, list) ==
    completions = <<>> \/ \E n \in 1..Len(list) : completions = <<Ended(list[n])>>

LEMMA AbortGood ==
    ASSUME NEW bytes \in Counts, NEW later, Later(bytes, later), NEW got \in Gotten,
           NEW ports, NEW left,
           NEW list, GoodList(list, bytes, got, ports), NEW p \in Ports,
           Owned(Abort(list, p).list, left)
    PROVE  /\ GoodList(Abort(list, p).list, later, got, left)
           /\ EndsOne(Abort(list, p).sent, list)
<1>1. list \in Seq(Requests)
    BY DEF GoodList
<1>2. \A q \in Ports : Stream(got[q], later[q])
  <2> SUFFICES ASSUME NEW q \in Ports PROVE Stream(got[q], later[q])
    OBVIOUS
  <2>1. Stream(got[q], bytes[q]) /\ bytes[q] \in Nat /\ later[q] \in Nat /\ bytes[q] <= later[q]
    BY DEF GoodList, Ordered, Later, Counts
  <2> QED
    BY <2>1, StreamLater
<1>3. CASE Abort(list, p) = [list |-> list, sent |-> <<>>]
  <2>1. Abort(list, p).list = list /\ Abort(list, p).sent = <<>>
    BY <1>3
  <2>2. Ordered(list, later, got)
    <3> SUFFICES ASSUME NEW q \in Ports, NEW i \in 1..Len(list),
                        list[i].port = q, list[i].major = "READ"
                 PROVE  Stream(got[q] \o list[i].buffer, later[q])
      BY <1>2 DEF Ordered
    <3>1. /\ Stream(got[q] \o list[i].buffer, bytes[q])
          /\ bytes[q] \in Nat /\ later[q] \in Nat /\ bytes[q] <= later[q]
      BY DEF GoodList, Ordered, Later, Counts
    <3> QED
      BY <3>1, StreamLater
  <2> QED
    BY <2>1, <2>2 DEF GoodList, EndsOne
<1>4. ASSUME NEW n \in 1..Len(list), list[n].port = p,
             Abort(list, p) = [list |-> Without(list, n), sent |-> <<Ended(list[n])>>]
      PROVE  GoodList(Abort(list, p).list, later, got, left)
             /\ Abort(list, p).sent = <<Ended(list[n])>>
  <2>1. Abort(list, p).list = Without(list, n) /\ Abort(list, p).sent = <<Ended(list[n])>>
    BY <1>4
  <2>2. Owned(Without(list, n), left)
    BY <2>1
  <2>3. Stream(got[list[n].port], later[list[n].port])
    BY <1>2, <1>4
  <2>4. GoodList(Without(list, n), later, got, left)
    BY <2>2, <2>3, TakenOut
  <2> QED
    BY <2>1, <2>4
<1> QED
    BY <1>1, <1>3, <1>4, AbortIs DEF EndsOne

\* A request that joins the list is the only one of its kind.
LEMMA AddGood ==
    ASSUME SerialState, OneAtATime, NEW request \in Requests, Add(request),
           request.major = "READ" => request.buffer = <<>> /\ request.length # 0
    PROVE  GoodList(g_iorequest', taken, received, open)
<1> DEFINE list == g_iorequest
           new == Append(list, request)
<1>1. /\ list \in Seq(Requests) /\ Len(list) \in Nat /\ DOMAIN list = 1..Len(list)
      /\ GoodList(list, taken, received, open)
    BY LenProperties DEF SerialState, GoodList
<1>2. g_iorequest' = new /\ request.port \in open /\ Len(list) < MaxRequests
      /\ Pending(request.port, request.major) = {}
    BY DEF Add
<1>3. /\ new \in Seq(Requests) /\ Len(new) = Len(list) + 1
      /\ \A i \in 1..Len(list) : new[i] = list[i]
      /\ new[Len(list) + 1] = request
    BY <1>1, AppendProperties
<1>4. \A i \in 1..Len(list) : list[i].port = request.port => list[i].major # request.major
    BY <1>1, <1>2 DEF Pending
<1> HIDE DEF new
<1>5. \A i \in 1..Len(new) : \/ i \in 1..Len(list) /\ new[i] = list[i]
                             \/ i = Len(list) + 1 /\ new[i] = request
  <2>1. \A i \in 1..(Len(list) + 1) : i \in 1..Len(list) \/ i = Len(list) + 1
    BY <1>1
  <2> QED
    BY <1>3, <2>1
<1>6. OneOfAKind(new)
    BY <1>1, <1>4, <1>5 DEF GoodList, OneOfAKind
<1>7. Lacking(new)
  <2>1. request.major = "READ" => Len(request.buffer) = 0 /\ request.length \in Nat
    BY DEF Requests
  <2>2. request.major = "READ" => Len(request.buffer) < request.length
    BY <2>1
  <2> QED
    BY <1>1, <1>5, <2>2 DEF GoodList, Lacking
<1>8. Owned(new, open)
    BY <1>1, <1>2, <1>5 DEF GoodList, Owned
<1>9. Ordered(new, taken, received)
  <2> SUFFICES ASSUME NEW p \in Ports
               PROVE  /\ Stream(received[p], taken[p])
                      /\ \A i \in 1..Len(new) : new[i].port = p /\ new[i].major = "READ" =>
                             Stream(received[p] \o new[i].buffer, taken[p])
    BY DEF Ordered
  <2>1. Stream(received[p], taken[p])
    BY <1>1 DEF GoodList, Ordered
  <2>2. received[p] \o <<>> = received[p]
    BY NothingMore DEF SerialState, SerialTypes, Gotten
  <2>3. ASSUME NEW i \in 1..Len(new), new[i].port = p, new[i].major = "READ"
        PROVE  Stream(received[p] \o new[i].buffer, taken[p])
    <3>1. CASE i \in 1..Len(list) /\ new[i] = list[i]
      BY <1>1, <2>3, <3>1 DEF GoodList, Ordered
    <3>2. CASE i = Len(list) + 1 /\ new[i] = request
      BY <2>1, <2>2, <2>3, <3>2
    <3> QED
      BY <1>5, <3>1, <3>2
  <2> QED
    BY <2>1, <2>3
<1>10. Len(new) <= MaxRequests
    BY <1>1, <1>2, <1>3, BoundAssumption
<1> QED
    BY <1>2, <1>3, <1>6, <1>7, <1>8, <1>9, <1>10 DEF GoodList

LEMMA SerialInitGood == Init => SerialState
<1> SUFFICES ASSUME Init PROVE SerialState
    OBVIOUS
<1>1. /\ g_iorequest = <<>> /\ Len(g_iorequest) = 0 /\ sent = <<>> /\ open = {}
      /\ taken = [p \in Ports |-> 0] /\ arrived = taken /\ received = [p \in Ports |-> <<>>]
    BY DEF Init
<1>2. <<>> \in Seq(Requests) /\ <<>> \in Seq(Completions) /\ <<>> \in Seq(Nat)
    BY EmptySeq
<1>3. SerialTypes
  <2>1. arrived \in Counts /\ taken \in Counts /\ \A p \in Ports : taken[p] <= arrived[p]
    BY <1>1 DEF Counts
  <2>2. \A p \in Ports : arrived[p] <= MaxBytes[p]
    <3>1. \A p \in Ports : MaxBytes[p] \in Nat /\ arrived[p] = 0
      BY <1>1, BoundAssumption
    <3> QED
      BY <3>1
  <2>3. received \in Gotten /\ sent \in Seq(Completions)
    BY <1>1, <1>2 DEF Gotten
  <2>4. timers \in [Ports -> SUBSET {"total", "interval"}]
    BY DEF Init
  <2> QED
    BY <2>1, <2>2, <2>3, <2>4 DEF Init, SerialTypes
<1>4. \A p \in Ports : Stream(received[p], taken[p])
    BY <1>1, <1>2 DEF Stream, Increasing
<1>5. GoodList(g_iorequest, taken, received, open)
    BY <1>1, <1>2, <1>4, BoundAssumption DEF GoodList, OneOfAKind, Lacking, Owned, Ordered
<1> QED
    BY <1>3, <1>5 DEF SerialState

LEMMA CheckFdsGood ==
    ASSUME SerialState, NEW wfds, NEW accepted \in 1..Chunk, NEW other,
           CheckFds(wfds, accepted, other)
    PROVE  SerialState'
<1> DEFINE first == EventPass
           second == Pass(Again(first), Readable, wfds, accepted)
<1>1. rdpdr_add_fds /\ Finish(second, first.sent)
    BY DEF CheckFds
<1>2. LooksForEvents(first)
    BY EventPassLooks
<1>3. \A p \in Readable : taken[p] < arrived[p]
  <2>1. \A p \in Ports : taken[p] \in Nat /\ arrived[p] \in Nat
    BY DEF SerialState, SerialTypes, Counts
  <2> QED
    BY <2>1 DEF Readable
<1> HIDE DEF first
<1>4. GoodPass(Again(first), first.sent, Readable) /\ first.sent \in Seq(Completions)
    BY <1>2, <1>3, AgainGood
<1>5. GoodPass(second, first.sent, Readable)
    BY <1>4, PassGood DEF SerialState, SerialTypes
<1> HIDE DEF second
<1> QED
    BY <1>1, <1>4, <1>5, FinishGood

\* After a time-out the first request gives what it has, or one is ended.
LEMMA TimeOutGood ==
    ASSUME SerialState, TimeOut
    PROVE  SerialState'
<1> DEFINE first == EventPass
           pass == Again(first)
           p == g_min_timeout_fd'
           second == TimeOutPass(pass, p)
           earlier == first.sent
           list == pass.list
<1>1. rdpdr_add_fds /\ Finish(second, earlier)
    BY DEF TimeOut
<1>2. LooksForEvents(first)
    BY EventPassLooks
<1> HIDE DEF first
<1>3. /\ GoodPass(pass, earlier, {}) /\ earlier \in Seq(Completions) /\ pass.at = 1
      /\ first.sent = earlier
  <2> DEFINE none == {}
  <2>1. \A q \in none : taken[q] < arrived[q]
    OBVIOUS
  <2> HIDE DEF none
  <2>2. GoodPass(Again(first), first.sent, none) /\ first.sent \in Seq(Completions)
        /\ Again(first).at = 1
    BY <1>2, <2>1, AgainGood
  <2> QED
    BY <2>2 DEF none
<1> HIDE DEF earlier
<1>31. pass.sent = <<>>
    BY DEF Again, Start, PassAt
<1> HIDE DEF pass
<1>4. /\ list \in Seq(Requests) /\ Len(list) \in Nat /\ pass.taken \in Counts
      /\ pass.result \in Nat /\ pass.event \in SUBSET Ports
      /\ GoodList(list, pass.taken, Received(earlier \o pass.sent), open)
    BY <1>3, PassTypes DEF GoodPass
<1>5. received \in Gotten
    BY DEF SerialState, SerialTypes
<1>6. earlier \o pass.sent = earlier
    BY <1>3, <1>31, ConcatEmptySeq
<1>7. CASE /\ list # <<>> /\ list[1].port = p /\ list[1].major = "READ" /\ list[1].buffer # <<>>
  <2> DEFINE request == list[1]
  <2>1. 1 \in 1..Len(list)
    BY <1>4, <1>7, EmptySeq
  <2>2. request \in Requests
    BY <1>4, <2>1, RequestAt
  <2>3. second = Complete(Changed(pass, pass.result, pass.event, pass.taken), request)
    BY <1>7, Unchanged DEF TimeOutPass
  <2>4. Left(pass, request, pass.taken)
    BY <1>3, NothingLeft
  <2>5. Stream(Received(earlier \o pass.sent)[request.port] \o request.buffer,
               pass.taken[request.port])
    BY <1>4, <1>7, <2>1, <2>2 DEF GoodList, Ordered, Requests
  <2>6. request.port = pass.list[pass.at].port /\ request.major = pass.list[pass.at].major
        /\ pass.at <= Len(pass.list)
    BY <1>3, <1>4, <2>1
  <2> HIDE DEF request, second
  <2>7. GoodPass(second, earlier, {})
    BY <1>3, <1>4, <1>5, <2>2, <2>3, <2>4, <2>5, <2>6, CompleteGood
  <2> QED
    BY <1>1, <1>3, <2>7, FinishGood
<1>8. CASE ~(/\ list # <<>> /\ list[1].port = p /\ list[1].major = "READ"
             /\ list[1].buffer # <<>>)
  <2> DEFINE ended == Abort(list, p)
  <2>1. second = PassAt(ended.list, 1, 0, pass.event, pass.taken, ended.sent)
    BY <1>8 DEF TimeOutPass
  <2>2. p \in Ports \/ ended = [list |-> list, sent |-> <<>>]
    <3>1. ASSUME NEW n \in 1..Len(list) PROVE list[n].port \in Ports
      BY <1>4, RequestAt
    <3> QED
      BY <1>4, <3>1, AbortIs
  <2>3. Owned(ended.list, open)
    <3>1. \A i \in 1..Len(ended.list) : \E k \in 1..Len(list) : ended.list[i] = list[k]
      <4>1. CASE ended = [list |-> list, sent |-> <<>>]
        BY <4>1
      <4>2. ASSUME NEW n \in 1..Len(list),
                   ended = [list |-> Without(list, n), sent |-> <<Ended(list[n])>>]
            PROVE  \A i \in 1..Len(ended.list) : \E k \in 1..Len(list) : ended.list[i] = list[k]
        <5>1. ended.list = Without(list, n)
          BY <4>2
        <5>2. \A i \in 1..Len(Without(list, n)) : \E k \in 1..Len(list) : Without(list, n)[i] = list[k]
          <6> HIDE DEF list
          <6> QED
            BY <1>4, WithoutKeeps, SMTT(30)
        <5> QED
          BY <5>1, <5>2
      <4> QED
        BY <1>4, <4>1, <4>2, AbortIs
    <3> HIDE DEF ended
    <3> QED
      BY <1>4, <3>1 DEF GoodList, Owned
  <2> DEFINE got == Received(earlier \o pass.sent)
  <2>4. got \in Gotten /\ Later(pass.taken, pass.taken)
    <3>1. got \in Gotten
      BY <1>3, <1>5, <1>6, ReceivedIs
    <3> QED
      BY <1>4, <3>1 DEF Later, Counts
  <2>5. /\ GoodList(ended.list, pass.taken, got, open)
        /\ EndsOne(ended.sent, list)
    <3>1. CASE p \in Ports
      <4>1. GoodList(list, pass.taken, got, open) /\ pass.taken \in Counts
        BY <1>4
      <4> HIDE DEF got, list, p
      <4> QED
        BY <2>3, <2>4, <3>1, <4>1, AbortGood
    <3>2. CASE ended = [list |-> list, sent |-> <<>>]
      BY <1>4, <3>2 DEF EndsOne
    <3> QED
      BY <2>2, <3>1, <3>2
  <2>6. ended.sent \in Seq(Completions) /\ Received(earlier \o ended.sent) = got
    <3>1. CASE ended.sent = <<>>
      BY <1>31, <3>1, EmptySeq
    <3>2. ASSUME NEW n \in 1..Len(list), ended.sent = <<Ended(list[n])>>
          PROVE  ended.sent \in Seq(Completions) /\ Received(earlier \o ended.sent) = got
      <4> DEFINE c == Ended(list[n])
      <4>1. list[n] \in Requests
        BY <1>4, RequestAt
      <4>2. c \in Completions /\ c.buffer = <<>>
        BY <4>1, EmptySeq DEF Ended, Requests, Completions
      <4> HIDE DEF c
      <4>3. ended.sent = <<c>> /\ <<c>> \in Seq(Completions)
        BY <3>2, <4>2 DEF c
      <4>4. earlier \o <<c>> = Append(earlier, c)
        BY <1>3, <4>2, AppendIsConcat
      <4>5. Received(Append(earlier, c)) \in Gotten
            /\ \A q \in Ports : Received(Append(earlier, c))[q] = Received(earlier)[q] \o Bytes(q, c)
        BY <1>3, <1>5, <4>2, ReceivedMore
      <4>6. Received(earlier) = got
        BY <1>6
      <4>7. \A q \in Ports : got[q] \o Bytes(q, c) = got[q]
        <5>1. \A q \in Ports : got[q] \in Seq(Nat)
          BY <2>4 DEF Gotten
        <5>2. \A q \in Ports : Bytes(q, c) = <<>>
          BY <4>2 DEF Bytes
        <5> QED
          BY <5>1, <5>2, NothingMore
      <4>8. \A q \in Ports : Received(Append(earlier, c))[q] = got[q]
        BY <4>5, <4>6, <4>7
      <4> HIDE DEF got
      <4>9. Received(Append(earlier, c)) = got
        BY <2>4, <4>5, <4>8 DEF Gotten
      <4> QED
        BY <4>3, <4>4, <4>9
    <3> QED
      BY <2>5, <3>1, <3>2 DEF EndsOne
  <2>7. GoodPass(second, earlier, {})
    <3>1. ended.list \in Seq(Requests)
      BY <2>5 DEF GoodList
    <3>2. \A q \in Ports : pass.taken[q] <= arrived[q]
      BY <1>3 DEF GoodPass
    <3> HIDE DEF ended, got, second
    <3>3. /\ second.list = ended.list /\ second.taken = pass.taken /\ second.sent = ended.sent
          /\ second \in Passes
      BY <1>4, <2>1, <2>6, <3>1 DEF PassAt, Passes
    <3> QED
      BY <2>5, <2>6, <3>2, <3>3 DEF GoodPass
  <2> HIDE DEF second
  <2> QED
    BY <1>1, <1>3, <2>7, FinishGood
<1> QED
    BY <1>7, <1>8

\* Closing a port with one request at most leaves it none.
LEMMA CloseGood ==
    ASSUME SerialState, NEW p \in Ports, serial_close(p)
    PROVE  SerialState'
<1> DEFINE list == g_iorequest
           new == Abort(list, p).list
           left == open \ {p}
           later == [taken EXCEPT ![p] = arrived[p]]
<1>1. /\ list \in Seq(Requests) /\ Len(list) \in Nat /\ DOMAIN list = 1..Len(list)
      /\ GoodList(list, taken, received, open)
    BY LenProperties DEF SerialState, GoodList
<1>2. /\ taken \in Counts /\ arrived \in Counts /\ received \in Gotten
      /\ \A q \in Ports : taken[q] <= arrived[q]
    BY DEF SerialState, SerialTypes
<1>3. later \in Counts /\ Later(taken, later) /\ \A q \in Ports : later[q] <= arrived[q]
  <2>1. \A q \in Ports : taken[q] \in Nat /\ arrived[q] \in Nat
    BY <1>2 DEF Counts
  <2>2. later \in Counts /\ \A q \in Ports : later[q] = IF q = p THEN arrived[q] ELSE taken[q]
    BY <1>2, <2>1 DEF Counts
  <2> HIDE DEF later
  <2> QED
    BY <1>2, <2>1, <2>2 DEF Later
<1>4. Owned(new, left)
  <2> SUFFICES ASSUME CloseQuiet, NEW i \in 1..Len(new) PROVE new[i].port \in left
    BY DEF Owned
  <2> DEFINE mine == UNION {Pending(p, major) : major \in Majors}
  <2>1. Cardinality(mine) <= 1
    BY DEF serial_close
  <2>2. \A k \in 1..Len(list) : list[k].port = p => k \in mine
    <3>1. \A k \in 1..Len(list) : list[k].major \in Majors
      BY <1>1, RequestAt
    <3> QED
      BY <1>1, <3>1 DEF Pending
  <2>3. IsFiniteSet(mine)
    <3>1. mine \subseteq 1..Len(list)
      BY <1>1 DEF Pending
    <3>2. IsFiniteSet(1..Len(list))
      BY <1>1, FS_Interval
    <3> HIDE DEF mine
    <3> QED
      BY <3>1, <3>2, FS_Subset
  <2> HIDE DEF mine
  <2>4. \A k, m \in mine : k = m
    <3> SUFFICES ASSUME NEW k \in mine, NEW m \in mine, k # m PROVE FALSE
      OBVIOUS
    <3>1. {k, m} \subseteq mine
      OBVIOUS
    <3>2. IsFiniteSet({k, m}) /\ Cardinality({k, m}) = 2
      <4>1. IsFiniteSet({k}) /\ Cardinality({k}) = 1
        BY FS_Singleton
      <4>2. m \notin {k} /\ {k, m} = {k} \cup {m}
        OBVIOUS
      <4> QED
        BY <4>1, <4>2, FS_AddElement
    <3>3. Cardinality({k, m}) <= Cardinality(mine)
      BY <2>3, <3>1, FS_Subset
    <3>4. Cardinality(mine) \in Nat
      BY <2>3, FS_CardinalityType
    <3> QED
      BY <2>1, <3>2, <3>3, <3>4
  <2>5. \A k \in 1..Len(list) : list[k].port \in open
    BY <1>1 DEF GoodList, Owned
  <2>6. CASE /\ \A k \in 1..Len(list) : list[k].port # p
             /\ Abort(list, p) = [list |-> list, sent |-> <<>>]
    BY <2>5, <2>6
  <2>7. ASSUME NEW n \in 1..Len(list), list[n].port = p,
               Abort(list, p) = [list |-> Without(list, n), sent |-> <<Ended(list[n])>>]
        PROVE  new[i].port \in left
    <3>1. new = Without(list, n)
      BY <2>7
    <3>2. PICK k \in 1..Len(list) : k # n /\ new[i] = list[k]
      <4>1. i \in 1..Len(Without(list, n))
        BY <3>1
      <4> HIDE DEF list, new
      <4> QED
        BY <1>1, <3>1, <4>1, WithoutKeeps
    <3>3. list[k].port # p
      BY <2>2, <2>4, <2>7, <3>2
    <3> QED
      BY <2>5, <3>2, <3>3
  <2> QED
    BY <1>1, <2>6, <2>7, AbortIs
<1>5. /\ g_iorequest' = new /\ sent' = Abort(list, p).sent /\ taken' = later /\ open' = left
      /\ UNCHANGED <<received, g_min_timeout_fd, s_timeout, uiWaitEventMask, event, timers, arrived>>
    BY DEF serial_close
<1>6. GoodList(new, later, received, left) /\ EndsOne(Abort(list, p).sent, list)
  <2> HIDE DEF list, later, left
  <2> QED
    BY <1>1, <1>2, <1>3, <1>4, AbortGood
<1>7. sent' \in Seq(Completions)
  <2>1. \A n \in 1..Len(list) : Ended(list[n]) \in Completions
    <3>1. \A n \in 1..Len(list) : list[n] \in Requests
      BY <1>1, RequestAt
    <3> QED
      BY <3>1, EmptySeq DEF Ended, Requests, Completions
  <2>2. CASE sent' = <<>>
    BY <2>2, EmptySeq
  <2>3. ASSUME NEW n \in 1..Len(list), sent' = <<Ended(list[n])>>
        PROVE  sent' \in Seq(Completions)
    BY <2>1, <2>3
  <2> QED
    BY <1>5, <1>6, <2>2, <2>3 DEF EndsOne
<1> HIDE DEF new, left, later
<1>8. GoodList(g_iorequest', taken', received', open')
    BY <1>5, <1>6
<1>9. open' \subseteq Ports
    BY <1>5 DEF SerialState, SerialTypes, left
<1>10. SerialTypes'
    BY <1>3, <1>5, <1>7, <1>9 DEF SerialState, SerialTypes
<1> QED
    BY <1>8, <1>10 DEF SerialState

\* The actions that leave the list alone.
LEMMA ListAlone ==
    ASSUME SerialState, SerialTypes', UNCHANGED <<g_iorequest, taken, received>>,
           open \subseteq open'
    PROVE  SerialState'
<1>1. GoodList(g_iorequest, taken, received, open')
    BY DEF SerialState, GoodList, Owned
<1> QED
    BY <1>1 DEF SerialState

LEMMA RequestGood ==
    ASSUME SerialState, OneAtATime, NEW p \in Ports, Request(p)
    PROVE  SerialState'
<1>1. ASSUME Quiet PROVE sent' \in Seq(Completions)
    BY <1>1, EmptySeq DEF Quiet
<1>2. ASSUME NEW length \in Lengths[p], ReadRequest(p, length)
      PROVE  SerialState'
  <2> DEFINE request == [port |-> p, major |-> "READ", length |-> length, buffer |-> <<>>,
                         timeout |-> timers[p]]
  <2>1. length \in Nat \ {0} /\ timers[p] \in SUBSET {"total", "interval"}
    BY LengthAssumption DEF SerialState, SerialTypes
  <2>2. request \in Requests /\ request.major = "READ" /\ request.buffer = <<>> /\ request.length # 0
    BY <2>1, EmptySeq DEF Requests, Majors
  <2>3. Add(request) /\ UNCHANGED <<portVars, taken>>
    BY <1>2 DEF ReadRequest
  <2> HIDE DEF request
  <2>4. GoodList(g_iorequest', taken, received, open)
    BY <2>2, <2>3, AddGood
  <2>5. Quiet
    BY <2>3 DEF Add
  <2> QED
    BY <1>1, <2>3, <2>4, <2>5 DEF SerialState, SerialTypes, portVars, Quiet
<1>3. ASSUME NEW length \in Lengths[p], WriteRequest(p, length)
      PROVE  SerialState'
  <2> DEFINE bytes == [i \in 1..length |-> 0]
             request == [port |-> p, major |-> "WRITE", length |-> length, buffer |-> bytes,
                         timeout |-> {}]
  <2>1. length \in Nat
    BY LengthAssumption
  <2>2. bytes \in Seq(Nat)
    <3>1. bytes \in [1..length -> Nat]
      OBVIOUS
    <3> HIDE DEF bytes
    <3> QED
      BY <2>1, <3>1, SeqOfLength
  <2>3. Add(request) /\ UNCHANGED <<portVars, taken>>
    BY <1>3 DEF WriteRequest
  <2> HIDE DEF bytes
  <2>4. request \in Requests /\ request.major # "READ"
    BY <2>1, <2>2 DEF Requests, Majors
  <2> HIDE DEF request
  <2>5. GoodList(g_iorequest', taken, received, open)
    BY <2>3, <2>4, AddGood
  <2>6. Quiet
    BY <2>3 DEF Add
  <2> QED
    BY <1>1, <2>3, <2>5, <2>6 DEF SerialState, SerialTypes, portVars, Quiet
<1>4. ASSUME WaitRequest(p) PROVE SerialState'
  <2>1. event' \subseteq Ports /\ UNCHANGED <<open, uiWaitEventMask, timers, arrived, taken>>
    BY <1>4 DEF WaitRequest, SerialState, SerialTypes
  <2>2. WaitFor(p) \in Requests /\ WaitFor(p).major = "WAIT"
    BY EmptySeq DEF WaitFor, Requests, Majors
  <2>3. CASE p \in event /\ p \in uiWaitEventMask
    <3>1. Answer(WaitFor(p)) \in Completions
      BY <2>2, EmptySeq DEF Answer, Requests, Completions
    <3> HIDE DEF Answer, WaitFor
    <3>2. /\ sent' = <<Answer(WaitFor(p))>>
          /\ UNCHANGED <<g_iorequest, received, g_min_timeout_fd, s_timeout>>
      BY <1>4, <2>3 DEF WaitRequest
    <3>3. sent' \in Seq(Completions)
      BY <3>1, <3>2
    <3>4. SerialTypes'
      BY <2>1, <3>2, <3>3 DEF SerialState, SerialTypes
    <3> QED
      BY <2>1, <3>2, <3>4, ListAlone
  <2>4. CASE ~(p \in event /\ p \in uiWaitEventMask)
    <3>1. Add(WaitFor(p))
      BY <1>4, <2>4 DEF WaitRequest
    <3>2. GoodList(g_iorequest', taken, received, open)
      BY <2>2, <3>1, AddGood
    <3>3. Quiet
      BY <3>1 DEF Add
    <3> QED
      BY <1>1, <2>1, <3>2, <3>3 DEF SerialState, SerialTypes, Quiet
  <2> QED
    BY <2>3, <2>4
<1>5. ASSUME serial_create(p) PROVE SerialState'
  <2>1. SerialTypes' /\ UNCHANGED <<g_iorequest, taken, received>> /\ open \subseteq open'
    BY <1>1, <1>5 DEF serial_create, Quiet, SerialState, SerialTypes
  <2> QED
    BY <2>1, ListAlone
<1>6. ASSUME NEW wanted \in BOOLEAN, SetWaitMask(p, wanted) PROVE SerialState'
  <2>1. SerialTypes' /\ UNCHANGED <<g_iorequest, taken, received>> /\ open \subseteq open'
    BY <1>1, <1>6 DEF SetWaitMask, Quiet, SerialState, SerialTypes
  <2> QED
    BY <2>1, ListAlone
<1>7. ASSUME NEW setting \in Timers[p], SetTimeouts(p, setting) PROVE SerialState'
  <2>1. setting \in SUBSET {"total", "interval"}
    BY TimerAssumption
  <2>2. timers' \in [Ports -> SUBSET {"total", "interval"}]
    BY <1>7, <2>1 DEF SetTimeouts, SerialState, SerialTypes
  <2>3. SerialTypes' /\ UNCHANGED <<g_iorequest, taken, received>> /\ open \subseteq open'
    BY <1>1, <1>7, <2>2 DEF SetTimeouts, Quiet, SerialState, SerialTypes
  <2> QED
    BY <2>3, ListAlone
<1> QED
    BY <1>2, <1>3, <1>4, <1>5, <1>6, <1>7, CloseGood DEF Request

LEMMA DeviceGood ==
    ASSUME SerialState, NEW p \in Ports, Arrive(p) \/ LineEvent(p)
    PROVE  SerialState'
<1>1. sent' \in Seq(Completions) /\ event' \subseteq Ports
    BY EmptySeq DEF Arrive, LineEvent, Quiet, SerialState, SerialTypes
<1>2. CASE Arrive(p)
  <2>1. arrived' = [arrived EXCEPT ![p] = @ + 1] /\ arrived[p] < MaxBytes[p]
    BY <1>2 DEF Arrive
  <2>2. \A q \in Ports : arrived[q] \in Nat /\ taken[q] \in Nat /\ taken[q] <= arrived[q]
                         /\ MaxBytes[q] \in Nat /\ arrived[q] <= MaxBytes[q]
    BY BoundAssumption DEF SerialState, SerialTypes, Counts
  <2>3. arrived' \in Counts /\ \A q \in Ports : arrived'[q] = IF q = p THEN arrived[q] + 1 ELSE arrived[q]
    BY <2>1, <2>2 DEF SerialState, SerialTypes, Counts
  <2>4. \A q \in Ports : taken[q] <= arrived'[q] /\ arrived'[q] <= MaxBytes[q]
    BY <2>1, <2>2, <2>3
  <2>5. /\ UNCHANGED <<g_iorequest, open, uiWaitEventMask, timers, taken>>
        /\ UNCHANGED <<received, g_min_timeout_fd, s_timeout>>
    BY <1>2 DEF Arrive, Quiet
  <2>6. SerialTypes'
    BY <1>1, <2>3, <2>4, <2>5 DEF SerialState, SerialTypes
  <2> QED
    BY <2>5, <2>6, ListAlone
<1>3. CASE LineEvent(p)
  <2>1. SerialTypes' /\ UNCHANGED <<g_iorequest, taken, received>> /\ open \subseteq open'
    BY <1>1, <1>3 DEF LineEvent, Quiet, SerialState, SerialTypes
  <2> QED
    BY <2>1, ListAlone
<1> QED
    BY <1>2, <1>3

LEMMA SerialStep ==
    ASSUME SerialState, OneAtATime, [Next]_vars
    PROVE  SerialState'
<1>1. CASE UNCHANGED vars
  <2>1. /\ UNCHANGED <<g_iorequest, taken, received, open, uiWaitEventMask, event, timers, arrived>>
        /\ UNCHANGED <<g_min_timeout_fd, s_timeout, sent>>
    BY <1>1 DEF vars, portVars
  <2> QED
    BY <2>1 DEF SerialState, SerialTypes
<1>2. CASE Poll
    BY <1>2, CheckFdsGood DEF Poll
<1>3. CASE TimeOut
    BY <1>3, TimeOutGood
<1>4. ASSUME NEW p \in Ports, Request(p) \/ Arrive(p) \/ LineEvent(p) PROVE SerialState'
    BY <1>4, RequestGood, DeviceGood
<1> QED
    BY <1>1, <1>2, <1>3, <1>4 DEF Next

-----------------------------------------------------------------------------
(* What follows *)

LEMMA SerialTypesOK == SerialState => TypeOK
<1> SUFFICES ASSUME SerialState PROVE TypeOK
    OBVIOUS
<1>1. \A p \in Ports : arrived[p] \in 0..MaxBytes[p] /\ taken[p] \in 0..arrived[p]
  <2>1. \A p \in Ports : arrived[p] \in Nat /\ taken[p] \in Nat /\ MaxBytes[p] \in Nat
    BY BoundAssumption DEF SerialState, SerialTypes, Counts
  <2> QED
    BY <2>1 DEF SerialState, SerialTypes
<1> QED
    BY <1>1 DEF SerialState, SerialTypes, GoodList, Gotten, TypeOK

LEMMA OrderFollows == SerialState /\ CloseQuiet => BytesInOrder
<1> SUFFICES ASSUME SerialState, CloseQuiet PROVE BytesInOrder
    OBVIOUS
<1>1. /\ g_iorequest \in Seq(Requests) /\ DOMAIN g_iorequest = 1..Len(g_iorequest)
      /\ GoodList(g_iorequest, taken, received, open)
    BY LenProperties DEF SerialState, GoodList
<1>2. \A i \in DOMAIN g_iorequest : g_iorequest[i].port \in open
    BY <1>1 DEF GoodList, Owned
<1>3. ASSUME NEW p \in Ports
      PROVE  /\ Increasing(received[p])
             /\ \A i \in DOMAIN received[p] : received[p][i] \in 1..taken[p]
             /\ \A i \in Pending(p, "READ"), j \in DOMAIN received[p] :
                    \A k \in DOMAIN g_iorequest[i].buffer :
                        received[p][j] < g_iorequest[i].buffer[k]
  <2>1. Stream(received[p], taken[p]) /\ taken[p] \in Nat /\ received[p] \in Seq(Nat)
    BY <1>1 DEF GoodList, Ordered, SerialState, SerialTypes, Counts, Gotten
  <2>2. \A i \in DOMAIN received[p] : received[p][i] \in 1..taken[p]
    BY <2>1, LenProperties DEF Stream
  <2>3. ASSUME NEW i \in Pending(p, "READ")
        PROVE  \A j \in DOMAIN received[p], k \in DOMAIN g_iorequest[i].buffer :
                   received[p][j] < g_iorequest[i].buffer[k]
    <3> DEFINE s == received[p]
               t == g_iorequest[i].buffer
               n == taken[p]
    <3>1. i \in 1..Len(g_iorequest) /\ g_iorequest[i].port = p /\ g_iorequest[i].major = "READ"
      BY <1>1, <2>3 DEF Pending
    <3>2. Stream(s \o t, n)
      BY <1>1, <3>1 DEF GoodList, Ordered
    <3>3. t \in Seq(Nat) /\ s \in Seq(Nat) /\ n \in Nat
      BY <1>1, <2>1, <3>1, RequestAt
    <3> HIDE DEF s, t, n
    <3>4. \A j \in DOMAIN s, k \in DOMAIN t : s[j] < t[k]
      BY <3>2, <3>3, StreamParts
    <3> QED
      BY <3>4 DEF s, t
  <2> QED
    BY <2>1, <2>2, <2>3 DEF Stream
<1> QED
    BY <1>2, <1>3 DEF BytesInOrder

\* What a step tells the server before the data of the port with an event.
ToldFirst(p) ==
    {q \in Ports : HasEvent(q)} = {p} =>
        \A i \in DOMAIN sent' :
            sent'[i].port = p /\ sent'[i].major = "READ" /\ ~sent'[i].ended
                => \E j \in 1..(i - 1) : sent'[j].port = p /\ sent'[j].major = "WAIT"

\* After the pass for events, its answer stands before all others.
LEMMA EventsBefore ==
    ASSUME SerialState, NEW p \in Ports, NEW more \in Seq(Completions),
           sent' = EventPass.sent \o more
    PROVE  ToldFirst(p)
<1> SUFFICES ASSUME {q \in Ports : HasEvent(q)} = {p},
                    NEW i \in DOMAIN sent', sent'[i].major = "READ"
             PROVE  \E j \in 1..(i - 1) : sent'[j].port = p /\ sent'[j].major = "WAIT"
    BY DEF ToldFirst
<1> DEFINE first == EventPass.sent
           all == first \o more
<1>1. LooksForEvents(EventPass) /\ (first = <<>> => \A k \in 1..Len(g_iorequest) : ~Waits(k))
    BY EventPassLooks
<1>2. first \in Seq(Completions)
    BY <1>1, PassTypes DEF LooksForEvents, GoodPass
<1>3. \A k \in 1..Len(first) : first[k].major = "WAIT" /\ HasEvent(first[k].port)
    BY <1>1 DEF LooksForEvents
<1>4. first # <<>>
  <2>1. HasEvent(p)
    OBVIOUS
  <2>2. PICK k \in DOMAIN g_iorequest : g_iorequest[k].port = p /\ g_iorequest[k].major = "WAIT"
    BY <2>1 DEF HasEvent, Pending
  <2>3. k \in 1..Len(g_iorequest) /\ Waits(k)
    BY <2>1, <2>2, LenProperties DEF Waits, SerialState, GoodList
  <2> QED
    BY <1>1, <2>3
<1> HIDE DEF first
<1>5. /\ all \in Seq(Completions) /\ Len(all) = Len(first) + Len(more)
      /\ \A k \in 1..Len(first) : all[k] = first[k]
    BY <1>2, BehindIs
<1>6. Len(first) \in Nat \ {0}
    BY <1>2, <1>4, EmptySeq, LenProperties
<1>7. sent' = all /\ DOMAIN all = 1..Len(all) /\ Len(all) \in Nat
    BY <1>5, LenProperties DEF first
<1> HIDE DEF all
<1>8. all[1] = first[1] /\ first[1].major = "WAIT" /\ HasEvent(first[1].port)
  <2>1. 1 \in 1..Len(first)
    BY <1>6
  <2> QED
    BY <1>3, <1>5, <2>1
<1>9. first[1].port = p
  <2>1. first[1].port \in Ports
    <3>1. 1 \in 1..Len(first)
      BY <1>6
    <3>2. first[1] \in Completions
      BY <1>2, <3>1, ElementOfSeq
    <3> QED
      BY <3>2 DEF Completions
  <2> QED
    BY <1>8, <2>1
<1>10. i # 1 /\ i \in Nat /\ i >= 1
    BY <1>7, <1>8
<1>11. 1 \in 1..(i - 1)
    BY <1>10
<1> QED
    BY <1>7, <1>8, <1>9, <1>11

LEMMA EventFirstStep ==
    ASSUME SerialState, OneAtATime, Next, NEW p \in Ports
    PROVE  ToldFirst(p)
<1>1. CASE Poll
  <2>1. PICK wfds \in SUBSET Writable, accepted \in 1..Chunk, other \in BOOLEAN :
            CheckFds(wfds, accepted, other)
    BY <1>1 DEF Poll
  <2> DEFINE second == Pass(Again(EventPass), Readable, wfds, accepted)
  <2>2. sent' = EventPass.sent \o second.sent
    BY <2>1 DEF CheckFds, Finish
  <2>3. \A q \in Readable : taken[q] < arrived[q]
    <3>1. \A q \in Ports : taken[q] \in Nat /\ arrived[q] \in Nat
      BY DEF SerialState, SerialTypes, Counts
    <3> QED
      BY <3>1 DEF Readable
  <2>4. GoodPass(Again(EventPass), EventPass.sent, Readable) /\ EventPass.sent \in Seq(Completions)
    BY <2>3, EventPassLooks, AgainGood
  <2>5. GoodPass(second, EventPass.sent, Readable)
    BY <2>4, PassGood DEF SerialState, SerialTypes
  <2>6. second.sent \in Seq(Completions)
    BY <2>5, PassTypes DEF GoodPass
  <2> HIDE DEF second
  <2> QED
    BY <2>2, <2>6, EventsBefore
<1>2. CASE TimeOut
  <2> DEFINE second == TimeOutPass(Again(EventPass), g_min_timeout_fd')
  <2>1. sent' = EventPass.sent \o second.sent
    BY <1>2 DEF TimeOut, Finish
  <2>2. second.sent \in Seq(Completions)
    <3> DEFINE pass == Again(EventPass)
               list == pass.list
               ended == Abort(list, g_min_timeout_fd')
    <3>1. list \in Seq(Requests) /\ Len(list) \in Nat /\ pass.sent = <<>>
      <4>1. LooksForEvents(EventPass)
        BY EventPassLooks
      <4>2. EventPass.list \in Seq(Requests)
        BY <4>1, PassTypes DEF LooksForEvents, GoodPass
      <4>3. list = EventPass.list /\ pass.sent = <<>>
        BY DEF Again, Start, PassAt
      <4> QED
        BY <4>2, <4>3, LenProperties
    <3> HIDE DEF pass
    <3>2. CASE list # <<>> /\ second = Complete(pass, list[1])
      <4>1. second.sent = Append(<<>>, Answer(list[1]))
        BY <3>1, <3>2 DEF Complete, PassAt
      <4>2. 1 \in 1..Len(list)
        BY <3>1, <3>2, EmptySeq
      <4>3. list[1] \in Requests
        BY <3>1, <4>2, RequestAt
      <4>4. Answer(list[1]) \in Completions /\ <<>> \in Seq(Completions)
        BY <4>3, EmptySeq DEF Answer, Requests, Completions
      <4> HIDE DEF second
      <4> QED
        BY <4>1, <4>4, AppendProperties
    <3>3. CASE second = PassAt(ended.list, 1, 0, pass.event, pass.taken, ended.sent)
      <4>1. second.sent = ended.sent
        BY <3>3 DEF PassAt
      <4>2. \A n \in 1..Len(list) : Ended(list[n]) \in Completions
        <5>1. \A n \in 1..Len(list) : list[n] \in Requests
          BY <3>1, RequestAt
        <5> QED
          BY <5>1, EmptySeq DEF Ended, Requests, Completions
      <4>3. ended.sent \in Seq(Completions)
        <5>1. CASE ended = [list |-> list, sent |-> <<>>]
          BY <5>1, EmptySeq
        <5>2. ASSUME NEW n \in 1..Len(list),
                     ended = [list |-> Without(list, n), sent |-> <<Ended(list[n])>>]
              PROVE  ended.sent \in Seq(Completions)
          <6>1. ended.sent = <<Ended(list[n])>>
            BY <5>2
          <6> QED
            BY <4>2, <6>1
        <5> QED
          BY <3>1, <5>1, <5>2, AbortIs
      <4> QED
        BY <4>1, <4>3
    <3> QED
      BY <3>2, <3>3 DEF TimeOutPass, pass
  <2> HIDE DEF second
  <2> QED
    BY <2>1, <2>2, EventsBefore
<1>3. ASSUME NEW q \in Ports, Arrive(q) \/ LineEvent(q) \/ (Request(q) /\ sent' = <<>>)
      PROVE  ToldFirst(p)
  <2>1. sent' = <<>>
    BY <1>3 DEF Arrive, LineEvent, Quiet
  <2>2. DOMAIN sent' = {}
    BY <2>1
  <2> QED
    BY <2>2 DEF ToldFirst
<1>4. ASSUME NEW q \in Ports, Request(q), sent' # <<>>
      PROVE  ToldFirst(p)
  <2>1. CASE serial_close(q)
    <3>1. sent' = Abort(g_iorequest, q).sent /\ g_iorequest \in Seq(Requests)
      BY <2>1 DEF serial_close, SerialState, GoodList
    <3>2. PICK n \in 1..Len(g_iorequest) :
              Abort(g_iorequest, q) = [list |-> Without(g_iorequest, n),
                                       sent |-> <<Ended(g_iorequest[n])>>]
      <4>1. ASSUME Abort(g_iorequest, q) = [list |-> g_iorequest, sent |-> <<>>] PROVE FALSE
        BY <1>4, <3>1, <4>1
      <4> QED
        BY <3>1, <4>1, AbortIs
    <3>3. sent' = <<Ended(g_iorequest[n])>>
      BY <3>1, <3>2
    <3>4. DOMAIN sent' = {1} /\ sent'[1].ended
      BY <3>3 DEF Ended
    <3> QED
      BY <3>4 DEF ToldFirst
  <2>2. CASE WaitRequest(q)
    <3>1. CASE sent' = <<Answer(WaitFor(q))>>
      <4>1. DOMAIN sent' = {1} /\ sent'[1].major = "WAIT"
        BY <3>1 DEF Answer, WaitFor
      <4> QED
        BY <4>1 DEF ToldFirst
    <3>2. CASE sent' # <<Answer(WaitFor(q))>>
      BY <1>4, <2>2, <3>2 DEF WaitRequest, Add, Quiet
    <3> QED
      BY <3>1, <3>2
  <2>3. CASE ~(serial_close(q) \/ WaitRequest(q))
    BY <1>4, <2>3 DEF Request, serial_create, ReadRequest, WriteRequest, Add, SetWaitMask,
                      SetTimeouts, Quiet
  <2> QED
    BY <2>1, <2>2, <2>3
<1> QED
    BY <1>1, <1>2, <1>3, <1>4 DEF Next

-----------------------------------------------------------------------------
(* Theorems *)

\* What the server got of each port, and what waits behind it in the buffer of
\* its read, stay streams, and the list of requests stays one that the passes
\* of rdpdr_check_fds can walk (_rdpdr_check_fds, rdpdr_abort_io).
THEOREM SerialInvariant ==
    ASSUME OneAtATime
    PROVE  Spec => []SerialState
<1>1. Init => SerialState
    BY SerialInitGood
<1>2. SerialState /\ [Next]_vars => SerialState'
    BY SerialStep
<1> QED
    BY <1>1, <1>2, PTL DEF Spec

\* TypeOK, if the server waits for an answer before it sends the same request
\* again (rdpdr_process_irp of rdpdr.c, serial_read and serial_write).
THEOREM SerialTypeOK ==
    ASSUME OneAtATime
    PROVE  Spec => []TypeOK
<1>1. SerialState => TypeOK
    BY SerialTypesOK
<1> QED
    BY <1>1, SerialInvariant, PTL

\* The server gets the bytes of each port in the order they arrived in, those in
\* a partly answered read included, and no request outlives its port, if the
\* server has one request of a kind pending for a port, and one when it closes
\* it (_rdpdr_check_fds, rdpdr_abort_io).
THEOREM BytesStayInOrder ==
    ASSUME OneAtATime, CloseQuiet
    PROVE  Spec => []BytesInOrder
<1>1. SerialState => BytesInOrder
    BY OrderFollows
<1> QED
    BY <1>1, SerialInvariant, PTL

\* With one port that has an event, the server is told of it before it gets the
\* data of that port (the two passes of rdpdr_check_fds).
THEOREM EventToldFirst ==
    ASSUME OneAtATime
    PROVE  Spec => EventFirst
<1>1. SerialState /\ [Next]_vars =>
          [\A p \in Ports :
              {q \in Ports : HasEvent(q)} = {p} =>
                  \A i \in DOMAIN sent' :
                      sent'[i].port = p /\ sent'[i].major = "READ" /\ ~sent'[i].ended
                          => \E j \in 1..(i - 1) : sent'[j].port = p /\ sent'[j].major = "WAIT"]_vars
    BY EventFirstStep DEF ToldFirst
<1> QED
    BY <1>1, SerialInvariant, PTL DEF Spec, EventFirst

=============================================================================
