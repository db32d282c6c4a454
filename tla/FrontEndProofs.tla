-------------------------- MODULE FrontEndProofs ---------------------------
(***************************************************************************)
(* Keyboard, Seamless and Clipboard.                                       *)
(*                                                                         *)
(* Why the locks of the user and of the server agree, in Keyboard, and why *)
(* keys that went up out of sight go up on the server.  Locks are kept     *)
(* equal as long as no lock key is down while the focus changes: then the  *)
(* server has none of them down, and what was sent last is what it has.    *)
(*                                                                         *)
(* Why there is a local window for each window of the server, in Seamless: *)
(* the list of local windows has no window twice, which a new window that  *)
(* is not found in it, and the loss of one or of a group, keep so.         *)
(*                                                                         *)
(* Why a local program that waits for the server's data is woken, and why  *)
(* data comes under the format it was sent for, in Clipboard.  The         *)
(* argument follows one request: the window thread chooses a format,       *)
(* resets the semaphore and sets the flag, the main thread sends the       *)
(* request, and what answers it posts the semaphore.  Unless an            *)
(* announcement crosses a request, the semaphore is posted only when there *)
(* is none.                                                                *)
(***************************************************************************)
EXTENDS Keyboard, Seamless, Clipboard, ProofLemmas

Types == keyboard \in Keyboards /\ physical \subseteq Keys /\ locks \subseteq LockKeys

\* While the window is not active, and until the next key, the server has no
\* lock key down, and its locks are those of the last SYNCHRONIZE, if any.
\* With keys going to the server, both sides have the same locks on and the
\* same lock keys down.
LocksKnown ==
    ~missed =>
        /\ ~active \/ keyboard.need =>
              /\ keyboard.sent = {} \/ keyboard.sent = {keyboard.on}
              /\ keyboard.down \cap LockKeys = {}
        /\ active /\ keyboard.need => physical \cap LockKeys = {}
        /\ active /\ ~keyboard.need =>
              /\ keyboard.on = locks
              /\ keyboard.down \cap LockKeys = physical \cap LockKeys
              /\ physical \cap LockKeys = {} => keyboard.sent = {keyboard.on}

-----------------------------------------------------------------------------
(* What the operators do to the keyboard *)

\* k and its fields, one by one.
LEMMA Fields ==
    ASSUME NEW k \in Keyboards
    PROVE  /\ k = [pressed |-> k.pressed, need |-> k.need, sent |-> k.sent, down |-> k.down,
                   on |-> k.on]
           /\ k.pressed \in Seq(Keys) /\ k.need \in BOOLEAN /\ k.sent \subseteq SUBSET LockKeys
           /\ k.down \subseteq Keys /\ k.on \subseteq LockKeys
BY DEF Keyboards

LEMMA KbdSyncIs ==
    ASSUME NEW k \in Keyboards, NEW now \in SUBSET LockKeys
    PROVE  /\ KbdSync(k, now) \in Keyboards
           /\ KbdSync(k, now).pressed = k.pressed /\ KbdSync(k, now).down = k.down
           /\ ~KbdSync(k, now).need /\ KbdSync(k, now).sent = {now}
           /\ KbdSync(k, now).on = IF k.sent = {now} THEN k.on ELSE now
BY DEF KbdSync, Keyboards

\* The table keeps its kind, and no longer than it was.
LEMMA UnregisterIs ==
    ASSUME NEW pressed \in Seq(Keys), NEW key
    PROVE  /\ Unregister(pressed, key) \in Seq(Keys)
           /\ Len(Unregister(pressed, key)) <= Len(pressed)
<1> DEFINE place == {n \in DOMAIN pressed : pressed[n] = key}
           at == CHOOSE n \in place : \A m \in place : n <= m
<1>1. place \subseteq 1..Len(pressed) /\ Len(pressed) \in Nat
    BY LenProperties
<1>2. CASE place = {}
    BY <1>2, <1>1 DEF Unregister
<1>3. CASE place # {}
  <2>1. place \in SUBSET Nat
    BY <1>1
  <2>2. \E n \in place : \A m \in place : n <= m
    BY <1>3, <2>1, Smallest
  <2>3. at \in 1..Len(pressed)
    BY <1>1, <2>2
  <2>4. \A i \in 1..Len(pressed) : pressed[i] \in Keys
    BY ElementOfSeq
  <2>5. Len(pressed) - 1 \in Nat
    BY <1>1, <2>3
  <2>6. MoveUp(pressed, at) \in [1..(Len(pressed) - 1) -> Keys]
    BY <1>1, <2>3, <2>4 DEF MoveUp
  <2>7. MoveUp(pressed, at) \in Seq(Keys) /\ Len(MoveUp(pressed, at)) = Len(pressed) - 1
    BY <2>5, <2>6, SeqOfLength
  <2>8. Unregister(pressed, key) = MoveUp(pressed, at)
    BY <1>3 DEF Unregister
  <2> HIDE DEF at
  <2> QED
    BY <1>1, <2>7, <2>8
<1> QED
    BY <1>2, <1>3

LEMMA KeyUpIs ==
    ASSUME NEW k \in Keyboards, NEW key
    PROVE  /\ KeyUp(k, key) \in Keyboards
           /\ KeyUp(k, key).pressed = Unregister(k.pressed, key)
           /\ Len(KeyUp(k, key).pressed) <= Len(k.pressed)
           /\ KeyUp(k, key).down = k.down \ {key}
           /\ KeyUp(k, key).need = k.need /\ KeyUp(k, key).sent = k.sent /\ KeyUp(k, key).on = k.on
BY UnregisterIs DEF KeyUp, Keyboards

LEMMA RegisteredIs ==
    ASSUME NEW k \in Keyboards, Len(k.pressed) <= Slots, NEW key \in Keys
    PROVE  /\ Registered(k, key) \in Keyboards
           /\ Len(Registered(k, key).pressed) <= Slots
           /\ Registered(k, key).down = k.down /\ Registered(k, key).on = k.on
           /\ Registered(k, key).need = k.need /\ Registered(k, key).sent = k.sent
<1> DEFINE n == IF Len(k.pressed) < Slots THEN Len(k.pressed) + 1 ELSE Slots
           all == <<key>> \o k.pressed
<1>1. k.pressed \in Seq(Keys) /\ <<key>> \in Seq(Keys) /\ Len(<<key>>) = 1
    BY DEF Keyboards
<1>2. all \in Seq(Keys) /\ Len(all) = Len(k.pressed) + 1
    BY <1>1, ConcatProperties
<1>3. n \in 0..Len(all) /\ n <= Slots /\ n \in Nat
    BY <1>1, <1>2, SlotAssumption, LenProperties
<1> HIDE DEF n, all
<1>4. SubSeq(all, 1, n) \in Seq(Keys)
    BY <1>2, <1>3, SubSeqType
<1>5. Len(SubSeq(all, 1, n)) = n
    BY <1>2, <1>3, SubSeqProperties
<1>6. Register(k.pressed, key) = SubSeq(all, 1, n)
    BY DEF Register, all, n
<1> QED
    BY <1>3, <1>4, <1>5, <1>6 DEF Registered, Keyboards

\* The server's locks when the flags were synchronized first if they had to be.
SyncedOn(k, now) == IF k.need /\ k.sent # {now} THEN now ELSE k.on
DownThen(k, key) == k.down \cup {key}
SentThen(k, now) == IF k.need THEN {now} ELSE k.sent
OnThen(k, key, now) ==
    IF key \in k.down THEN SyncedOn(k, now) ELSE Turn(SyncedOn(k, now), key)

LEMMA CharDownIs ==
    ASSUME NEW k \in Keyboards, Len(k.pressed) <= Slots, NEW key \in Keys, NEW now \in SUBSET LockKeys
    PROVE  /\ CharDown(k, key, now) \in Keyboards
           /\ Len(CharDown(k, key, now).pressed) <= Slots
           /\ CharDown(k, key, now).down = DownThen(k, key)
           /\ ~CharDown(k, key, now).need
           /\ CharDown(k, key, now).sent = SentThen(k, now)
           /\ CharDown(k, key, now).on = OnThen(k, key, now)
<1> DEFINE noted == Registered(k, key)
           brought == IF k.need THEN KbdSync(noted, now) ELSE noted
<1>1. /\ noted \in Keyboards /\ Len(noted.pressed) <= Slots
      /\ noted.down = k.down /\ noted.on = k.on /\ noted.need = k.need /\ noted.sent = k.sent
    BY RegisteredIs
<1> HIDE DEF noted
<1>2. /\ brought \in Keyboards /\ Len(brought.pressed) <= Slots
      /\ brought.down = k.down /\ brought.need = FALSE
      /\ brought.sent = IF k.need THEN {now} ELSE k.sent
      /\ brought.on = IF k.need /\ k.sent # {now} THEN now ELSE k.on
  <2>1. CASE k.need
    BY <1>1, <2>1, KbdSyncIs DEF Keyboards
  <2>2. CASE ~k.need
    BY <1>1, <2>2 DEF Keyboards
  <2> QED
    BY <2>1, <2>2
<1> HIDE DEF brought
<1>3. CharDown(k, key, now) = [brought EXCEPT !.down = brought.down \cup {key},
                                  !.on = IF key \in brought.down THEN brought.on
                                         ELSE Turn(brought.on, key)]
    BY DEF CharDown, noted, brought
<1>4. Turn(brought.on, key) \in SUBSET LockKeys
    BY <1>2 DEF Turn, Keyboards
<1> DEFINE on == IF key \in brought.down THEN brought.on ELSE Turn(brought.on, key)
<1>5. on \in SUBSET LockKeys /\ on = IF key \in k.down THEN brought.on ELSE Turn(brought.on, key)
    BY <1>2, <1>4 DEF Keyboards
<1> HIDE DEF on
<1>6. CharDown(k, key, now) = [brought EXCEPT !.down = brought.down \cup {key}, !.on = on]
    BY <1>3 DEF on
<1> DEFINE down == brought.down \cup {key}
<1>7. down \in SUBSET Keys
    BY <1>2 DEF Keyboards
<1> HIDE DEF down
<1>8. CharDown(k, key, now) = [brought EXCEPT !.down = down, !.on = on]
    BY <1>6 DEF down
<1>9. /\ CharDown(k, key, now) \in Keyboards
      /\ CharDown(k, key, now).pressed = brought.pressed
      /\ CharDown(k, key, now).down = down
      /\ CharDown(k, key, now).need = brought.need
      /\ CharDown(k, key, now).sent = brought.sent /\ CharDown(k, key, now).on = on
    BY <1>2, <1>5, <1>7, <1>8 DEF Keyboards
<1> QED
    BY <1>2, <1>5, <1>9 DEF down, SyncedOn, DownThen, SentThen, OnThen

-----------------------------------------------------------------------------
(* The loop of _wmActivate *)

LEMMA ReleasePlaceIs ==
    ASSUME Types, NEW k \in Keyboards, NEW n \in Nat
    PROVE  /\ ReleasePlace(k, n) \in Keyboards
           /\ Len(ReleasePlace(k, n).pressed) <= Len(k.pressed)
           /\ ReleasePlace(k, n).down \subseteq k.down
           /\ n \in DOMAIN k.pressed => k.down \cap physical \subseteq ReleasePlace(k, n).down
           /\ n \in DOMAIN k.pressed /\ k.pressed[n] \in physical => ReleasePlace(k, n) = k
           /\ n \in DOMAIN k.pressed /\ k.pressed[n] \notin physical
                 => k.pressed[n] \notin ReleasePlace(k, n).down
           /\ n > Len(k.pressed) => ReleasePlace(k, n) = k
           /\ \/ /\ ReleasePlace(k, n).on = k.on /\ ReleasePlace(k, n).sent = k.sent
                 /\ ReleasePlace(k, n).need = k.need
              \/ /\ k.need /\ ~ReleasePlace(k, n).need /\ ReleasePlace(k, n).sent = {locks}
                 /\ ReleasePlace(k, n).on = IF k.sent = {locks} THEN k.on ELSE locks
<1>1. locks \in SUBSET LockKeys /\ k.pressed \in Seq(Keys) /\ Len(k.pressed) \in Nat
      /\ DOMAIN k.pressed = 1..Len(k.pressed) /\ k.need \in BOOLEAN
    BY LenProperties DEF Types, Keyboards
<1>2. CASE n > Len(k.pressed) \/ k.pressed[n] \in physical
  <2>1. ReleasePlace(k, n) = k
    BY <1>2 DEF ReleasePlace
  <2> QED
    BY <1>1, <1>2, <2>1
<1>3. CASE ~(n > Len(k.pressed) \/ k.pressed[n] \in physical)
  <2> DEFINE s == IF k.need THEN KbdSync(k, locks) ELSE k
  <2>1. /\ s \in Keyboards /\ s.pressed = k.pressed /\ s.down = k.down
        /\ \/ ~k.need /\ s = k
           \/ /\ k.need /\ s.need = FALSE /\ s.sent = {locks}
              /\ s.on = IF k.sent = {locks} THEN k.on ELSE locks
    BY <1>1, KbdSyncIs DEF Keyboards
  <2>2. ReleasePlace(k, n) = KeyUp(s, k.pressed[n])
    BY <1>3 DEF ReleasePlace
  <2> HIDE DEF s
  <2>3. /\ ReleasePlace(k, n) \in Keyboards
        /\ Len(ReleasePlace(k, n).pressed) <= Len(s.pressed)
        /\ ReleasePlace(k, n).down = s.down \ {k.pressed[n]}
        /\ ReleasePlace(k, n).need = s.need /\ ReleasePlace(k, n).sent = s.sent
        /\ ReleasePlace(k, n).on = s.on
    BY <2>1, <2>2, KeyUpIs
  <2> QED
    BY <1>1, <1>3, <2>1, <2>3
<1> QED
    BY <1>2, <1>3

\* What the loop made of keyboard k when it looked at n places
Looked(k, v, n) ==
    /\ v \in Keyboards /\ Len(v.pressed) <= Len(k.pressed)
    /\ v.down \subseteq k.down /\ k.down \cap physical \subseteq v.down
    /\ \/ v.on = k.on /\ v.sent = k.sent /\ v.need = k.need
       \/ k.need /\ ~v.need /\ v.sent = {locks} /\ v.on = IF k.sent = {locks} THEN k.on ELSE locks
    /\ \A i \in DOMAIN k.pressed :
          (k.pressed[i] \notin physical /\ \A j \in 1..(i - 1) : k.pressed[j] \in physical) =>
              /\ n < i => v = k
              /\ n >= i => k.pressed[i] \notin v.down

LEMMA LookedOn ==
    ASSUME Types, NEW k \in Keyboards, NEW v, NEW n \in Nat, Looked(k, v, n)
    PROVE  Looked(k, ReleasePlace(v, n + 1), n + 1)
<1> DEFINE w == ReleasePlace(v, n + 1)
<1>1. v \in Keyboards /\ n + 1 \in Nat /\ k.pressed \in Seq(Keys) /\ v.pressed \in Seq(Keys)
    BY DEF Looked, Keyboards
<1>2. /\ w \in Keyboards /\ Len(w.pressed) <= Len(v.pressed) /\ w.down \subseteq v.down
      /\ n + 1 \in DOMAIN v.pressed => v.down \cap physical \subseteq w.down
      /\ n + 1 \in DOMAIN v.pressed /\ v.pressed[n + 1] \in physical => w = v
      /\ n + 1 \in DOMAIN v.pressed /\ v.pressed[n + 1] \notin physical => v.pressed[n + 1] \notin w.down
      /\ n + 1 > Len(v.pressed) => w = v
      /\ \/ w.on = v.on /\ w.sent = v.sent /\ w.need = v.need
         \/ v.need /\ ~w.need /\ w.sent = {locks} /\ w.on = IF v.sent = {locks} THEN v.on ELSE locks
    BY <1>1, ReleasePlaceIs
<1>3. /\ Len(v.pressed) \in Nat /\ DOMAIN v.pressed = 1..Len(v.pressed)
      /\ Len(w.pressed) \in Nat /\ Len(k.pressed) \in Nat /\ DOMAIN k.pressed = 1..Len(k.pressed)
    BY <1>1, <1>2, LenProperties DEF Keyboards
<1> HIDE DEF w
<1>4. Len(w.pressed) <= Len(k.pressed)
    BY <1>2, <1>3 DEF Looked
<1>5. w.down \subseteq k.down /\ k.down \cap physical \subseteq w.down
    BY <1>2, <1>3 DEF Looked
<1>6. \/ w.on = k.on /\ w.sent = k.sent /\ w.need = k.need
      \/ k.need /\ ~w.need /\ w.sent = {locks} /\ w.on = IF k.sent = {locks} THEN k.on ELSE locks
    BY <1>2 DEF Looked
<1>7. ASSUME NEW i \in DOMAIN k.pressed, k.pressed[i] \notin physical,
             \A j \in 1..(i - 1) : k.pressed[j] \in physical
      PROVE  (n + 1 < i => w = k) /\ (n + 1 >= i => k.pressed[i] \notin w.down)
  <2>1. (n < i => v = k) /\ (n >= i => k.pressed[i] \notin v.down)
    BY <1>7 DEF Looked
  <2>2. ASSUME n + 1 < i PROVE w = k
    <3>1. v = k /\ n + 1 \in 1..(i - 1) /\ n + 1 \in DOMAIN k.pressed
      BY <1>3, <2>1, <2>2
    <3> QED
      BY <1>2, <1>7, <3>1
  <2>3. ASSUME n + 1 >= i PROVE k.pressed[i] \notin w.down
    <3>1. CASE n >= i
      BY <1>2, <2>1, <3>1
    <3>2. CASE ~(n >= i)
      <4>1. n + 1 = i /\ v = k
        BY <1>3, <2>1, <2>3, <3>2
      <4> QED
        BY <1>2, <1>7, <4>1
    <3> QED
      BY <3>1, <3>2
  <2> QED
    BY <2>2, <2>3
<1> QED
    BY <1>2, <1>4, <1>5, <1>6, <1>7 DEF Looked, w

LEMMA ReleaseGoneIs ==
    ASSUME Types, NEW k \in Keyboards
    PROVE  Looked(k, ReleaseGone(k), Slots)
<1> DEFINE F == [n \in Nat |-> [v \in Keyboards |-> ReleasePlace(v, n)]]
           Loop(f) == f = [n \in 0..Slots |-> IF n = 0 THEN k ELSE ReleasePlace(f[n - 1], n)]
           after == CHOOSE f : Loop(f)
<1>1. Slots \in Nat
    BY SlotAssumption
<1>2. F \in Steps(Keyboards)
    BY ReleasePlaceIs DEF Steps
<1>3. \E f : Loop(f)
  <2>1. \A n \in Nat, v \in Keyboards : F[n][v] = ReleasePlace(v, n)
    OBVIOUS
  <2> HIDE DEF F
  <2>2. PICK g : Iterates(g, F, k, Slots) /\ \A n \in 0..Slots : g[n] \in Keyboards
    BY <1>1, <1>2, Iteration
  <2>3. \A n \in 1..Slots : n \in Nat /\ n - 1 \in 0..Slots /\ g[n - 1] \in Keyboards
    BY <1>1, <2>2
  <2>4. \A n \in 0..Slots : g[n] = IF n = 0 THEN k ELSE ReleasePlace(g[n - 1], n)
    BY <1>1, <2>1, <2>2, <2>3 DEF Iterates
  <2> DEFINE h == [n \in 0..Slots |-> g[n]]
  <2>5. Loop(h)
    <3>1. \A n \in 0..Slots : n # 0 => n - 1 \in 0..Slots
      BY <1>1
    <3>2. \A n \in 0..Slots : (IF n = 0 THEN k ELSE ReleasePlace(h[n - 1], n)) = g[n]
      BY <2>4, <3>1
    <3> QED
      BY <3>2
  <2> HIDE DEF h, Loop
  <2> QED
    BY <2>5
<1>4. Loop(after)
    BY <1>3
<1>5. ReleaseGone(k) = after[Slots]
    BY DEF ReleaseGone
<1>6. \A n \in 0..Slots : after[n] = IF n = 0 THEN k ELSE ReleasePlace(after[n - 1], n)
    BY <1>4
<1> HIDE DEF after, Loop, F
<1> DEFINE S == {n \in Nat : n <= Slots => Looked(k, after[n], n)}
<1>7. 0 \in S
  <2>1. after[0] = k
    BY <1>1, <1>6
  <2>2. k.pressed \in Seq(Keys) /\ DOMAIN k.pressed = 1..Len(k.pressed) /\ Len(k.pressed) \in Nat
    BY LenProperties DEF Keyboards
  <2> QED
    BY <2>1, <2>2 DEF Looked
<1>8. ASSUME NEW n \in Nat, n \in S
      PROVE  n + 1 \in S
  <2>1. SUFFICES ASSUME n + 1 <= Slots PROVE Looked(k, after[n + 1], n + 1)
    OBVIOUS
  <2>2. Looked(k, after[n], n)
    BY <1>1, <1>8, <2>1
  <2>3. after[n + 1] = ReleasePlace(after[n], n + 1)
    BY <1>1, <1>6, <2>1
  <2> QED
    BY <2>2, <2>3, LookedOn
<1>9. Slots \in S
    BY <1>1, <1>7, <1>8, Induction
<1> QED
    BY <1>1, <1>5, <1>9

-----------------------------------------------------------------------------
(* The types and the locks *)

TypesKnown == KeyboardTypeOK /\ Types

LEMMA TurnIs ==
    ASSUME NEW on \in SUBSET LockKeys, NEW key
    PROVE  Turn(on, key) \in SUBSET LockKeys /\ (key \notin LockKeys => Turn(on, key) = on)
BY DEF Turn

\* What Activate makes of the keyboard
LEMMA ActivateIs ==
    ASSUME TypesKnown, Activate
    PROVE  /\ keyboard' \in Keyboards /\ Len(keyboard'.pressed) = 0
           /\ keyboard'.down \subseteq keyboard.down
           /\ keyboard.down \cap physical \subseteq keyboard'.down
           /\ \A i \in DOMAIN keyboard.pressed :
                 (keyboard.pressed[i] \notin physical
                  /\ \A j \in 1..(i - 1) : keyboard.pressed[j] \in physical)
                     => keyboard.pressed[i] \notin keyboard'.down
           /\ \/ keyboard'.need /\ ~keyboard.need
                 /\ keyboard'.sent = keyboard.sent /\ keyboard'.on = keyboard.on
              \/ keyboard'.need /\ keyboard.need /\ keyboard'.sent = {locks}
                 /\ keyboard'.on = IF keyboard.sent = {locks} THEN keyboard.on ELSE locks
              \/ ~keyboard'.need /\ keyboard.need /\ keyboard'.sent = {locks}
                 /\ keyboard'.on = IF keyboard.sent = {locks} THEN keyboard.on ELSE locks
<1> DEFINE gone == ReleaseGone(keyboard)
           released == [gone EXCEPT !.pressed = <<>>]
<1>1. Looked(keyboard, gone, Slots) /\ keyboard \in Keyboards /\ locks \in SUBSET LockKeys
    BY ReleaseGoneIs DEF TypesKnown, Types
<1>2. keyboard' = IF released.need THEN KbdSync(released, locks)
                  ELSE [released EXCEPT !.need = TRUE]
    BY DEF Activate
<1> HIDE DEF gone
<1>3. <<>> \in Seq(Keys) /\ Len(<<>>) = 0
    OBVIOUS
<1>4. /\ released \in Keyboards /\ released.pressed = <<>> /\ released.need = gone.need
      /\ released.down = gone.down /\ released.sent = gone.sent /\ released.on = gone.on
    BY <1>1, <1>3 DEF Looked, Keyboards
<1> HIDE DEF released
<1>5. /\ keyboard' \in Keyboards /\ keyboard'.pressed = released.pressed
      /\ keyboard'.down = released.down
      /\ \/ ~released.need /\ keyboard'.need
            /\ keyboard'.sent = released.sent /\ keyboard'.on = released.on
         \/ released.need /\ ~keyboard'.need /\ keyboard'.sent = {locks}
            /\ keyboard'.on = IF released.sent = {locks} THEN released.on ELSE locks
  <2>1. CASE released.need
    BY <1>1, <1>2, <1>4, <2>1, KbdSyncIs
  <2>2. CASE ~released.need
    <3>1. keyboard' = [released EXCEPT !.need = TRUE]
      BY <1>2, <2>2
    <3> QED
      BY <1>4, <2>2, <3>1 DEF Keyboards
  <2> QED
    BY <2>1, <2>2
<1>6. keyboard.pressed \in Seq(Keys) /\ Len(keyboard.pressed) <= Slots
      /\ DOMAIN keyboard.pressed = 1..Len(keyboard.pressed) /\ Len(keyboard.pressed) \in Nat
    BY LenProperties DEF TypesKnown, KeyboardTypeOK, Keyboards
<1>7. \A i \in DOMAIN keyboard.pressed :
         (keyboard.pressed[i] \notin physical
          /\ \A j \in 1..(i - 1) : keyboard.pressed[j] \in physical)
             => keyboard.pressed[i] \notin gone.down
    BY <1>1, <1>6, SlotAssumption DEF Looked
<1>8. keyboard.need \in BOOLEAN
    BY <1>1 DEF Keyboards
<1>9. /\ gone.down \subseteq keyboard.down /\ keyboard.down \cap physical \subseteq gone.down
      /\ \/ gone.on = keyboard.on /\ gone.sent = keyboard.sent /\ gone.need = keyboard.need
         \/ keyboard.need /\ ~gone.need /\ gone.sent = {locks}
            /\ gone.on = IF keyboard.sent = {locks} THEN keyboard.on ELSE locks
    BY <1>1 DEF Looked
<1>10. Len(keyboard'.pressed) = 0 /\ keyboard'.down = gone.down
    BY <1>3, <1>4, <1>5
<1>11. \/ keyboard'.need /\ ~keyboard.need
          /\ keyboard'.sent = keyboard.sent /\ keyboard'.on = keyboard.on
       \/ keyboard'.need /\ keyboard.need /\ keyboard'.sent = {locks}
          /\ keyboard'.on = IF keyboard.sent = {locks} THEN keyboard.on ELSE locks
       \/ ~keyboard'.need /\ keyboard.need /\ keyboard'.sent = {locks}
          /\ keyboard'.on = IF keyboard.sent = {locks} THEN keyboard.on ELSE locks
    BY <1>4, <1>5, <1>8, <1>9
<1> QED
    BY <1>5, <1>7, <1>9, <1>10, <1>11

\* A key that goes up in the window
LEMMA CharUpIs ==
    ASSUME TypesKnown, NEW key
    PROVE  /\ CharUp(keyboard, key, locks) \in Keyboards
           /\ Len(CharUp(keyboard, key, locks).pressed) <= Slots
           /\ CharUp(keyboard, key, locks).down = keyboard.down \ {key}
           /\ IF keyboard.need \/ key \in LockKeys
              THEN /\ ~CharUp(keyboard, key, locks).need
                   /\ CharUp(keyboard, key, locks).sent = {locks}
                   /\ CharUp(keyboard, key, locks).on =
                         IF keyboard.sent = {locks} THEN keyboard.on ELSE locks
              ELSE /\ CharUp(keyboard, key, locks).need = keyboard.need
                   /\ CharUp(keyboard, key, locks).sent = keyboard.sent
                   /\ CharUp(keyboard, key, locks).on = keyboard.on
<1> DEFINE s == IF keyboard.need \/ key \in LockKeys THEN KbdSync(keyboard, locks) ELSE keyboard
<1>1. keyboard \in Keyboards /\ locks \in SUBSET LockKeys /\ Len(keyboard.pressed) <= Slots
    BY DEF TypesKnown, KeyboardTypeOK, Types
<1>2. /\ s \in Keyboards /\ s.pressed = keyboard.pressed /\ s.down = keyboard.down
      /\ IF keyboard.need \/ key \in LockKeys
         THEN ~s.need /\ s.sent = {locks}
              /\ s.on = IF keyboard.sent = {locks} THEN keyboard.on ELSE locks
         ELSE s = keyboard
    BY <1>1, KbdSyncIs
<1>3. CharUp(keyboard, key, locks) = KeyUp(s, key)
    BY DEF CharUp
<1> HIDE DEF s
<1>4. /\ KeyUp(s, key) \in Keyboards /\ Len(KeyUp(s, key).pressed) <= Len(s.pressed)
      /\ KeyUp(s, key).down = s.down \ {key}
      /\ KeyUp(s, key).need = s.need /\ KeyUp(s, key).sent = s.sent /\ KeyUp(s, key).on = s.on
    BY <1>2, KeyUpIs
<1>5. Len(s.pressed) \in Nat /\ Len(KeyUp(s, key).pressed) \in Nat /\ Slots \in Nat
    BY <1>2, <1>4, SlotAssumption, LenProperties DEF Keyboards
<1>6. Len(KeyUp(s, key).pressed) <= Slots
    BY <1>1, <1>2, <1>4, <1>5
<1> QED
    BY <1>2, <1>3, <1>4, <1>6

\* The three ways of a key that goes down in the window
LEMMA PressIs ==
    ASSUME TypesKnown, NEW key \in Keys, Press(key)
    PROVE  /\ physical' = physical \cup {key}
           /\ locks' \in SUBSET LockKeys
           /\ locks' = IF key \in physical THEN locks ELSE Turn(locks, key)
           /\ keyboard' \in Keyboards /\ Len(keyboard'.pressed) <= Slots
           /\ \/ ~active /\ UNCHANGED <<keyboard, active>>
              \/ /\ active /\ key = Enter /\ keyboard'.down = keyboard.down
                 /\ keyboard'.on = keyboard.on /\ keyboard'.sent = keyboard.sent
                 /\ \/ ~active' /\ keyboard'.need
                    \/ active' /\ keyboard'.need = keyboard.need
              \/ active /\ active' /\ keyboard' = CharDown(keyboard, key, locks')
<1>1. keyboard \in Keyboards /\ Len(keyboard.pressed) <= Slots /\ locks \in SUBSET LockKeys
    BY DEF TypesKnown, KeyboardTypeOK, Types
<1>2. /\ physical' = physical \cup {key}
      /\ locks' = IF key \in physical THEN locks ELSE Turn(locks, key)
    BY DEF Press
<1>3. locks' \in SUBSET LockKeys
    BY <1>1, <1>2, TurnIs
<1>4. CASE ~active
    BY <1>1, <1>2, <1>3, <1>4 DEF Press
<1>5. CASE active /\ Toggles(keyboard, key)
  <2> DEFINE noted == Registered(keyboard, key)
  <2>1. /\ noted \in Keyboards /\ Len(noted.pressed) <= Slots
        /\ noted.down = keyboard.down /\ noted.on = keyboard.on
        /\ noted.need = keyboard.need /\ noted.sent = keyboard.sent
    BY <1>1, RegisteredIs
  <2>2. \/ keyboard' = [noted EXCEPT !.need = TRUE] /\ active' = FALSE
        \/ keyboard' = noted /\ active' = active
    BY <1>5 DEF Press
  <2>3. key = Enter
    BY <1>5 DEF Toggles
  <2> HIDE DEF noted
  <2>4. /\ keyboard' \in Keyboards /\ keyboard'.pressed = noted.pressed
        /\ keyboard'.down = noted.down /\ keyboard'.on = noted.on /\ keyboard'.sent = noted.sent
        /\ \/ ~active' /\ keyboard'.need
           \/ active' /\ keyboard'.need = noted.need
    BY <1>5, <2>1, <2>2 DEF Keyboards
  <2> QED
    BY <1>2, <1>3, <1>5, <2>1, <2>3, <2>4
<1>6. CASE active /\ ~Toggles(keyboard, key)
  <2>1. keyboard' = CharDown(keyboard, key, locks') /\ active' = active
    BY <1>6 DEF Press
  <2>2. CharDown(keyboard, key, locks') \in Keyboards
        /\ Len(CharDown(keyboard, key, locks').pressed) <= Slots
    BY <1>1, <1>3, CharDownIs
  <2> QED
    BY <1>2, <1>3, <1>6, <2>1, <2>2
<1> QED
    BY <1>4, <1>5, <1>6

LEMMA KeyboardTypesKept == TypesKnown /\ [KeyboardNext]_keyboardVars => TypesKnown'
<1> SUFFICES ASSUME TypesKnown, [KeyboardNext]_keyboardVars PROVE TypesKnown'
    OBVIOUS
<1> USE DEF TypesKnown, KeyboardTypeOK, Types
<1>1. ASSUME NEW key \in Keys, Press(key)
      PROVE  TypesKnown'
  <2>1. /\ physical' \subseteq Keys /\ locks' \subseteq LockKeys
        /\ keyboard' \in Keyboards /\ Len(keyboard'.pressed) <= Slots
    BY <1>1, PressIs
  <2>2. active' \in BOOLEAN /\ missed' \in BOOLEAN
    BY <1>1 DEF Press
  <2> QED
    BY <2>1, <2>2
<1>2. ASSUME NEW key \in Keys, Release(key)
      PROVE  TypesKnown'
    BY <1>2, CharUpIs DEF Release
<1>3. CASE Activate
  <2>1. keyboard' \in Keyboards /\ Len(keyboard'.pressed) <= Slots
    BY <1>3, ActivateIs, SlotAssumption
  <2> QED
    BY <1>3, <2>1 DEF Activate
<1>4. CASE Deactivate
  <2>1. keyboard' \in Keyboards /\ keyboard'.pressed = keyboard.pressed
    BY <1>4 DEF Deactivate, Keyboards
  <2> QED
    BY <1>4, <2>1 DEF Deactivate
<1>5. CASE UNCHANGED keyboardVars
    BY <1>5 DEF keyboardVars
<1> QED
    BY <1>1, <1>2, <1>3, <1>4, <1>5 DEF KeyboardNext

LEMMA LocksKnownKept == TypesKnown /\ LocksKnown /\ [KeyboardNext]_keyboardVars => LocksKnown'
<1> SUFFICES ASSUME TypesKnown, LocksKnown, [KeyboardNext]_keyboardVars, ~missed'
             PROVE  LocksKnown'
    BY DEF LocksKnown
<1> USE DEF LocksKnown
<1>1. keyboard \in Keyboards /\ Len(keyboard.pressed) <= Slots /\ locks \in SUBSET LockKeys
    BY DEF TypesKnown, KeyboardTypeOK, Types
<1>2. ASSUME NEW key \in Keys, Press(key)
      PROVE  LocksKnown'
  <2>1. /\ ~missed /\ ~(active /\ ~active' /\ physical' \cap LockKeys # {})
        /\ ~(active /\ keyboard.need /\ key \in LockKeys)
    BY <1>2 DEF Press
  <2>2. /\ physical' = physical \cup {key}
        /\ locks' \in SUBSET LockKeys
        /\ locks' = IF key \in physical THEN locks ELSE Turn(locks, key)
        /\ key \notin LockKeys => locks' = locks
    BY <1>1, <1>2, PressIs, TurnIs
  <2>3. CASE ~active /\ UNCHANGED <<keyboard, active>>
    BY <2>1, <2>3
  <2>4. CASE /\ active /\ key = Enter /\ keyboard'.down = keyboard.down
             /\ keyboard'.on = keyboard.on /\ keyboard'.sent = keyboard.sent
             /\ \/ ~active' /\ keyboard'.need
                \/ active' /\ keyboard'.need = keyboard.need
    <3>1. key \notin LockKeys
      BY <2>4, KeyAssumption
    <3>2. physical' \cap LockKeys = physical \cap LockKeys /\ locks' = locks
      BY <2>2, <3>1
    <3> QED
      BY <2>1, <2>4, <3>1, <3>2
  <2>5. CASE active /\ active' /\ keyboard' = CharDown(keyboard, key, locks')
    <3>1. /\ keyboard'.down = keyboard.down \cup {key} /\ ~keyboard'.need
          /\ keyboard'.sent = IF keyboard.need THEN {locks'} ELSE keyboard.sent
          /\ keyboard'.on = IF key \in keyboard.down THEN SyncedOn(keyboard, locks')
                            ELSE Turn(SyncedOn(keyboard, locks'), key)
      <4>1. /\ keyboard'.down = DownThen(keyboard, key) /\ ~keyboard'.need
            /\ keyboard'.sent = SentThen(keyboard, locks')
            /\ keyboard'.on = OnThen(keyboard, key, locks')
        BY <1>1, <2>2, <2>5, CharDownIs
      <4> QED
        BY <4>1 DEF DownThen, SentThen, OnThen
    <3>2. CASE keyboard.need
      <4>1. key \notin LockKeys /\ locks' = locks
        BY <2>1, <2>2, <2>5, <3>2
      <4>2. keyboard'.on = locks
        <5>1. SyncedOn(keyboard, locks') = locks
          BY <2>1, <3>2, <4>1 DEF SyncedOn
        <5> QED
          BY <1>1, <3>1, <4>1, <5>1, TurnIs
      <4>3. physical' \cap LockKeys = {} /\ keyboard'.down \cap LockKeys = {}
        BY <2>1, <2>2, <2>5, <3>1, <3>2, <4>1
      <4> QED
        BY <2>5, <3>1, <3>2, <4>1, <4>2, <4>3
    <3>3. CASE ~keyboard.need
      <4>1. /\ keyboard.on = locks
            /\ keyboard.down \cap LockKeys = physical \cap LockKeys
            /\ physical \cap LockKeys = {} => keyboard.sent = {keyboard.on}
        BY <2>1, <2>5, <3>3
      <4>2. keyboard'.on = IF key \in keyboard.down THEN locks ELSE Turn(locks, key)
        BY <3>1, <3>3, <4>1 DEF SyncedOn
      <4>3. CASE key \in LockKeys
        <5>1. keyboard'.on = locks'
          BY <2>2, <4>1, <4>2, <4>3
        <5>2. keyboard'.down \cap LockKeys = physical' \cap LockKeys /\ physical' \cap LockKeys # {}
          BY <2>2, <3>1, <4>1, <4>3
        <5> QED
          BY <2>5, <3>1, <5>1, <5>2
      <4>4. CASE key \notin LockKeys
        <5>1. keyboard'.on = locks /\ locks' = locks
          BY <1>1, <2>2, <4>2, <4>4, TurnIs
        <5>2. /\ keyboard'.down \cap LockKeys = physical' \cap LockKeys
              /\ physical' \cap LockKeys = physical \cap LockKeys
          BY <2>2, <3>1, <4>1, <4>4
        <5>3. keyboard'.sent = keyboard.sent
          BY <3>1, <3>3
        <5> QED
          BY <2>5, <3>1, <4>1, <5>1, <5>2, <5>3
      <4> QED
        BY <4>3, <4>4
    <3> QED
      BY <3>2, <3>3
  <2> QED
    BY <1>2, <2>3, <2>4, <2>5, PressIs
<1>3. ASSUME NEW key \in Keys, Release(key)
      PROVE  LocksKnown'
  <2>1. ~missed /\ physical' = physical \ {key} /\ UNCHANGED <<locks, active>>
    BY <1>3 DEF Release
  <2>2. CASE ~active
    <3>1. keyboard' = keyboard
      BY <1>3, <2>2 DEF Release
    <3> QED
      BY <2>1, <2>2, <3>1
  <2>3. CASE active
    <3>1. /\ keyboard'.down = keyboard.down \ {key}
          /\ IF keyboard.need \/ key \in LockKeys
             THEN /\ ~keyboard'.need /\ keyboard'.sent = {locks}
                  /\ keyboard'.on = IF keyboard.sent = {locks} THEN keyboard.on ELSE locks
             ELSE /\ keyboard'.need = keyboard.need /\ keyboard'.sent = keyboard.sent
                  /\ keyboard'.on = keyboard.on
      BY <1>3, <2>3, CharUpIs DEF Release
    <3>2. CASE keyboard.need
      <4>1. keyboard'.on = locks
        BY <2>1, <3>1, <3>2
      <4>2. physical' \cap LockKeys = {} /\ keyboard'.down \cap LockKeys = {}
        BY <2>1, <2>3, <3>1, <3>2
      <4> QED
        BY <2>1, <2>3, <3>1, <3>2, <4>1, <4>2
    <3>3. CASE ~keyboard.need
      <4>1. /\ keyboard.on = locks
            /\ keyboard.down \cap LockKeys = physical \cap LockKeys
            /\ physical \cap LockKeys = {} => keyboard.sent = {keyboard.on}
        BY <2>1, <2>3, <3>3
      <4>2. keyboard'.on = locks /\ ~keyboard'.need
        BY <3>1, <3>3, <4>1
      <4>3. keyboard'.down \cap LockKeys = physical' \cap LockKeys
        BY <2>1, <3>1, <4>1
      <4>4. physical' \cap LockKeys = {} => keyboard'.sent = {keyboard'.on}
        <5>1. CASE key \in LockKeys
          BY <3>1, <4>2, <5>1
        <5>2. CASE key \notin LockKeys
          BY <2>1, <3>1, <3>3, <4>1, <5>2
        <5> QED
          BY <5>1, <5>2
      <4> QED
        BY <2>1, <2>3, <4>2, <4>3, <4>4
    <3> QED
      BY <3>2, <3>3
  <2> QED
    BY <2>2, <2>3
<1>4. CASE Activate
  <2>1. /\ ~missed /\ physical \cap LockKeys = {} /\ ~active /\ active' = TRUE
        /\ UNCHANGED <<physical, locks>>
    BY <1>4 DEF Activate
  <2>2. /\ keyboard'.down \subseteq keyboard.down
        /\ \/ keyboard'.need /\ ~keyboard.need
              /\ keyboard'.sent = keyboard.sent /\ keyboard'.on = keyboard.on
           \/ keyboard'.need /\ keyboard.need /\ keyboard'.sent = {locks}
              /\ keyboard'.on = IF keyboard.sent = {locks} THEN keyboard.on ELSE locks
           \/ ~keyboard'.need /\ keyboard.need /\ keyboard'.sent = {locks}
              /\ keyboard'.on = IF keyboard.sent = {locks} THEN keyboard.on ELSE locks
    BY <1>4, ActivateIs
  <2>3. /\ keyboard.sent = {} \/ keyboard.sent = {keyboard.on}
        /\ keyboard.down \cap LockKeys = {}
    BY <2>1
  <2>4. keyboard'.down \cap LockKeys = {}
    BY <2>2, <2>3
  <2>5. keyboard.sent = {locks} => keyboard.on = locks
    BY <2>3
  <2> QED
    BY <2>1, <2>2, <2>3, <2>4, <2>5
<1>5. CASE Deactivate
  <2>1. /\ ~missed /\ physical \cap LockKeys = {} /\ active /\ ~active'
        /\ UNCHANGED <<physical, locks>>
    BY <1>5 DEF Deactivate
  <2>2. /\ keyboard'.down = keyboard.down /\ keyboard'.need
        /\ keyboard'.sent = keyboard.sent /\ keyboard'.on = keyboard.on
    BY <1>1, <1>5 DEF Deactivate, Keyboards
  <2> QED
    BY <1>1, <2>1, <2>2 DEF Keyboards
<1>6. CASE UNCHANGED keyboardVars
    BY <1>6 DEF keyboardVars
<1> QED
    BY <1>2, <1>3, <1>4, <1>5, <1>6 DEF KeyboardNext

LEMMA KeyboardInductive == KeyboardSpec => [](TypesKnown /\ LocksKnown)
<1>1. KeyboardInit => TypesKnown /\ LocksKnown
  <2> SUFFICES ASSUME KeyboardInit PROVE TypesKnown /\ LocksKnown
    OBVIOUS
  <2>1. PICK on \in SUBSET LockKeys :
            keyboard = [pressed |-> <<>>, need |-> FALSE, sent |-> {}, down |-> {}, on |-> on]
    BY DEF KeyboardInit
  <2>2. keyboard \in Keyboards /\ Len(keyboard.pressed) <= Slots
    BY <2>1, SlotAssumption DEF Keyboards
  <2>3. /\ physical = {} /\ locks \subseteq LockKeys /\ active = FALSE /\ missed = FALSE
        /\ keyboard.sent = {} /\ keyboard.down = {}
    BY <2>1 DEF KeyboardInit
  <2> QED
    BY <2>2, <2>3 DEF TypesKnown, KeyboardTypeOK, Types, LocksKnown
<1>2. TypesKnown /\ LocksKnown /\ [KeyboardNext]_keyboardVars => (TypesKnown /\ LocksKnown)'
    BY KeyboardTypesKept, LocksKnownKept
<1> QED
    BY <1>1, <1>2, PTL DEF KeyboardSpec

\* aucKeysPressed holds keys, in its places.
THEOREM KeyboardTypes == KeyboardSpec => []KeyboardTypeOK
<1>1. TypesKnown => KeyboardTypeOK
    BY DEF TypesKnown
<1> QED
    BY <1>1, KeyboardInductive, PTL

\* For any keys, locks and places in the table, server and user have the same
\* locks on, whatever keys were pressed where, as LocksAgree says.
THEOREM SameLocks == KeyboardSpec => []LocksAgree
<1>1. LocksKnown => LocksAgree
    BY DEF LocksKnown, LocksAgree
<1> QED
    BY <1>1, KeyboardInductive, PTL

\* _wmActivate releases the latest key that went up outside of the window, and
\* none that is held.
THEOREM KeysGoUp == KeyboardSpec => FocusReturns
<1> DEFINE Returned ==
        (~active /\ active') =>
          /\ keyboard.down \cap physical \subseteq keyboard'.down
          /\ \A i \in DOMAIN keyboard.pressed :
                (/\ keyboard.pressed[i] \notin physical
                 /\ \A j \in 1..(i - 1) : keyboard.pressed[j] \in physical)
                    => keyboard.pressed[i] \notin keyboard'.down
<1>1. TypesKnown /\ [KeyboardNext]_keyboardVars => [Returned]_keyboardVars
  <2> SUFFICES ASSUME TypesKnown, KeyboardNext, ~active, active' PROVE Returned
    OBVIOUS
  <2>1. Activate
    BY DEF KeyboardNext, Press, Release, Deactivate
  <2> QED
    BY <2>1, ActivateIs
<1> QED
    BY <1>1, KeyboardInductive, PTL DEF KeyboardSpec, FocusReturns

-----------------------------------------------------------------------------
(* Seamless windows: the list of local windows *)

\* s has every element of D once, and no other.
Enumerates(s, D) ==
    /\ \A i, j \in DOMAIN s : s[i] = s[j] => i = j
    /\ {s[i] : i \in DOMAIN s} = D

LEMMA EnumeratesIs ==
    ASSUME NEW S, NEW s \in Seq(S), NEW D, Enumerates(s, D)
    PROVE  Len(s) = Cardinality(D) /\ \A x : x \in D <=> \E i \in 1..Len(s) : s[i] = x
<1>1. DOMAIN s = 1..Len(s) /\ Len(s) \in Nat
    BY LenProperties
<1>2. \A x : x \in D <=> \E i \in 1..Len(s) : s[i] = x
    BY <1>1 DEF Enumerates
<1>3. s \in [1..Len(s) -> S]
    BY LenProperties
<1>4. s \in [1..Len(s) -> D]
    BY <1>2, <1>3
<1>5. s \in Bijection(1..Len(s), D)
    BY <1>1, <1>2, <1>4 DEF Enumerates, Bijection, Injection, Surjection, IsInjective
<1> QED
    BY <1>1, <1>2, <1>5, FS_CountingElements DEF ExistsBijection

\* A window that is new goes in front.
LEMMA InFront ==
    ASSUME NEW s \in Seq(Windows), NEW D, Enumerates(s, D), NEW w \in Windows, w \notin D
    PROVE  Enumerates(<<w>> \o s, D \cup {w})
<1> DEFINE t == <<w>> \o s
<1>1. <<w>> \in Seq(Windows) /\ Len(<<w>>) = 1 /\ <<w>>[1] = w
    OBVIOUS
<1>2. Len(s) \in Nat /\ DOMAIN s = 1..Len(s)
    BY LenProperties
<1>3. t \in Seq(Windows) /\ Len(t) = 1 + Len(s)
      /\ \A i \in 1..(1 + Len(s)) : t[i] = IF i = 1 THEN w ELSE s[i - 1]
  <2> HIDE DEF t
  <2>1. /\ t \in Seq(Windows) /\ Len(t) = 1 + Len(s)
        /\ \A i \in 1..(1 + Len(s)) : t[i] = IF i <= 1 THEN <<w>>[i] ELSE s[i - 1]
    BY <1>1, ConcatProperties DEF t
  <2> QED
    BY <1>1, <1>2, <2>1
<1> HIDE DEF t
<1>4. DOMAIN t = 1..(1 + Len(s))
    BY <1>2, <1>3, LenProperties
<1>5. \A i \in 1..Len(s) : s[i] \in D /\ t[i + 1] = s[i]
    BY <1>2, <1>3 DEF Enumerates
<1>6. \A i, j \in DOMAIN t : t[i] = t[j] => i = j
  <2> SUFFICES ASSUME NEW i \in 1..(1 + Len(s)), NEW j \in 1..(1 + Len(s)), t[i] = t[j]
               PROVE  i = j
    BY <1>4
  <2>1. CASE i # 1 /\ j # 1
    <3>1. i - 1 \in DOMAIN s /\ j - 1 \in DOMAIN s /\ s[i - 1] = s[j - 1]
      BY <1>2, <1>3, <2>1
    <3>2. i - 1 = j - 1
      BY <3>1 DEF Enumerates
    <3> QED
      BY <3>2
  <2>2. CASE i = 1 /\ j # 1
    <3>1. t[i] = w /\ t[j] = s[j - 1] /\ j - 1 \in 1..Len(s)
      BY <1>2, <1>3, <2>2
    <3> QED
      BY <1>5, <3>1
  <2>3. CASE i # 1 /\ j = 1
    <3>1. t[j] = w /\ t[i] = s[i - 1] /\ i - 1 \in 1..Len(s)
      BY <1>2, <1>3, <2>3
    <3> QED
      BY <1>5, <3>1
  <2> QED
    BY <2>1, <2>2, <2>3
<1>7. {t[i] : i \in DOMAIN t} = D \cup {w}
  <2>1. \A x \in D : \E i \in DOMAIN t : t[i] = x
    <3> SUFFICES ASSUME NEW x \in D PROVE \E i \in DOMAIN t : t[i] = x
      OBVIOUS
    <3>1. PICK i \in 1..Len(s) : s[i] = x
      BY <1>2 DEF Enumerates
    <3>2. i + 1 \in DOMAIN t /\ t[i + 1] = x
      BY <1>2, <1>4, <1>5, <3>1
    <3> QED
      BY <3>2
  <2>2. 1 \in DOMAIN t /\ t[1] = w
    BY <1>2, <1>3, <1>4
  <2>3. \A i \in DOMAIN t : t[i] \in D \cup {w}
    <3> SUFFICES ASSUME NEW i \in 1..(1 + Len(s)), i # 1 PROVE t[i] \in D
      BY <1>4, <2>2
    <3>1. i - 1 \in 1..Len(s) /\ t[i] = s[i - 1]
      BY <1>2, <1>3
    <3> QED
      BY <1>5, <3>1
  <2> QED
    BY <2>1, <2>2, <2>3
<1> QED
    BY <1>6, <1>7 DEF Enumerates, t

\* The list without one of its places.
LEMMA OutOfList ==
    ASSUME NEW s \in Seq(Windows), NEW D, Enumerates(s, D), NEW i \in DOMAIN s
    PROVE  Enumerates(SubSeq(s, 1, i - 1) \o SubSeq(s, i + 1, Len(s)), D \ {s[i]})
<1> DEFINE a == SubSeq(s, 1, i - 1)
           b == SubSeq(s, i + 1, Len(s))
           n == Len(s)
           t == a \o b
<1>1. n \in Nat /\ DOMAIN s = 1..n /\ i \in 1..n
    BY LenProperties
<1>2. a \in Seq(Windows) /\ Len(a) = i - 1 /\ \A k \in 1..(i - 1) : a[k] = s[k]
  <2>1. i - 1 \in 0..Len(s)
    BY <1>1
  <2> QED
    BY <1>1, <2>1, SubSeqIs
<1>3. b \in Seq(Windows) /\ Len(b) = n - i /\ \A k \in 1..(n - i) : b[k] = s[k + i]
  <2>1. n \in 0..Len(s) /\ i + 1 \in Nat \ {0} /\ i + 1 <= n + 1
    BY <1>1
  <2>2. /\ b \in Seq(Windows) /\ Len(b) = n - (i + 1) + 1
        /\ \A k \in 1..(n - (i + 1) + 1) : b[k] = s[i + 1 + k - 1]
    BY <2>1, SubSeqIs
  <2> HIDE DEF b, n
  <2>3. n - (i + 1) + 1 = n - i /\ \A k \in 1..(n - i) : i + 1 + k - 1 = k + i
    BY <1>1
  <2> QED
    BY <2>2, <2>3
<1> HIDE DEF a, b
<1>4. t \in Seq(Windows) /\ Len(t) = n - 1
      /\ \A k \in 1..(n - 1) : t[k] = IF k < i THEN s[k] ELSE s[k + 1]
  <2>1. /\ t \in Seq(Windows) /\ Len(t) = Len(a) + Len(b)
        /\ \A k \in 1..(Len(a) + Len(b)) : t[k] = IF k <= Len(a) THEN a[k] ELSE b[k - Len(a)]
    BY <1>2, <1>3, ConcatProperties
  <2> HIDE DEF t, n
  <2>2. Len(a) + Len(b) = n - 1
    BY <1>1, <1>2, <1>3
  <2>3. ASSUME NEW k \in 1..(n - 1) PROVE t[k] = IF k < i THEN s[k] ELSE s[k + 1]
    <3>1. CASE k < i
      BY <1>1, <1>2, <2>1, <2>2, <3>1
    <3>2. CASE k >= i
      <4>1. t[k] = b[k - (i - 1)] /\ k - (i - 1) \in 1..(n - i)
        <5>1. k \in 1..(Len(a) + Len(b)) /\ ~(k <= Len(a)) /\ k - (i - 1) \in 1..(n - i)
          BY <1>1, <1>2, <2>2, <3>2
        <5> QED
          BY <1>2, <2>1, <5>1
      <4>2. b[k - (i - 1)] = s[k - (i - 1) + i]
        BY <1>3, <4>1
      <4>3. k - (i - 1) + i = k + 1
        BY <1>1
      <4> QED
        BY <1>1, <3>2, <4>1, <4>2, <4>3
    <3> QED
      BY <1>1, <3>1, <3>2
  <2> QED
    BY <2>1, <2>2, <2>3
<1> HIDE DEF t
<1>5. DOMAIN t = 1..(n - 1)
    BY <1>4, LenProperties
<1> HIDE DEF n
<1> DEFINE at(k) == IF k < i THEN k ELSE k + 1
<1>6. \A k \in 1..(n - 1) : at(k) \in DOMAIN s /\ at(k) # i /\ t[k] = s[at(k)]
    BY <1>1, <1>4
<1>7. \A k, l \in 1..(n - 1) : at(k) = at(l) => k = l
    BY <1>1
<1>8. \A j \in DOMAIN s : j # i => \E k \in 1..(n - 1) : at(k) = j
  <2> SUFFICES ASSUME NEW j \in 1..n, j # i PROVE \E k \in 1..(n - 1) : at(k) = j
    BY <1>1
  <2>1. CASE j < i
    BY <1>1, <2>1
  <2>2. CASE j > i
    <3>1. j - 1 \in 1..(n - 1) /\ at(j - 1) = j
      BY <1>1, <2>2
    <3> QED
      BY <3>1
  <2> QED
    BY <1>1, <2>1, <2>2
<1> HIDE DEF at
<1>9. \A k, l \in DOMAIN t : t[k] = t[l] => k = l
    BY <1>5, <1>6, <1>7 DEF Enumerates
<1>10. {t[k] : k \in DOMAIN t} = D \ {s[i]}
    BY <1>5, <1>6, <1>8 DEF Enumerates
<1> QED
    BY <1>9, <1>10 DEF Enumerates, t, a, b, n

\* A window that is new goes to the end.
LEMMA AtEnd ==
    ASSUME NEW s \in Seq(Windows), NEW D, Enumerates(s, D), NEW w \in Windows, w \notin D
    PROVE  Enumerates(Append(s, w), D \cup {w})
<1> DEFINE t == Append(s, w)
           n == Len(s)
<1>1. n \in Nat /\ DOMAIN s = 1..n
    BY LenProperties
<1>2. t \in Seq(Windows) /\ Len(t) = n + 1 /\ (\A i \in 1..n : t[i] = s[i]) /\ t[n + 1] = w
    BY AppendProperties
<1> HIDE DEF t, n
<1>3. DOMAIN t = 1..(n + 1)
    BY <1>2, LenProperties
<1>4. \A i \in 1..n : t[i] \in D
    BY <1>1, <1>2 DEF Enumerates
<1>5. \A i, j \in 1..(n + 1) : t[i] = t[j] => i = j
    BY <1>1, <1>2, <1>4 DEF Enumerates
<1>6. \A x : x \in D => \E i \in 1..(n + 1) : t[i] = x
    BY <1>1, <1>2 DEF Enumerates
<1>7. n + 1 \in 1..(n + 1) /\ \A i \in 1..(n + 1) : i # n + 1 => i \in 1..n
    BY <1>1
<1>8. {t[i] : i \in DOMAIN t} = D \cup {w}
    BY <1>2, <1>3, <1>4, <1>6, <1>7
<1> QED
    BY <1>3, <1>5, <1>8 DEF Enumerates, t

\* ui_seamless_destroy_group leaves the windows of the other groups.
LEMMA WithoutGroupIs ==
    ASSUME NEW s \in Seq(Windows), NEW group
    PROVE  /\ WithoutGroup(s, group) \in Seq(Windows)
           /\ \A D : Enumerates(s, D) =>
                 Enumerates(WithoutGroup(s, group), {w \in D : GroupOf[w] # group})
<1> DEFINE N == Len(s)
           X == Seq(Windows)
           F == [n \in Nat |-> [q \in X |-> IF n \in 1..N THEN KeepUnless(q, s[n], group) ELSE q]]
           Loop(f) == f = [i \in 0..N |-> IF i = 0 THEN <<>> ELSE KeepUnless(f[i - 1], s[i], group)]
           kept == CHOOSE f : Loop(f)
<1>1. N \in Nat /\ DOMAIN s = 1..N /\ \A n \in 1..N : s[n] \in Windows
    BY LenProperties, ElementOfSeq
<1>2. WithoutGroup(s, group) = kept[N]
    BY DEF WithoutGroup
<1> HIDE DEF N
<1>3. <<>> \in X
    OBVIOUS
<1>4. \A q \in X, n \in 1..N : KeepUnless(q, s[n], group) \in X
    BY <1>1, AppendProperties DEF KeepUnless
<1>5. \E f : Loop(f)
  <2>1. \A q \in X, n \in Nat : (IF n \in 1..N THEN KeepUnless(q, s[n], group) ELSE q) \in X
    BY <1>4
  <2> HIDE DEF X
  <2>2. F \in Steps(X)
    BY <2>1 DEF Steps
  <2>3. \A n \in 1..N, q \in X : F[n][q] = KeepUnless(q, s[n], group)
    BY <1>1
  <2> HIDE DEF F
  <2>4. PICK g : Iterates(g, F, <<>>, N) /\ \A n \in 0..N : g[n] \in X
    BY <1>1, <1>3, <2>2, Iteration
  <2>5. \A n \in 1..N : n \in Nat /\ n - 1 \in 0..N /\ g[n - 1] \in X
    BY <1>1, <2>4
  <2>6. \A n \in 0..N : g[n] = IF n = 0 THEN <<>> ELSE KeepUnless(g[n - 1], s[n], group)
    BY <1>1, <2>3, <2>4, <2>5 DEF Iterates
  <2> DEFINE h == [n \in 0..N |-> g[n]]
  <2>7. Loop(h)
    <3>1. \A n \in 0..N : n # 0 => n - 1 \in 0..N
      BY <1>1
    <3>2. \A n \in 0..N : (IF n = 0 THEN <<>> ELSE KeepUnless(h[n - 1], s[n], group)) = g[n]
      BY <2>6, <3>1
    <3> QED
      BY <3>2
  <2> HIDE DEF h, Loop
  <2> QED
    BY <2>7
<1>6. Loop(kept)
    BY <1>5
<1>7. \A n \in 0..N : kept[n] = IF n = 0 THEN <<>> ELSE KeepUnless(kept[n - 1], s[n], group)
    BY <1>6
<1> HIDE DEF kept, Loop, F
<1> DEFINE Left(n) == {s[m] : m \in {k \in 1..n : GroupOf[s[k]] # group}}
           Once == \A i, j \in 1..N : s[i] = s[j] => i = j
           S == {n \in Nat : n <= N => kept[n] \in X /\ (Once => Enumerates(kept[n], Left(n)))}
<1>8. 0 \in S
  <2>1. kept[0] = <<>>
    BY <1>1, <1>7
  <2>2. Left(0) = {} /\ Enumerates(<<>>, {})
    BY DEF Enumerates
  <2> QED
    BY <1>3, <2>1, <2>2
<1>9. ASSUME NEW n \in Nat, n \in S
      PROVE  n + 1 \in S
  <2> SUFFICES ASSUME n + 1 <= N
               PROVE  kept[n + 1] \in X /\ (Once => Enumerates(kept[n + 1], Left(n + 1)))
    OBVIOUS
  <2>1. kept[n] \in X /\ (Once => Enumerates(kept[n], Left(n)))
    BY <1>1, <1>9
  <2>2. kept[n + 1] = KeepUnless(kept[n], s[n + 1], group) /\ n + 1 \in 1..N /\ s[n + 1] \in Windows
    <3>1. n + 1 \in 1..N /\ n + 1 # 0 /\ (n + 1) - 1 = n /\ n + 1 \in 0..N
      BY <1>1
    <3> QED
      BY <1>1, <1>7, <3>1
  <2>3. \A k : k \in 1..(n + 1) <=> k \in 1..n \/ k = n + 1
    OBVIOUS
  <2>4. kept[n + 1] \in X
    BY <1>4, <2>1, <2>2
  <2>5. ASSUME Once PROVE Enumerates(kept[n + 1], Left(n + 1))
    <3>1. CASE GroupOf[s[n + 1]] = group
      <4>1. Left(n + 1) = Left(n)
        BY <2>3, <3>1
      <4> HIDE DEF Left, Once
      <4> QED
        BY <2>1, <2>2, <2>5, <3>1, <4>1 DEF KeepUnless
    <3>2. CASE GroupOf[s[n + 1]] # group
      <4>1. Left(n + 1) = Left(n) \cup {s[n + 1]}
        BY <2>3, <3>2
      <4>2. s[n + 1] \notin Left(n)
        BY <1>1, <2>2, <2>5
      <4> HIDE DEF Left, Once
      <4>3. Enumerates(Append(kept[n], s[n + 1]), Left(n) \cup {s[n + 1]})
        BY <2>1, <2>2, <2>5, <4>2, AtEnd
      <4> QED
        BY <2>2, <3>2, <4>1, <4>3 DEF KeepUnless
    <3> QED
      BY <3>1, <3>2
  <2> QED
    BY <2>4, <2>5
<1>10. N \in S
    BY <1>1, <1>8, <1>9, Induction
<1> HIDE DEF Once, Left, X
<1>11. kept[N] \in X /\ (Once => Enumerates(kept[N], Left(N)))
    BY <1>1, <1>10
<1>12. ASSUME NEW D, Enumerates(s, D) PROVE Once /\ Left(N) = {w \in D : GroupOf[w] # group}
    BY <1>1, <1>12 DEF Enumerates, Once, Left
<1> QED
    BY <1>2, <1>11, <1>12 DEF X

-----------------------------------------------------------------------------
(* Seamless windows: the invariant *)

\* From a SYNCBEGIN on, the local windows are those the lines spoke of.
Synchronized == synced => fSeamlessActive /\ Enumerates(pSeamlessWindows, told)
EitherShown == ~reactivated => (desktop <=> ~fSeamlessActive)

\* Which windows the server has is known in finitely many lines.
SeamlessTypes == SeamlessTypeOK /\ IsFiniteSet(serverWindows)

LineTypes == \A line \in Lines :
    /\ line.verb \in {"CREATE", "DESTROY"} => line.window \in Windows
    /\ line.verb = "DESTROYGRP" => line.group \in Groups

LEMMA LinesAre == LineTypes
BY DEF LineTypes, Lines

LEMMA FirstLine ==
    ASSUME SeamlessTypes, lines # <<>>
    PROVE  lines[1] \in Lines /\ Tail(lines) \in Seq(Lines)
BY DEF SeamlessTypes, SeamlessTypeOK

\* SYNC is answered with lines.
LEMMA SyncLinesAre ==
    ASSUME SeamlessTypes
    PROVE  SyncLines \in Seq(Lines)
<1> DEFINE n == Cardinality(serverWindows)
           Fine(s) == s \in [1..n -> serverWindows] /\ \A i, j \in DOMAIN s : i # j => s[i] # s[j]
           order == CHOOSE s \in [1..n -> serverWindows] : \A i, j \in DOMAIN s : i # j => s[i] # s[j]
<1>1. n \in Nat
    BY FS_CardinalityType DEF SeamlessTypes
<1>2. \E s : Fine(s)
  <2>1. ExistsBijection(1..n, serverWindows)
    BY FS_CardinalityType DEF SeamlessTypes
  <2>2. PICK s : s \in Bijection(1..n, serverWindows)
    BY <2>1 DEF ExistsBijection
  <2>3. s \in [1..n -> serverWindows] /\ \A i, j \in 1..n : s[i] = s[j] => i = j
    BY <2>2 DEF Bijection, Injection, IsInjective
  <2> QED
    BY <2>3
<1>3. order \in [1..n -> serverWindows]
    BY <1>2
<1>4. SyncLines = <<Line("SYNCBEGIN")>> \o [i \in DOMAIN order |-> LineOf("CREATE", order[i])]
    BY DEF SyncLines
<1> HIDE DEF order, Fine
<1>5. \A i \in 1..n : LineOf("CREATE", order[i]) \in Lines
  <2>1. \A w \in serverWindows : w \in Windows
    BY DEF SeamlessTypes, SeamlessTypeOK
  <2> QED
    BY <1>3, <2>1 DEF LineOf, Lines
<1> DEFINE created == [i \in DOMAIN order |-> LineOf("CREATE", order[i])]
<1>6. DOMAIN order = 1..n
    BY <1>3
<1> HIDE DEF n
<1>7. created \in [1..n -> Lines]
    BY <1>5, <1>6
<1>8. created \in Seq(Lines)
    BY <1>1, <1>7, SeqOfLength
<1>9. <<Line("SYNCBEGIN")>> \in Seq(Lines)
  <2>1. Line("SYNCBEGIN") \in Lines
    BY DEF Line, Lines
  <2> QED
    BY <2>1
<1> HIDE DEF created
<1> QED
    BY <1>4, <1>8, <1>9, ConcatProperties DEF created

LEMMA WithSync ==
    ASSUME SeamlessTypes, NEW s \in Seq(Lines)
    PROVE  s \o SyncLines \in Seq(Lines)
BY SyncLinesAre, ConcatProperties

\* The operators on the list of local windows keep it one.
LEMMA DestroyWindowIs ==
    ASSUME SeamlessTypes, NEW window, DestroyWindow(window)
    PROVE  /\ pSeamlessWindows' \in Seq(Windows) /\ fLastWinRemoved' \in BOOLEAN
           /\ fSeamlessActive => \A D : Enumerates(pSeamlessWindows, D) =>
                                     Enumerates(pSeamlessWindows', D \ {window})
<1>1. pSeamlessWindows \in Seq(Windows) /\ fLastWinRemoved \in BOOLEAN
    BY DEF SeamlessTypes, SeamlessTypeOK
<1>2. CASE Found(window) = {}
  <2>1. pSeamlessWindows' = pSeamlessWindows /\ fLastWinRemoved' = fLastWinRemoved
    BY <1>2 DEF DestroyWindow
  <2>2. ASSUME fSeamlessActive, NEW D, Enumerates(pSeamlessWindows, D) PROVE D \ {window} = D
    BY <1>2, <2>2 DEF Found, Enumerates
  <2> QED
    BY <1>1, <2>1, <2>2
<1>3. CASE Found(window) # {}
  <2>1. PICK i \in Found(window) :
           /\ pSeamlessWindows' = SubSeq(pSeamlessWindows, 1, i - 1)
                                  \o SubSeq(pSeamlessWindows, i + 1, Len(pSeamlessWindows))
           /\ fLastWinRemoved' = (pSeamlessWindows' = <<>>)
    BY <1>3 DEF DestroyWindow
  <2>2. i \in DOMAIN pSeamlessWindows /\ pSeamlessWindows[i] = window
    BY DEF Found
  <2>3. pSeamlessWindows' \in Seq(Windows)
    <3>1. Len(pSeamlessWindows) \in Nat /\ i \in 1..Len(pSeamlessWindows)
      BY <1>1, <2>2, LenProperties
    <3>2. /\ SubSeq(pSeamlessWindows, 1, i - 1) \in Seq(Windows)
          /\ SubSeq(pSeamlessWindows, i + 1, Len(pSeamlessWindows)) \in Seq(Windows)
      <4>1. i - 1 \in 0..Len(pSeamlessWindows) /\ i + 1 \in Nat \ {0}
            /\ Len(pSeamlessWindows) \in 0..Len(pSeamlessWindows)
        BY <3>1
      <4> QED
        BY <1>1, <4>1, SubSeqType
    <3> QED
      BY <2>1, <3>2, ConcatProperties
  <2> QED
    BY <1>1, <2>1, <2>2, <2>3, OutOfList
<1> QED
    BY <1>2, <1>3

LEMMA CreateWindowIs ==
    ASSUME SeamlessTypes, NEW window \in Windows, CreateWindow(window)
    PROVE  /\ pSeamlessWindows' \in Seq(Windows)
           /\ fSeamlessActive => \A D : Enumerates(pSeamlessWindows, D) =>
                                     Enumerates(pSeamlessWindows', D \cup {window})
<1>1. pSeamlessWindows \in Seq(Windows)
    BY DEF SeamlessTypes, SeamlessTypeOK
<1>2. CASE Found(window) # {}
  <2>1. pSeamlessWindows' = pSeamlessWindows
    BY <1>2 DEF CreateWindow
  <2>2. ASSUME fSeamlessActive, NEW D, Enumerates(pSeamlessWindows, D) PROVE D \cup {window} = D
    BY <1>2, <2>2 DEF Found, Enumerates
  <2> QED
    BY <1>1, <2>1, <2>2
<1>3. CASE Found(window) = {}
  <2>1. pSeamlessWindows' = <<window>> \o pSeamlessWindows
    BY <1>3 DEF CreateWindow
  <2>2. pSeamlessWindows' \in Seq(Windows)
    <3>1. <<window>> \in Seq(Windows)
      OBVIOUS
    <3> QED
      BY <1>1, <2>1, <3>1, ConcatProperties
  <2>3. ASSUME fSeamlessActive, NEW D, Enumerates(pSeamlessWindows, D) PROVE window \notin D
    BY <1>3, <2>3 DEF Found, Enumerates
  <2> QED
    BY <1>1, <2>1, <2>2, <2>3, InFront
<1> QED
    BY <1>2, <1>3

SeamlessInv == SeamlessTypes /\ Synchronized /\ EitherShown

LEMMA SeamlessTypesAre ==
    SeamlessTypes <=>
        /\ pSeamlessWindows \in Seq(Windows) /\ lines \in Seq(Lines)
        /\ serverWindows \subseteq Windows /\ IsFiniteSet(serverWindows)
        /\ serverHidden \in BOOLEAN /\ told \subseteq Windows
        /\ fSeamlessActive \in BOOLEAN /\ fSeamlessStarted \in BOOLEAN
        /\ fSeamlessHidden \in BOOLEAN /\ fLastWinRemoved \in BOOLEAN /\ desktop \in BOOLEAN
        /\ seamless_rest \in BOOLEAN /\ ended \in BOOLEAN /\ synced \in BOOLEAN
        /\ reactivated \in BOOLEAN
BY DEF SeamlessTypes, SeamlessTypeOK

LEMMA SeamlessTypesNext ==
    SeamlessTypes' <=>
        /\ pSeamlessWindows' \in Seq(Windows) /\ lines' \in Seq(Lines)
        /\ serverWindows' \subseteq Windows /\ IsFiniteSet(serverWindows')
        /\ serverHidden' \in BOOLEAN /\ told' \subseteq Windows
        /\ fSeamlessActive' \in BOOLEAN /\ fSeamlessStarted' \in BOOLEAN
        /\ fSeamlessHidden' \in BOOLEAN /\ fLastWinRemoved' \in BOOLEAN /\ desktop' \in BOOLEAN
        /\ seamless_rest' \in BOOLEAN /\ ended' \in BOOLEAN /\ synced' \in BOOLEAN
        /\ reactivated' \in BOOLEAN
BY DEF SeamlessTypes, SeamlessTypeOK

\* What a line does that neither toggles the mode nor begins a synchronization.
LEMMA CreateStep == SeamlessInv /\ LineCreate => SeamlessInv'
<1> SUFFICES ASSUME SeamlessInv, LineCreate PROVE SeamlessInv'
    OBVIOUS
<1> USE DEF SeamlessInv
<1>1. lines # <<>> /\ lines[1].verb = "CREATE"
    BY DEF LineCreate, Next1
<1>2. lines[1].window \in Windows /\ Tail(lines) \in Seq(Lines)
    BY <1>1, FirstLine, LinesAre DEF LineTypes
<1>3. CreateWindow(lines[1].window) /\ told' = told \cup {lines[1].window}
      /\ lines' = Tail(lines)
      /\ UNCHANGED <<fSeamlessActive, fSeamlessStarted, fSeamlessHidden, desktop, seamless_rest,
                     ended, serverWindows, serverHidden, reactivated, fLastWinRemoved, synced>>
    BY DEF LineCreate, NoToggle, Kept, modes
<1>4. /\ pSeamlessWindows' \in Seq(Windows)
      /\ fSeamlessActive => \A D : Enumerates(pSeamlessWindows, D) =>
                                Enumerates(pSeamlessWindows', D \cup {lines[1].window})
    BY <1>2, <1>3, CreateWindowIs
<1>5. SeamlessTypes'
    BY <1>2, <1>3, <1>4, SeamlessTypesAre, SeamlessTypesNext
<1>6. Synchronized'
    BY <1>3, <1>4 DEF Synchronized
<1>7. EitherShown'
    BY <1>3 DEF EitherShown
<1> QED
    BY <1>5, <1>6, <1>7

LEMMA DestroyStep == SeamlessInv /\ LineDestroy => SeamlessInv'
<1> SUFFICES ASSUME SeamlessInv, LineDestroy PROVE SeamlessInv'
    OBVIOUS
<1> USE DEF SeamlessInv
<1>1. lines # <<>>
    BY DEF LineDestroy, Next1
<1>2. Tail(lines) \in Seq(Lines)
    BY <1>1, FirstLine
<1>3. DestroyWindow(lines[1].window) /\ told' = told \ {lines[1].window}
      /\ lines' = Tail(lines)
      /\ UNCHANGED <<fSeamlessActive, fSeamlessStarted, fSeamlessHidden, desktop, seamless_rest,
                     ended, serverWindows, serverHidden, reactivated, synced>>
    BY DEF LineDestroy, NoToggle, Kept, modes
<1>4. /\ pSeamlessWindows' \in Seq(Windows) /\ fLastWinRemoved' \in BOOLEAN
      /\ fSeamlessActive => \A D : Enumerates(pSeamlessWindows, D) =>
                                Enumerates(pSeamlessWindows', D \ {lines[1].window})
    BY <1>3, DestroyWindowIs
<1>5. SeamlessTypes'
    BY <1>2, <1>3, <1>4, SeamlessTypesAre, SeamlessTypesNext
<1>6. Synchronized'
    BY <1>3, <1>4 DEF Synchronized
<1>7. EitherShown'
    BY <1>3 DEF EitherShown
<1> QED
    BY <1>5, <1>6, <1>7

LEMMA DestroyGroupStep == SeamlessInv /\ LineDestroyGroup => SeamlessInv'
<1> SUFFICES ASSUME SeamlessInv, LineDestroyGroup PROVE SeamlessInv'
    OBVIOUS
<1> USE DEF SeamlessInv
<1> DEFINE group == lines[1].group
<1>1. lines # <<>>
    BY DEF LineDestroyGroup, Next1
<1>2. Tail(lines) \in Seq(Lines)
    BY <1>1, FirstLine
<1>3. /\ pSeamlessWindows' = WithoutGroup(pSeamlessWindows, group)
      /\ told' = {w \in told : GroupOf[w] # group}
      /\ lines' = Tail(lines)
      /\ UNCHANGED <<fSeamlessActive, fSeamlessStarted, fSeamlessHidden, desktop, seamless_rest,
                     ended, serverWindows, serverHidden, reactivated, fLastWinRemoved, synced>>
    BY DEF LineDestroyGroup, DestroyGroup, NoToggle, Kept, modes
<1> HIDE DEF group
<1>4. pSeamlessWindows \in Seq(Windows)
    BY SeamlessTypesAre
<1>5. /\ pSeamlessWindows' \in Seq(Windows)
      /\ \A D : Enumerates(pSeamlessWindows, D) =>
             Enumerates(pSeamlessWindows', {w \in D : GroupOf[w] # group})
    BY <1>3, <1>4, WithoutGroupIs
<1>6. told' \subseteq Windows
    BY <1>3, SeamlessTypesAre
<1>7. SeamlessTypes'
    BY <1>2, <1>3, <1>5, <1>6, SeamlessTypesAre, SeamlessTypesNext
<1>8. Synchronized'
  <2>1. ASSUME synced, fSeamlessActive, Enumerates(pSeamlessWindows, told)
        PROVE  Enumerates(pSeamlessWindows', told')
    BY <1>3, <1>5, <2>1
  <2> QED
    BY <1>3, <2>1 DEF Synchronized
<1>9. EitherShown'
    BY <1>3 DEF EitherShown
<1> QED
    BY <1>7, <1>8, <1>9

LEMMA SyncBeginStep == SeamlessInv /\ LineSyncBegin => SeamlessInv'
<1> SUFFICES ASSUME SeamlessInv, LineSyncBegin PROVE SeamlessInv'
    OBVIOUS
<1> USE DEF SeamlessInv
<1>1. lines # <<>>
    BY DEF LineSyncBegin, Next1
<1>2. Tail(lines) \in Seq(Lines)
    BY <1>1, FirstLine
<1>3. /\ IF fSeamlessActive THEN pSeamlessWindows' = <<>> /\ fLastWinRemoved' = FALSE
         ELSE pSeamlessWindows' = pSeamlessWindows /\ fLastWinRemoved' = fLastWinRemoved
      /\ told' = {} /\ synced' = fSeamlessActive
      /\ lines' = Tail(lines)
      /\ UNCHANGED <<fSeamlessActive, fSeamlessStarted, fSeamlessHidden, desktop, seamless_rest,
                     ended, serverWindows, serverHidden, reactivated>>
    BY DEF LineSyncBegin, NoToggle, Kept, modes
<1>4. Enumerates(<<>>, {}) /\ <<>> \in Seq(Windows)
    BY DEF Enumerates
<1>5. SeamlessTypes'
    BY <1>2, <1>3, <1>4, SeamlessTypesAre, SeamlessTypesNext
<1>6. Synchronized'
    BY <1>3, <1>4 DEF Synchronized
<1>7. EitherShown'
    BY <1>3 DEF EitherShown
<1> QED
    BY <1>5, <1>6, <1>7

\* The steps after which a SYNCBEGIN is to come, or that leave the mode, the
\* windows and what they should be as they are.
LEMMA OtherStep ==
    ASSUME SeamlessInv, SeamlessTypes',
           \/ ~synced'
           \/ UNCHANGED <<pSeamlessWindows, told, synced, fSeamlessActive>>,
           \/ desktop' = ~fSeamlessActive'
           \/ UNCHANGED <<desktop, fSeamlessActive, reactivated>>
           \/ reactivated'
    PROVE  SeamlessInv'
<1>1. Synchronized'
  <2>1. CASE ~synced'
    BY <2>1 DEF Synchronized
  <2>2. CASE UNCHANGED <<pSeamlessWindows, told, synced, fSeamlessActive>>
    BY <2>2 DEF SeamlessInv, Synchronized, Enumerates
  <2> QED
    BY <2>1, <2>2
<1>2. EitherShown'
  <2>1. CASE desktop' = ~fSeamlessActive'
    BY <2>1, SeamlessTypesNext DEF EitherShown
  <2>2. CASE UNCHANGED <<desktop, fSeamlessActive, reactivated>>
    BY <2>2 DEF SeamlessInv, EitherShown
  <2>3. CASE reactivated'
    BY <2>3 DEF EitherShown
  <2> QED
    BY <2>1, <2>2, <2>3
<1> QED
    BY <1>1, <1>2 DEF SeamlessInv

LEMMA HelloStep == SeamlessInv /\ LineHello => SeamlessInv'
<1> SUFFICES ASSUME SeamlessInv, LineHello PROVE SeamlessInv'
    OBVIOUS
<1>1. SeamlessTypes /\ lines # <<>>
    BY DEF LineHello, SeamlessInv
<1>2. Tail(lines) \in Seq(Lines) /\ Tail(lines) \o SyncLines \in Seq(Lines)
    BY <1>1, FirstLine, WithSync
<1>3. UNCHANGED <<told, ended, serverWindows, serverHidden, reactivated, pSeamlessWindows, seamless_rest>>
    BY DEF LineHello, NoToggle, Kept
<1>4. CASE fSeamlessStarted
  <2>1. UNCHANGED <<fSeamlessActive, fSeamlessStarted, fSeamlessHidden, desktop, fLastWinRemoved, synced>>
        /\ lines' = Tail(lines)
    BY <1>4 DEF LineHello, NoToggle, modes
  <2>2. SeamlessTypes'
    BY <1>1, <1>2, <1>3, <2>1, SeamlessTypesAre, SeamlessTypesNext
  <2> QED
    BY <1>3, <2>1, <2>2, OtherStep
<1>5. CASE ~fSeamlessStarted /\ fSeamlessHidden'
  <2>1. /\ UNCHANGED <<fSeamlessActive, desktop, synced>> /\ fSeamlessStarted' = TRUE
        /\ fSeamlessHidden' \in BOOLEAN /\ fLastWinRemoved' = FALSE /\ lines' = Tail(lines)
    BY <1>5 DEF LineHello
  <2>2. SeamlessTypes'
    BY <1>1, <1>2, <1>3, <2>1, SeamlessTypesAre, SeamlessTypesNext
  <2> QED
    BY <1>3, <2>1, <2>2, OtherStep
<1>6. CASE ~fSeamlessStarted /\ ~fSeamlessHidden'
  <2>1. /\ fSeamlessActive' = TRUE /\ desktop' = FALSE /\ synced' = FALSE /\ fSeamlessStarted' = TRUE
        /\ fSeamlessHidden' \in BOOLEAN /\ fLastWinRemoved' = FALSE
        /\ lines' = Tail(lines) \o SyncLines
    BY <1>6 DEF LineHello
  <2>2. SeamlessTypes'
    BY <1>1, <1>2, <1>3, <2>1, SeamlessTypesAre, SeamlessTypesNext
  <2> QED
    BY <2>1, <2>2, OtherStep
<1> QED
    BY <1>4, <1>5, <1>6

LEMMA HideStep == SeamlessInv /\ LineHide => SeamlessInv'
<1> SUFFICES ASSUME SeamlessInv, LineHide PROVE SeamlessInv'
    OBVIOUS
<1>1. SeamlessTypes /\ lines # <<>>
    BY DEF LineHide, Next1, SeamlessInv
<1>2. Tail(lines) \in Seq(Lines) /\ <<>> \in Seq(Windows)
    BY <1>1, FirstLine
<1>3. UNCHANGED <<told, ended, serverWindows, serverHidden, reactivated>>
      /\ lines' = Tail(lines) /\ fSeamlessHidden' = TRUE /\ fSeamlessStarted' = fSeamlessStarted
    BY DEF LineHide, Kept
<1>4. CASE fSeamlessActive
  <2>1. /\ fSeamlessActive' = FALSE /\ pSeamlessWindows' = <<>> /\ desktop' = TRUE
        /\ seamless_rest' = FALSE /\ fLastWinRemoved' = FALSE /\ synced' = FALSE
    BY <1>4 DEF LineHide
  <2>2. SeamlessTypes'
    BY <1>1, <1>2, <1>3, <2>1, SeamlessTypesAre, SeamlessTypesNext
  <2> QED
    BY <2>1, <2>2, OtherStep
<1>5. CASE ~fSeamlessActive
  <2>1. UNCHANGED <<fSeamlessActive, pSeamlessWindows, desktop, seamless_rest, fLastWinRemoved, synced>>
    BY <1>5 DEF LineHide
  <2>2. SeamlessTypes'
    BY <1>1, <1>2, <1>3, <2>1, SeamlessTypesAre, SeamlessTypesNext
  <2> QED
    BY <1>3, <2>1, <2>2, OtherStep
<1> QED
    BY <1>4, <1>5

LEMMA UnhideStep == SeamlessInv /\ LineUnhide => SeamlessInv'
<1> SUFFICES ASSUME SeamlessInv, LineUnhide PROVE SeamlessInv'
    OBVIOUS
<1>1. SeamlessTypes /\ lines # <<>>
    BY DEF LineUnhide, Next1, SeamlessInv
<1>2. /\ Tail(lines) \in Seq(Lines) /\ Tail(lines) \o SyncLines \in Seq(Lines)
      /\ <<>> \in Seq(Windows) /\ fSeamlessActive \in BOOLEAN
    BY <1>1, FirstLine, WithSync, SeamlessTypesAre
<1>3. /\ UNCHANGED <<told, ended, serverWindows, serverHidden, reactivated, fSeamlessStarted>>
      /\ fSeamlessHidden' = FALSE /\ fSeamlessActive' = ~fSeamlessActive
      /\ desktop' = fSeamlessActive /\ fLastWinRemoved' = FALSE /\ synced' = FALSE
    BY DEF LineUnhide, Kept
<1>4. CASE fSeamlessActive
  <2>1. pSeamlessWindows' = <<>> /\ lines' = Tail(lines) /\ seamless_rest' = FALSE
    BY <1>4 DEF LineUnhide
  <2>2. SeamlessTypes'
    BY <1>1, <1>2, <1>3, <2>1, SeamlessTypesAre, SeamlessTypesNext
  <2> QED
    BY <1>2, <1>3, <2>2, OtherStep
<1>5. CASE ~fSeamlessActive
  <2>1. /\ UNCHANGED <<pSeamlessWindows, seamless_rest>>
        /\ lines' = Tail(lines) \o SyncLines
    BY <1>5 DEF LineUnhide
  <2>2. SeamlessTypes'
    BY <1>1, <1>2, <1>3, <2>1, SeamlessTypesAre, SeamlessTypesNext
  <2> QED
    BY <1>2, <1>3, <2>2, OtherStep
<1> QED
    BY <1>4, <1>5

LEMMA IgnoredStep == SeamlessInv /\ LineIgnored => SeamlessInv'
<1> SUFFICES ASSUME SeamlessInv, LineIgnored PROVE SeamlessInv'
    OBVIOUS
<1>1. SeamlessTypes /\ lines # <<>>
    BY DEF LineIgnored, SeamlessInv
<1>2. Tail(lines) \in Seq(Lines) /\ synced \in BOOLEAN /\ seamless_rest \in BOOLEAN
    BY <1>1, FirstLine, SeamlessTypesAre
<1>3. /\ lines' = Tail(lines) /\ seamless_rest' = FALSE
      /\ synced' = (synced /\ ~seamless_rest)
      /\ UNCHANGED <<pSeamlessWindows, fSeamlessActive, fSeamlessStarted, fSeamlessHidden, desktop,
                     fLastWinRemoved, told, ended, serverWindows, serverHidden, reactivated>>
    BY DEF LineIgnored, Kept, modes
<1>4. SeamlessTypes'
    BY <1>1, <1>2, <1>3, SeamlessTypesAre, SeamlessTypesNext
<1> QED
    BY <1>2, <1>3, <1>4, OtherStep

LEMMA LineStep == SeamlessInv /\ HandleLine => SeamlessInv'
BY CreateStep, DestroyStep, DestroyGroupStep, SyncBeginStep, HelloStep, HideStep, UnhideStep,
   IgnoredStep DEF HandleLine

LEMMA LeftStep == SeamlessInv /\ NoWindowsLeft => SeamlessInv'
<1> SUFFICES ASSUME SeamlessInv, NoWindowsLeft PROVE SeamlessInv'
    OBVIOUS
<1>1. /\ ended' = TRUE
      /\ UNCHANGED <<pSeamlessWindows, fSeamlessActive, fSeamlessStarted, fSeamlessHidden, desktop,
                     fLastWinRemoved, seamless_rest, serverWindows, serverHidden, lines, told,
                     synced, reactivated>>
    BY DEF NoWindowsLeft, modes
<1>2. SeamlessTypes'
    BY <1>1, SeamlessTypesAre, SeamlessTypesNext DEF SeamlessInv
<1> QED
    BY <1>1, <1>2, OtherStep

LEMMA ToggleStep == SeamlessInv /\ UserToggles => SeamlessInv'
<1> SUFFICES ASSUME SeamlessInv, UserToggles PROVE SeamlessInv'
    OBVIOUS
<1>1. /\ SeamlessTypes /\ lines \o SyncLines \in Seq(Lines) /\ <<>> \in Seq(Windows)
      /\ fSeamlessActive \in BOOLEAN /\ lines \in Seq(Lines)
  <2>1. lines \in Seq(Lines) /\ fSeamlessActive \in BOOLEAN
    BY SeamlessTypesAre DEF SeamlessInv
  <2> QED
    BY <2>1, WithSync DEF SeamlessInv
<1>2. UNCHANGED <<fSeamlessStarted, fSeamlessHidden, told, ended, serverWindows, serverHidden,
                  reactivated>>
    BY DEF UserToggles, Kept
<1>3. CASE ~fSeamlessStarted \/ fSeamlessHidden
  <2>1. UNCHANGED <<pSeamlessWindows, fSeamlessActive, fLastWinRemoved, desktop, seamless_rest,
                    lines, synced>>
    BY <1>3 DEF UserToggles, Toggle
  <2>2. SeamlessTypes'
    BY <1>1, <1>2, <2>1, SeamlessTypesAre, SeamlessTypesNext
  <2> QED
    BY <1>2, <2>1, <2>2, OtherStep
<1>4. CASE ~(~fSeamlessStarted \/ fSeamlessHidden)
  <2>1. /\ fSeamlessActive' = ~fSeamlessActive /\ fLastWinRemoved' = FALSE /\ synced' = FALSE
        /\ desktop' = fSeamlessActive
    BY <1>1, <1>4 DEF UserToggles, Toggle
  <2>2. /\ lines' \in Seq(Lines) /\ pSeamlessWindows' \in Seq(Windows)
        /\ seamless_rest' \in BOOLEAN
    <3>1. CASE fSeamlessActive
      <4>1. pSeamlessWindows' = <<>> /\ seamless_rest' = FALSE /\ lines' = lines
        BY <1>4, <3>1 DEF UserToggles, Toggle
      <4> QED
        BY <1>1, <4>1
    <3>2. CASE ~fSeamlessActive
      <4>1. /\ lines' = lines \o SyncLines /\ pSeamlessWindows' = pSeamlessWindows
            /\ seamless_rest' = seamless_rest
        BY <1>4, <3>2 DEF UserToggles, Toggle
      <4> QED
        BY <1>1, <4>1, SeamlessTypesAre
    <3> QED
      BY <3>1, <3>2
  <2>3. SeamlessTypes'
    BY <1>1, <1>2, <2>1, <2>2, SeamlessTypesAre, SeamlessTypesNext
  <2> QED
    BY <1>1, <2>1, <2>3, OtherStep
<1> QED
    BY <1>3, <1>4

\* The line with which a connection begins.
LEMMA HelloIs ==
    Hello \in Lines /\ <<Hello>> \in Seq(Lines)
<1>1. Hello \in Lines
    BY DEF Hello, Line, Lines
<1> QED
    BY <1>1

LEMMA ReconnectStep == SeamlessInv /\ Reconnect => SeamlessInv'
<1> SUFFICES ASSUME SeamlessInv, Reconnect PROVE SeamlessInv'
    OBVIOUS
<1>1. SeamlessTypes /\ EitherShown
    BY DEF SeamlessInv
<1>2. /\ lines' = <<Hello>> /\ reactivated' = (reactivated \/ fSeamlessActive)
      /\ seamless_rest' \in BOOLEAN /\ desktop' = TRUE /\ synced' = FALSE
      /\ UNCHANGED <<pSeamlessWindows, fSeamlessActive, fSeamlessStarted, fSeamlessHidden,
                     fLastWinRemoved, ended, serverWindows, serverHidden, told>>
    BY DEF Reconnect
<1>3. reactivated' \in BOOLEAN /\ fSeamlessActive \in BOOLEAN
    BY <1>1, <1>2, SeamlessTypesAre
<1>4. SeamlessTypes'
    BY <1>1, <1>2, <1>3, HelloIs, SeamlessTypesAre, SeamlessTypesNext
<1>5. desktop' = ~fSeamlessActive' \/ reactivated'
    BY <1>2, <1>3
<1> QED
    BY <1>2, <1>4, <1>5, OtherStep

LEMMA ResizeStep == SeamlessInv /\ ResizeReconnect => SeamlessInv'
<1> SUFFICES ASSUME SeamlessInv, ResizeReconnect PROVE SeamlessInv'
    OBVIOUS
<1>1. /\ pSeamlessWindows' = <<>> /\ fSeamlessActive' = FALSE /\ fSeamlessStarted' = FALSE
      /\ fSeamlessHidden' = FALSE /\ fLastWinRemoved' = FALSE /\ desktop' = TRUE
      /\ seamless_rest' = FALSE /\ lines' = <<Hello>> /\ synced' = FALSE
      /\ UNCHANGED <<ended, serverWindows, serverHidden, told, reactivated>>
    BY DEF ResizeReconnect
<1>2. <<>> \in Seq(Windows)
    OBVIOUS
<1>3. SeamlessTypes'
    BY <1>1, <1>2, HelloIs, SeamlessTypesAre, SeamlessTypesNext DEF SeamlessInv
<1> QED
    BY <1>1, <1>3, OtherStep

LEMMA ServerStep == SeamlessInv /\ Server => SeamlessInv'
<1> SUFFICES ASSUME SeamlessInv, Server PROVE SeamlessInv'
    OBVIOUS
<1>1. SeamlessTypes
    BY DEF SeamlessInv
<1>2. serverWindows \subseteq Windows /\ IsFiniteSet(serverWindows) /\ lines \in Seq(Lines)
      /\ serverHidden \in BOOLEAN
    BY <1>1, SeamlessTypesAre
<1>3. ASSUME NEW line \in Lines, Send(line),
             serverWindows' \subseteq Windows, IsFiniteSet(serverWindows'),
             serverHidden' \in BOOLEAN
      PROVE  SeamlessInv'
  <2>1. /\ lines' = Append(lines, line)
        /\ UNCHANGED <<pSeamlessWindows, fSeamlessActive, fSeamlessStarted, fSeamlessHidden, desktop,
                       fLastWinRemoved, seamless_rest, ended, told, synced, reactivated>>
    BY <1>3 DEF Send, modes
  <2>2. lines' \in Seq(Lines)
    BY <1>2, <2>1, AppendProperties
  <2>3. SeamlessTypes'
    BY <1>1, <1>3, <2>1, <2>2, SeamlessTypesAre, SeamlessTypesNext
  <2> QED
    BY <2>1, <2>3, OtherStep
<1>4. ASSUME NEW window \in Windows, serverWindows' = serverWindows \cup {window},
             Send(LineOf("CREATE", window)), serverHidden' = serverHidden
      PROVE  SeamlessInv'
  <2>1. LineOf("CREATE", window) \in Lines
    BY DEF LineOf, Lines
  <2>2. IsFiniteSet(serverWindows') /\ serverWindows' \subseteq Windows
    BY <1>2, <1>4, FS_AddElement
  <2> QED
    BY <1>2, <1>3, <1>4, <2>1, <2>2
<1>5. ASSUME NEW window \in serverWindows, serverWindows' = serverWindows \ {window},
             Send(LineOf("DESTROY", window)), serverHidden' = serverHidden
      PROVE  SeamlessInv'
  <2>1. LineOf("DESTROY", window) \in Lines
    BY <1>2 DEF LineOf, Lines
  <2>2. IsFiniteSet(serverWindows') /\ serverWindows' \subseteq Windows
    BY <1>2, <1>5, FS_RemoveElement
  <2> QED
    BY <1>2, <1>3, <1>5, <2>1, <2>2
<1>6. ASSUME NEW group \in Groups, serverWindows' = {w \in serverWindows : GroupOf[w] # group},
             Send([verb |-> "DESTROYGRP", group |-> group]), serverHidden' = serverHidden
      PROVE  SeamlessInv'
  <2>1. [verb |-> "DESTROYGRP", group |-> group] \in Lines
    BY DEF Lines
  <2>2. serverWindows' \subseteq serverWindows
    BY <1>6
  <2>3. IsFiniteSet(serverWindows') /\ serverWindows' \subseteq Windows
    BY <1>2, <2>2, FS_Subset
  <2> QED
    BY <1>2, <1>3, <1>6, <2>1, <2>3
<1>7. ASSUME serverHidden' = ~serverHidden, serverWindows' = serverWindows,
             Send(Line(IF serverHidden THEN "UNHIDE" ELSE "HIDE"))
      PROVE  SeamlessInv'
  <2>1. Line(IF serverHidden THEN "UNHIDE" ELSE "HIDE") \in Lines
    BY DEF Line, Lines
  <2> QED
    BY <1>2, <1>3, <1>7, <2>1
<1> QED
    BY <1>4, <1>5, <1>6, <1>7 DEF Server

LEMMA SeamlessStart == SeamlessInit => SeamlessInv
<1> SUFFICES ASSUME SeamlessInit PROVE SeamlessInv
    OBVIOUS
<1>1. /\ pSeamlessWindows = <<>> /\ lines = <<Hello>> /\ serverWindows = {} /\ told = {}
      /\ fSeamlessActive = FALSE /\ fSeamlessStarted = FALSE /\ fSeamlessHidden = FALSE
      /\ fLastWinRemoved = FALSE /\ desktop = TRUE /\ seamless_rest = FALSE /\ ended = FALSE
      /\ serverHidden \in BOOLEAN /\ synced = FALSE /\ reactivated = FALSE
    BY DEF SeamlessInit
<1>2. <<>> \in Seq(Windows) /\ IsFiniteSet(serverWindows)
    BY <1>1, FS_EmptySet
<1>3. SeamlessTypes
    BY <1>1, <1>2, HelloIs, SeamlessTypesAre
<1>4. Synchronized /\ EitherShown
    BY <1>1 DEF Synchronized, EitherShown
<1> QED
    BY <1>3, <1>4 DEF SeamlessInv

LEMMA SeamlessStep == SeamlessInv /\ [SeamlessNext]_seamlessVars => SeamlessInv'
<1> SUFFICES ASSUME SeamlessInv, [SeamlessNext]_seamlessVars PROVE SeamlessInv'
    OBVIOUS
<1>1. CASE SeamlessNext
    BY <1>1, LineStep, LeftStep, ToggleStep, ReconnectStep, ResizeStep, ServerStep
    DEF SeamlessNext
<1>2. CASE UNCHANGED seamlessVars
  <2>1. UNCHANGED <<pSeamlessWindows, fSeamlessActive, fSeamlessStarted, fSeamlessHidden, desktop,
                    fLastWinRemoved, seamless_rest, ended, serverWindows, serverHidden, lines, told,
                    synced, reactivated>>
    BY <1>2 DEF seamlessVars, modes
  <2>2. SeamlessTypes'
    BY <2>1, SeamlessTypesAre, SeamlessTypesNext DEF SeamlessInv
  <2> QED
    BY <2>1, <2>2, OtherStep
<1> QED
    BY <1>1, <1>2

THEOREM SeamlessHolds == SeamlessSpec => []SeamlessInv
BY SeamlessStart, SeamlessStep, PTL DEF SeamlessSpec

LEMMA MirrorFollows == SeamlessInv => WindowsMirror
<1> SUFFICES ASSUME SeamlessInv PROVE WindowsMirror
    OBVIOUS
<1>1. pSeamlessWindows \in Seq(Windows)
    BY SeamlessTypesAre DEF SeamlessInv
<1>2. ASSUME fSeamlessActive, synced
      PROVE  /\ {pSeamlessWindows[i] : i \in DOMAIN pSeamlessWindows} = told
             /\ Len(pSeamlessWindows) = Cardinality(told)
  <2>1. Enumerates(pSeamlessWindows, told)
    BY <1>2 DEF SeamlessInv, Synchronized
  <2>2. Len(pSeamlessWindows) = Cardinality(told)
    BY <1>1, <2>1, EnumeratesIs
  <2> QED
    BY <2>1, <2>2 DEF Enumerates
<1> QED
    BY <1>2 DEF SeamlessInv, EitherShown, WindowsMirror

\* In seamless mode, from the synchronization on, there is one local window for
\* each window the server spoke of, and no other, in whatever order windows
\* were made, destroyed one by one or by group; and either the desktop is shown
\* or its windows, unless a connection came up in seamless mode (ui_seamless_*,
\* swSeamlessToggle).
THEOREM WindowsAsTold == SeamlessSpec => []WindowsMirror
BY SeamlessHolds, MirrorFollows, PTL

-----------------------------------------------------------------------------
(* Clipboard *)

\* What the main thread handles, by where it is.
Handled ==
    /\ main.at = "announced" => main.format \subseteq Remote
    /\ main.at = "data" => main.format[1] \in Remote /\ main.format[2] \in Remote

RequestTypes == TypeOK /\ outstanding \in Seq(Remote) /\ hevRequest \in BOOLEAN /\ Handled

\* Who waits and has no post to come from the main thread itself waits for an
\* answer to a request whose format has not been taken.
Waiting ==
    clip = "waiting" /\ ~hevRequest /\ ~fRequestedRDFmtChanged =>
        (ulRequestedRDFmt # NoFormat /\ outstanding # <<>>) \/ main.at = "data"

\* One request at a time: the semaphore is posted when there is none, and a
\* request is in the window thread, in the flag, at the server or in the data
\* the main thread handles, never in two of them.
OneRequest ==
    /\ hevRequest => outstanding = <<>> /\ ~fRequestedRDFmtChanged
                     /\ clip # "reset" /\ main.at # "data"
    /\ clip \in {"tested", "chosen"} => hevRequest
    /\ (clip = "reset" \/ fRequestedRDFmtChanged \/ main.at = "data") => outstanding = <<>>
    /\ (clip = "reset" \/ fRequestedRDFmtChanged) => main.at # "data"
    /\ clip = "reset" => ~fRequestedRDFmtChanged
    /\ outstanding # <<>> => outstanding = <<ulRequestedRDFmt>>
    /\ main.at = "data" => main.format[1] = main.format[2]

\* While an announcement waits for the clipboard, the semaphore is posted, or
\* a request is on its way.
Announced == main.at = "announced" => hevRequest \/ clip = "reset" \/ fRequestedRDFmtChanged

Requests == /\ RequestTypes
            /\ Waiting
            /\ ~crossed => OneRequest
            /\ Announced
            /\ DataUnderItsFormat

-----------------------------------------------------------------------------
(* Facts about the formats *)

LEMMA Formats ==
    /\ NoFormat \notin Remote /\ NoFormat \notin Local
    /\ Remote \cap {"none", "local", "delayed"} = {}
    /\ \A r \in Remote : LocalOf(r) \in Local
    /\ \A l \in Local : RemoteOf(l) \in Remote
BY DEF Remote, Local, NoFormat, LocalOf, RemoteOf

\* What the window thread asks for is a format, or what it asked for before.
LEMMA BestIsFormat ==
    ASSUME NEW l, NEW default \in Remote \cup {NoFormat}
    PROVE  Best(l, default) \in Remote \cup {NoFormat}
<1> DEFINE fit == {i \in DOMAIN Choices(l) : Choices(l)[i] \in aulRDCbFormats}
<1>1. DOMAIN Choices(l) = {1, 2} /\ \A i \in {1, 2} : Choices(l)[i] \in Remote
    BY DEF Choices, Remote
<1>2. CASE fit = {}
    BY <1>2 DEF Best
<1>3. CASE fit # {}
  <2>1. fit \in SUBSET Nat
    BY <1>1
  <2>2. \E i \in fit : \A j \in fit : i <= j
    BY <1>3, <2>1, Smallest
  <2>3. (CHOOSE i \in fit : \A j \in fit : i <= j) \in fit
    BY <2>2
  <2>4. Choices(l)[CHOOSE i \in fit : \A j \in fit : i <= j] \in Remote
    BY <1>1, <2>3
  <2> QED
    BY <1>3, <2>4 DEF Best
<1> QED
    BY <1>2, <1>3

-----------------------------------------------------------------------------
(* The types, and the data requests that wait for an answer *)

LEMMA RequestTypesInit == Init => RequestTypes
<1> SUFFICES ASSUME Init PROVE RequestTypes
    OBVIOUS
<1>1. Len(outstanding) = 0 /\ outstanding \in Seq(Remote)
    BY DEF Init
<1> QED
    BY <1>1, BoundAssumption DEF Init, RequestTypes, TypeOK, Handled, Idle

LEMMA RequestTypesKept == RequestTypes /\ [Next]_vars => RequestTypes'
<1> SUFFICES ASSUME RequestTypes, [Next]_vars PROVE RequestTypes'
    OBVIOUS
<1> USE DEF RequestTypes, TypeOK, Handled, shared, have, system, server, Idle
<1>1. CASE RenderTest
    BY <1>1 DEF RenderTest, Refuse
<1>2. CASE RenderChoose
  <2>1. ulRequestedRDFmt' \in Remote \cup {NoFormat}
    BY <1>2, BestIsFormat DEF RenderChoose
  <2> QED
    BY <1>2, <2>1 DEF RenderChoose, Refuse
<1>3. CASE RenderReset
    BY <1>3 DEF RenderReset
<1>4. CASE RenderAsk
    BY <1>4 DEF RenderAsk
<1>5. CASE RenderEnds
    BY <1>5 DEF RenderEnds, Refuse
<1>6. CASE DrawStart
    BY <1>6 DEF DrawStart
<1>7. CASE DrawEnd
    BY <1>7, Formats DEF DrawEnd, Present
<1>8. CASE SendRequest
  <2>1. outstanding' \in Seq(Remote) /\ Len(outstanding') <= MaxOutstanding
    BY <1>8, BoundAssumption DEF SendRequest, AskOrWake
  <2> QED
    BY <1>8, <2>1, ZenonT(60) DEF SendRequest, AskOrWake
<1>9. CASE SendFormats
    BY <1>9 DEF SendFormats, Announce
<1>10. CASE ForgetFormats
    BY <1>10 DEF ForgetFormats
<1>11. CASE SetData
  <2>1. contents' \in [Local -> {"none", "local", "delayed"} \cup Remote]
    BY <1>11 DEF SetData, Put
  <2> QED
    BY <1>11, <2>1 DEF SetData
<1>12. CASE Refused
  <2>1. known' \subseteq Remote /\ UNCHANGED <<main, outstanding, hevRequest>>
    BY <1>12 DEF Refused
  <2> QED
    BY <1>12, <2>1 DEF Refused
<1>13. CASE Connect
  <2>1. known' \subseteq Remote /\ last_formats' \subseteq Remote /\ viewer' \in {"nobody", "window"}
    BY <1>13 DEF Connect, ui_clip_sync, Announce, Remote
  <2> QED
    BY <1>13, <2>1 DEF Connect
<1>14. CASE FormatAnnounce
    BY <1>14, FormatAssumption DEF FormatAnnounce
<1>15. CASE OpenFails
    BY <1>15 DEF OpenFails
<1>16. CASE DataRequest
    BY <1>16 DEF DataRequest
<1>17. CASE AskFails
    BY <1>17 DEF AskFails, EmptyAnswer
<1>18. CASE HandleData
  <2>1. outstanding # <<>> /\ outstanding' = Tail(outstanding)
    BY <1>18 DEF HandleData
  <2>2. /\ outstanding' \in Seq(Remote) /\ Len(outstanding') <= MaxOutstanding
        /\ Head(outstanding) \in Remote
    BY <2>1, BoundAssumption
  <2> QED
    BY <1>18, <2>2 DEF HandleData
<1>19. CASE RequestFailed
  <2>1. outstanding # <<>> /\ outstanding' = Tail(outstanding)
    BY <1>19 DEF RequestFailed
  <2>2. /\ outstanding' \in Seq(Remote) /\ Len(outstanding') <= MaxOutstanding
        /\ Head(outstanding) \in Remote
    BY <2>1, BoundAssumption
  <2> QED
    BY <1>19, <2>2 DEF RequestFailed
<1>20. CASE OpenAnnounced
    BY <1>20 DEF OpenAnnounced
<1>21. CASE OpenAsked
    BY <1>21 DEF OpenAsked, ui_clip_sync, Announce, Remote
<1>22. CASE \E formats \in Copies : Copy(formats)
    BY <1>22 DEF Copy
<1>23. CASE \E l \in Local : Paste(l)
    BY <1>23 DEF Paste
<1>24. CASE Close
    BY <1>24 DEF Close
<1>25. CASE UNCHANGED vars
    BY <1>25 DEF vars
<1> QED
    BY <1>1, <1>2, <1>3, <1>4, <1>5, <1>6, <1>7, <1>8, <1>9, <1>10, <1>11, <1>12, <1>13, <1>14,
       <1>15, <1>16, <1>17, <1>18, <1>19, <1>20, <1>21, <1>22, <1>23, <1>24, <1>25
    DEF Next, Window, Main, Messages, Open, Programs

\* Only the answer to a request takes its format away, and what else could take
\* the request out of its place posts the semaphore.
LEMMA WaitingKept == RequestTypes /\ Waiting /\ [Next]_vars => Waiting'
<1> SUFFICES ASSUME RequestTypes, Waiting, [Next]_vars
             PROVE  Waiting'
    OBVIOUS
<1> USE DEF Waiting, shared, have, system, server, Idle
<1>1. CASE RenderTest
    BY <1>1 DEF RenderTest, Refuse
<1>2. CASE RenderChoose
    BY <1>2 DEF RenderChoose, Refuse
<1>3. CASE RenderReset
    BY <1>3 DEF RenderReset
<1>4. CASE RenderAsk
    BY <1>4 DEF RenderAsk
<1>5. CASE RenderEnds
    BY <1>5 DEF RenderEnds, Refuse
<1>6. CASE DrawStart
    BY <1>6 DEF DrawStart
<1>7. CASE DrawEnd
    BY <1>7 DEF DrawEnd
<1>8. CASE SendRequest
  <2>1. ulRequestedRDFmt # NoFormat => outstanding' # <<>>
    BY <1>8 DEF SendRequest, AskOrWake, RequestTypes
  <2> QED
    BY <1>8, <2>1 DEF SendRequest, AskOrWake
<1>9. CASE SendFormats
    BY <1>9 DEF SendFormats
<1>10. CASE ForgetFormats
    BY <1>10 DEF ForgetFormats
<1>11. CASE SetData
    BY <1>11 DEF SetData
<1>12. CASE Refused
    BY <1>12 DEF Refused
<1>13. CASE Connect
    BY <1>13 DEF Connect
<1>14. CASE FormatAnnounce
    BY <1>14 DEF FormatAnnounce
<1>15. CASE OpenFails
    BY <1>15 DEF OpenFails
<1>16. CASE DataRequest
    BY <1>16 DEF DataRequest
<1>17. CASE AskFails
    BY <1>17 DEF AskFails
<1>18. CASE HandleData
    BY <1>18 DEF HandleData
<1>19. CASE RequestFailed
    BY <1>19 DEF RequestFailed
<1>20. CASE OpenAnnounced
    BY <1>20 DEF OpenAnnounced
<1>21. CASE OpenAsked
    BY <1>21 DEF OpenAsked
<1>22. CASE \E formats \in Copies : Copy(formats)
    BY <1>22 DEF Copy
<1>23. CASE \E l \in Local : Paste(l)
    BY <1>23 DEF Paste
<1>24. CASE Close
    BY <1>24 DEF Close
<1>25. CASE UNCHANGED vars
    BY <1>25 DEF vars
<1> QED
    BY <1>1, <1>2, <1>3, <1>4, <1>5, <1>6, <1>7, <1>8, <1>9, <1>10, <1>11, <1>12, <1>13, <1>14,
       <1>15, <1>16, <1>17, <1>18, <1>19, <1>20, <1>21, <1>22, <1>23, <1>24, <1>25
    DEF Next, Window, Main, Messages, Open, Programs

\* Unless an announcement crosses a request, there is one request at a time.  An
\* announcement that is taken over when no request is left starts afresh.
LEMMA OneRequestKept ==
    RequestTypes /\ Announced /\ (~crossed => OneRequest) /\ [Next]_vars => (~crossed => OneRequest)'
<1> SUFFICES ASSUME RequestTypes, Announced, ~crossed => OneRequest, [Next]_vars, ~crossed'
             PROVE  OneRequest'
    OBVIOUS
<1> USE DEF OneRequest, shared, have, system, server, Idle
<1>1. CASE RenderTest
    BY <1>1 DEF RenderTest, Refuse
<1>2. CASE RenderChoose
    BY <1>2 DEF RenderChoose, Refuse
<1>3. CASE RenderReset
    BY <1>3 DEF RenderReset
<1>4. CASE RenderAsk
    BY <1>4 DEF RenderAsk
<1>5. CASE RenderEnds
    BY <1>5 DEF RenderEnds, Refuse
<1>6. CASE DrawStart
    BY <1>6 DEF DrawStart
<1>7. CASE DrawEnd
    BY <1>7 DEF DrawEnd
<1>8. CASE SendRequest
    BY <1>8 DEF SendRequest, AskOrWake
<1>9. CASE SendFormats
    BY <1>9 DEF SendFormats
<1>10. CASE ForgetFormats
    BY <1>10 DEF ForgetFormats
<1>11. CASE SetData
    BY <1>11 DEF SetData
<1>12. CASE Refused
    BY <1>12 DEF Refused
<1>13. CASE Connect
    BY <1>13 DEF Connect
<1>14. CASE FormatAnnounce
  <2>1. ~crossed /\ ~Owed
    BY <1>14 DEF FormatAnnounce
  <2>2. main'.at = "announced" /\ hevRequest'
    BY <1>14 DEF FormatAnnounce
  <2>3. UNCHANGED <<outstanding, fRequestedRDFmtChanged, clip>>
    BY <1>14 DEF FormatAnnounce
  <2> QED
    BY <2>1, <2>2, <2>3 DEF Owed
<1>15. CASE OpenFails
    BY <1>15 DEF OpenFails
<1>16. CASE DataRequest
    BY <1>16 DEF DataRequest
<1>17. CASE AskFails
    BY <1>17 DEF AskFails
<1>18. CASE HandleData
  <2>1. outstanding = <<ulRequestedRDFmt>> /\ ~crossed
    BY <1>18 DEF HandleData
  <2>2. outstanding' = <<>> /\ Head(outstanding) = ulRequestedRDFmt
    BY <1>18, <2>1 DEF HandleData
  <2>3. ~fRequestedRDFmtChanged /\ main.at # "data" /\ clip # "reset" /\ ~hevRequest
    BY <1>18, <2>1 DEF HandleData
  <2> QED
    BY <1>18, <2>2, <2>3 DEF HandleData
<1>19. CASE RequestFailed
    BY <1>19 DEF RequestFailed
<1>20. CASE OpenAnnounced
  <2>1. crossed \/ OneRequest
    OBVIOUS
  <2>2. CASE ~crossed
    BY <1>20, <2>2 DEF OpenAnnounced
  <2>3. CASE ~Owed
    BY <1>20, <2>3 DEF OpenAnnounced, Owed, Announced
  <2>4. crossed' = (crossed /\ Owed)
    BY <1>20 DEF OpenAnnounced
  <2> QED
    BY <2>2, <2>3, <2>4
<1>21. CASE OpenAsked
    BY <1>21 DEF OpenAsked
<1>22. CASE \E formats \in Copies : Copy(formats)
    BY <1>22 DEF Copy
<1>23. CASE \E l \in Local : Paste(l)
    BY <1>23 DEF Paste
<1>24. CASE Close
    BY <1>24 DEF Close
<1>25. CASE UNCHANGED vars
    BY <1>25 DEF vars
<1> QED
    BY <1>1, <1>2, <1>3, <1>4, <1>5, <1>6, <1>7, <1>8, <1>9, <1>10, <1>11, <1>12, <1>13, <1>14,
       <1>15, <1>16, <1>17, <1>18, <1>19, <1>20, <1>21, <1>22, <1>23, <1>24, <1>25
    DEF Next, Window, Main, Messages, Open, Programs

\* Only the main thread takes a request away, and it waits for the clipboard.
LEMMA AnnouncedKept == RequestTypes /\ Announced /\ [Next]_vars => Announced'
<1> SUFFICES ASSUME RequestTypes, Announced, [Next]_vars
             PROVE  Announced'
    OBVIOUS
<1> USE DEF Announced, shared, have, system, server, Idle
<1>1. CASE RenderTest
    BY <1>1 DEF RenderTest, Refuse
<1>2. CASE RenderChoose
    BY <1>2 DEF RenderChoose, Refuse
<1>3. CASE RenderReset
    BY <1>3 DEF RenderReset
<1>4. CASE RenderAsk
    BY <1>4 DEF RenderAsk
<1>5. CASE RenderEnds
    BY <1>5 DEF RenderEnds, Refuse
<1>6. CASE DrawStart
    BY <1>6 DEF DrawStart
<1>7. CASE DrawEnd
    BY <1>7 DEF DrawEnd
<1>8. CASE SendRequest
    BY <1>8 DEF SendRequest, AskOrWake
<1>9. CASE SendFormats
    BY <1>9 DEF SendFormats
<1>10. CASE ForgetFormats
    BY <1>10 DEF ForgetFormats
<1>11. CASE SetData
    BY <1>11 DEF SetData
<1>12. CASE Refused
    BY <1>12 DEF Refused
<1>13. CASE Connect
    BY <1>13 DEF Connect
<1>14. CASE FormatAnnounce
    BY <1>14 DEF FormatAnnounce
<1>15. CASE OpenFails
    BY <1>15 DEF OpenFails
<1>16. CASE DataRequest
    BY <1>16 DEF DataRequest
<1>17. CASE AskFails
    BY <1>17 DEF AskFails
<1>18. CASE HandleData
    BY <1>18 DEF HandleData
<1>19. CASE RequestFailed
    BY <1>19 DEF RequestFailed
<1>20. CASE OpenAnnounced
    BY <1>20 DEF OpenAnnounced
<1>21. CASE OpenAsked
    BY <1>21 DEF OpenAsked
<1>22. CASE \E formats \in Copies : Copy(formats)
    BY <1>22 DEF Copy
<1>23. CASE \E l \in Local : Paste(l)
    BY <1>23 DEF Paste
<1>24. CASE Close
    BY <1>24 DEF Close
<1>25. CASE UNCHANGED vars
    BY <1>25 DEF vars
<1> QED
    BY <1>1, <1>2, <1>3, <1>4, <1>5, <1>6, <1>7, <1>8, <1>9, <1>10, <1>11, <1>12, <1>13, <1>14,
       <1>15, <1>16, <1>17, <1>18, <1>19, <1>20, <1>21, <1>22, <1>23, <1>24, <1>25
    DEF Next, Window, Main, Messages, Open, Programs

\* Data is put under the formats the request was for.
LEMMA DataKept ==
    RequestTypes /\ (~crossed => OneRequest) /\ DataUnderItsFormat /\ [Next]_vars => DataUnderItsFormat'
<1> SUFFICES ASSUME RequestTypes, ~crossed => OneRequest, DataUnderItsFormat, [Next]_vars
             PROVE  DataUnderItsFormat'
    OBVIOUS
<1> USE DEF DataUnderItsFormat, shared, have, system, server, Idle
<1>1. CASE RenderTest
    BY <1>1 DEF RenderTest, Refuse
<1>2. CASE RenderChoose
    BY <1>2 DEF RenderChoose, Refuse
<1>3. CASE RenderReset
    BY <1>3 DEF RenderReset
<1>4. CASE RenderAsk
    BY <1>4 DEF RenderAsk
<1>5. CASE RenderEnds
    BY <1>5 DEF RenderEnds, Refuse
<1>6. CASE DrawStart
    BY <1>6 DEF DrawStart
<1>7. CASE DrawEnd
    BY <1>7 DEF DrawEnd
<1>8. CASE SendRequest
    BY <1>8 DEF SendRequest, AskOrWake
<1>9. CASE SendFormats
    BY <1>9 DEF SendFormats
<1>10. CASE ForgetFormats
    BY <1>10 DEF ForgetFormats
<1>11. CASE SetData
  <2>1. SUFFICES ASSUME ~crossed, NEW l \in Local, contents'[l] \in Remote
                 PROVE  l \in Targets(contents'[l])
    BY <1>11 DEF SetData
  <2>2. main.format[1] = main.format[2]
    BY <1>11, <2>1 DEF SetData, OneRequest
  <2>3. CASE contents' = Put(main.format[1], main.format[2])
    <3>1. contents'[l] = IF l \in Targets(main.format[2]) THEN main.format[1] ELSE contents[l]
      BY <2>3 DEF Put
    <3> QED
      BY <2>1, <2>2, <3>1
  <2> QED
    BY <1>11, <2>1, <2>3 DEF SetData
<1>12. CASE Refused
    BY <1>12 DEF Refused
<1>13. CASE Connect
    BY <1>13 DEF Connect
<1>14. CASE FormatAnnounce
    BY <1>14 DEF FormatAnnounce
<1>15. CASE OpenFails
    BY <1>15 DEF OpenFails
<1>16. CASE DataRequest
    BY <1>16 DEF DataRequest
<1>17. CASE AskFails
    BY <1>17 DEF AskFails
<1>18. CASE HandleData
    BY <1>18 DEF HandleData
<1>19. CASE RequestFailed
    BY <1>19 DEF RequestFailed
<1>20. CASE OpenAnnounced
  <2>1. \A l \in Local : contents'[l] \in {"delayed", "none"}
    BY <1>20 DEF OpenAnnounced
  <2> QED
    BY <2>1, Formats
<1>21. CASE OpenAsked
    BY <1>21 DEF OpenAsked
<1>22. CASE \E formats \in Copies : Copy(formats)
  <2>1. \A l \in Local : contents'[l] \in {"local", "none"}
    BY <1>22 DEF Copy
  <2> QED
    BY <2>1, Formats
<1>23. CASE \E l \in Local : Paste(l)
    BY <1>23 DEF Paste
<1>24. CASE Close
    BY <1>24 DEF Close
<1>25. CASE UNCHANGED vars
    BY <1>25 DEF vars
<1> QED
    BY <1>1, <1>2, <1>3, <1>4, <1>5, <1>6, <1>7, <1>8, <1>9, <1>10, <1>11, <1>12, <1>13, <1>14,
       <1>15, <1>16, <1>17, <1>18, <1>19, <1>20, <1>21, <1>22, <1>23, <1>24, <1>25
    DEF Next, Window, Main, Messages, Open, Programs

-----------------------------------------------------------------------------
(* The theorems *)

LEMMA RequestsInductive == Spec => []Requests
<1>1. Init => Requests
  <2>1. Init => Waiting /\ Announced /\ OneRequest
    BY DEF Init, Waiting, Announced, OneRequest, Idle
  <2>2. Init => DataUnderItsFormat
    BY Formats DEF Init, DataUnderItsFormat
  <2> QED
    BY <2>1, <2>2, RequestTypesInit DEF Requests
<1>2. Requests /\ [Next]_vars => Requests'
    BY RequestTypesKept, WaitingKept, OneRequestKept, AnnouncedKept, DataKept DEF Requests
<1> QED
    BY <1>1, <1>2, PTL DEF Spec

\* The variables keep their types, whatever the server announces and however
\* many requests may be on their way.
THEOREM ClipboardTypes == Spec => []TypeOK
<1>1. Requests => TypeOK
    BY DEF Requests, RequestTypes
<1> QED
    BY <1>1, RequestsInductive, PTL

\* _wmRenderFmt never waits for a post that nobody is left to make.
THEOREM SomebodyWakesIt == Spec => []WaitsForSomebody
<1>1. Requests => WaitsForSomebody
    BY DEF Requests, Waiting, WaitsForSomebody
<1> QED
    BY <1>1, RequestsInductive, PTL

\* ui_clip_handle_data puts data under the local formats of the remote one it
\* was sent in, while no announcement crosses a request.
THEOREM DataWhereItBelongs == Spec => []DataUnderItsFormat
<1>1. Requests => DataUnderItsFormat
    BY DEF Requests
<1> QED
    BY <1>1, RequestsInductive, PTL
=============================================================================
