----------------------------- MODULE SmartCards -----------------------------
(***************************************************************************)
(* Smart cards, scard.c.  The network thread puts each request into a      *)
(* queue; the thread of queue_handler_function takes it out, makes and     *)
(* releases contexts itself and gives every other request to an idle       *)
(* thread, or to a new one, because calls of PC/SC may wait for a user.    *)
(* The thread that did the call answers.  Contexts and cards are known to  *)
(* the server by small numbers kept in _scard_handle_list, which all       *)
(* threads use without a lock.                                             *)
(*                                                                         *)
(* What calls return besides handles is left out: reader names, card data, *)
(* attributes.  "Use" stands for every call on a context or a card that    *)
(* neither makes nor ends it nor waits.                                    *)
(***************************************************************************)
EXTENDS Integers, Sequences, FiniteSets

CONSTANTS
    Handles,            \* of PC/SC
    MaxRequests,        \* bounds the requests of all connections
    MaxConnections

ASSUME ScardAssumption ==
    /\ 0 \notin Handles /\ Handles # {}
    /\ MaxRequests \in Nat /\ MaxConnections \in Nat \ {0}

VARIABLES
    scardUp,            \* is there a connection?
    connection,         \* its number
    g_epoch, curEpoch,
    requests,           \* all there were: the structures TSCThreadData
    scardQueue,         \* from queueFirst to queueLast
    handler,            \* of queue_handler_function
    threadList,         \* for each thread its data, 0 is NULL
    handleList,         \* g_scard_handle_list
    handleCounter,      \* g_scard_handle_counter
    pcsc,               \* the handles PC/SC has in use
    told,               \* the numbers this connection's server may use, and for what
    raced               \* did two threads use the list or the queue at once?

scardVars == <<scardUp, connection, g_epoch, curEpoch, requests, scardQueue, handler, threadList,
               handleList, handleCounter, pcsc, told, raced>>

Kinds == {"Establish", "Release", "Connect", "Disconnect", "GetStatusChange", "Cancel", "Use"}
Making == {"Establish", "Connect"}
Ids == 1..MaxRequests
Entries == [handle : Handles, server : Nat]
Stages == {"queued", "lost", "given", "adding", "waiting", "answer", "done"}

\* What a call puts into the list of handles: what PC/SC returned, if it was ok,
\* its number, and the list as it was.
Add(handle, ok, server, head) == [handle |-> handle, ok |-> ok, server |-> server, head |-> head]
NoAdd == Add(0, FALSE, 0, <<>>)

\* The data of a request, and what becomes of it.
Asked(kind, server) ==
    [kind |-> kind, server |-> server, epoch |-> g_epoch, connection |-> connection,
     stage |-> "queued", add |-> NoAdd, answered |-> 0]
Staged(request, stage) == [request EXCEPT !.stage = stage]
WithAdd(request, add) == [request EXCEPT !.add = add]
AnsweredTo(request, to) == [request EXCEPT !.answered = to]

ScardInit ==
    /\ scardUp = TRUE /\ connection = 1 /\ g_epoch = 1 /\ curEpoch = 0
    /\ requests = <<>> /\ scardQueue = <<>>
    /\ handler = [at |-> "wait", id |-> 0]
    /\ threadList = <<>> /\ handleList = <<>> /\ handleCounter = 0
    /\ pcsc = {} /\ told = {} /\ raced = FALSE

-----------------------------------------------------------------------------
(* The list of handles *)

\* _scard_handle_list_get_pcsc_handle: the first with the number, or 0.
PcscHandle(server) ==
    LET found == {i \in DOMAIN handleList : handleList[i].server = server}
    IN  IF found = {} THEN 0
        ELSE handleList[CHOOSE i \in found : \A j \in found : i <= j].handle

\* _scard_handle_list_get_server_handle
ServerHandle(list, handle) ==
    LET found == {i \in DOMAIN list : list[i].handle = handle}
    IN  IF found = {} THEN 0 ELSE list[CHOOSE i \in found : \A j \in found : i <= j].server

\* Mutant: the counter is taken without a look into the list.
CounterAsIs(counter) == IF counter = 0 THEN 1 ELSE counter

\* "lookup first unused handle id", from the last one on.  Its wrap after 2^32
\* numbers is out of reach.
UnusedNumber(counter) ==
    LET first == IF counter = 0 THEN 1 ELSE counter
        used == {handleList[i].server : i \in DOMAIN handleList}
    IN  CHOOSE n \in first..(first + Len(handleList)) :
            n \notin used /\ \A k \in first..(n - 1) : k \in used

\* _scard_handle_list_remove: the first with the handle.
Removed(handle) ==
    LET found == {i \in DOMAIN handleList : handleList[i].handle = handle}
    IN  IF found = {} THEN handleList
        ELSE LET i == CHOOSE i \in found : \A j \in found : i <= j
             IN  SubSeq(handleList, 1, i - 1) \o SubSeq(handleList, i + 1, Len(handleList))

From(i) == SubSeq(handleList, i, Len(handleList))

\* The new entry is put before the head that was read at first.  If that one
\* was freed meanwhile, its memory may still lead to what is left behind it, or
\* not.
Linked(add) ==
    LET entry == [handle |-> add.handle, server |-> add.server]
        head == {i \in DOMAIN handleList : add.head # <<>> /\ handleList[i] = add.head[1]}
        left == {i \in DOMAIN handleList : \E k \in DOMAIN add.head : handleList[i] = add.head[k]}
        next == {i \in left : \A j \in left : i <= j}
    IN  {<<entry>> \o From(i) : i \in IF head # {} THEN head ELSE next}
        \cup (IF head # {} THEN {} ELSE {<<entry>>})

Stage(id, stage) == requests' = [requests EXCEPT ![id] = Staged(@, stage)]
Adding == {i \in DOMAIN requests : requests[i].stage = "adding"}

-----------------------------------------------------------------------------
(* The network thread *)

\* A request of the server: thread_wrapper, which remembers the epoch and waits
\* for the lock of the queue.
Request(kind, server) ==
    /\ scardUp /\ handler.at # "saw" /\ Len(requests) < MaxRequests
    /\ kind # "Establish" => \E t \in told : t.server = server
    /\ kind = "Establish" => server = 0
    /\ curEpoch' = g_epoch
    /\ requests' = Append(requests, Asked(kind, server))
    /\ scardQueue' = Append(scardQueue, Len(requests'))
    /\ told' = IF kind \in {"Release", "Disconnect"} THEN {t \in told : t.server # server} ELSE told
    /\ UNCHANGED <<scardUp, connection, g_epoch, handler, threadList, handleList, handleCounter,
                   pcsc, raced>>

LoseConnection ==
    /\ scardUp /\ connection < MaxConnections
    /\ scardUp' = FALSE
    /\ UNCHANGED <<connection, g_epoch, curEpoch, requests, scardQueue, handler, threadList,
                   handleList, handleCounter, pcsc, told, raced>>

\* scard_reset_state empties the queue without its lock; the new server's
\* announcement counts the epoch.
Reconnect ==
    /\ ~scardUp
    /\ scardUp' = TRUE /\ connection' = connection + 1 /\ g_epoch' = g_epoch + 1
    /\ scardQueue' = <<>>
    /\ requests' = [i \in DOMAIN requests |-> IF requests[i].stage = "queued"
                                             THEN Staged(requests[i], "lost") ELSE requests[i]]
    /\ told' = {}
    /\ raced' = (raced \/ handler.at = "saw")
    /\ UNCHANGED <<curEpoch, handler, threadList, handleList, handleCounter, pcsc>>

-----------------------------------------------------------------------------
(* The thread of the queue *)

\* SC_getNextInQueue, under the lock of the queue: it sees a request and then
\* takes it.  If the queue was emptied in between, the program may crash, or go
\* on with the request it saw.
See ==
    /\ handler.at = "wait" /\ scardQueue # <<>>
    /\ handler' = [at |-> "saw", id |-> scardQueue[1]]
    /\ UNCHANGED <<scardUp, connection, g_epoch, curEpoch, requests, scardQueue, threadList,
                   handleList, handleCounter, pcsc, told, raced>>

Take ==
    /\ handler.at = "saw"
    /\ \/ handler' = [handler EXCEPT !.at = "has"]
       \/ handler' = [at |-> "crashed", id |-> 0] /\ scardQueue = <<>>
    /\ scardQueue' = IF scardQueue = <<>> THEN <<>> ELSE Tail(scardQueue)
    /\ UNCHANGED <<scardUp, connection, g_epoch, curEpoch, requests, threadList, handleList,
                   handleCounter, pcsc, told, raced>>

\* Mutant: the request is done by this thread whatever it is.
GiveToSelf(thread) ==
    /\ handler.at = "has" /\ requests[handler.id].stage \in {"queued", "lost"}
    /\ thread = 0
    /\ UNCHANGED <<threadList, handler>>

\* The first idle thread, or a new one; contexts stay here.
GiveTo(thread) ==
    /\ handler.at = "has" /\ requests[handler.id].stage \in {"queued", "lost"}
    /\ IF requests[handler.id].kind \in {"Establish", "Release"}
       THEN thread = 0 /\ UNCHANGED <<threadList, handler>>
       ELSE /\ IF \E t \in DOMAIN threadList : threadList[t] = 0
               THEN /\ thread \in DOMAIN threadList /\ threadList[thread] = 0
                    /\ \A t \in DOMAIN threadList : threadList[t] = 0 => t <= thread
                    /\ threadList' = [threadList EXCEPT ![thread] = handler.id]
               ELSE /\ thread = Len(threadList) + 1
                    /\ threadList' = Append(threadList, handler.id)
            /\ handler' = [at |-> "wait", id |-> 0]

Give ==
    /\ \E thread \in 0..(Len(threadList) + 1) : GiveTo(thread)
    /\ Stage(handler.id, "given")
    /\ UNCHANGED <<scardUp, connection, g_epoch, curEpoch, scardQueue, handleList, handleCounter,
                   pcsc, told, raced>>

-----------------------------------------------------------------------------
(* The threads that do the calls *)

Given(id, kinds) ==
    handler.at # "crashed" /\ requests[id].stage = "given" /\ requests[id].kind \in kinds
ScardKept == UNCHANGED <<scardUp, connection, g_epoch, curEpoch, scardQueue, handler, threadList>>

\* The handle PC/SC returned is to be put into the list.  A call that fails
\* leaves the variable as it was, and whatever it held is put there.
BeginAdd(id, handle, ok) ==
    /\ requests' = [requests EXCEPT ![id] =
                       WithAdd(Staged(@, "adding"),
                               Add(handle, ok, UnusedNumber(handleCounter), handleList))]
    /\ handleCounter' = UnusedNumber(handleCounter)
    /\ raced' = (raced \/ Adding # {})

CallMake(id) ==
    /\ Given(id, Making)
    /\ \/ \E handle \in Handles \ pcsc :
             /\ requests[id].kind = "Connect" => PcscHandle(requests[id].server) \in pcsc
             /\ pcsc' = pcsc \cup {handle}
             /\ BeginAdd(id, handle, TRUE)
       \/ /\ UNCHANGED pcsc
          /\ \/ \E handle \in Handles : BeginAdd(id, handle, FALSE)
             \/ Stage(id, "answer") /\ UNCHANGED <<handleCounter, raced>>
    /\ UNCHANGED <<handleList, told>> /\ ScardKept

EndAdd(id) ==
    /\ handler.at # "crashed" /\ requests[id].stage = "adding"
    /\ handleList' \in Linked(requests[id].add)
    /\ LET add == requests[id].add
           added == Add(add.handle, add.ok, ServerHandle(handleList', add.handle), <<>>)
       IN  requests' = [requests EXCEPT ![id] = WithAdd(Staged(@, "answer"), added)]
    /\ UNCHANGED <<handleCounter, pcsc, told, raced>> /\ ScardKept

\* SCardReleaseContext and SCardDisconnect
CallEnd(id) ==
    /\ Given(id, {"Release", "Disconnect"})
    /\ LET handle == PcscHandle(requests[id].server)
       IN  pcsc' = pcsc \ {handle} /\ handleList' = Removed(handle)
    /\ Stage(id, "answer")
    /\ raced' = (raced \/ Adding # {})
    /\ UNCHANGED <<handleCounter, told>> /\ ScardKept

\* SCardGetStatusChange waits until something happens, and SCardCancel ends the
\* calls that wait already.
CallWait(id) ==
    /\ Given(id, {"GetStatusChange"})
    /\ Stage(id, IF PcscHandle(requests[id].server) \in pcsc THEN "waiting" ELSE "answer")
    /\ UNCHANGED <<handleList, handleCounter, pcsc, told, raced>> /\ ScardKept

Happens(id) ==
    /\ handler.at # "crashed" /\ requests[id].stage = "waiting"
    /\ Stage(id, "answer")
    /\ UNCHANGED <<handleList, handleCounter, pcsc, told, raced>> /\ ScardKept

CallCancel(id) ==
    /\ Given(id, {"Cancel"})
    /\ requests' = [i \in DOMAIN requests |->
                       IF \/ i = id
                          \/ requests[i].stage = "waiting"
                             /\ PcscHandle(requests[i].server) = PcscHandle(requests[id].server)
                       THEN Staged(requests[i], "answer") ELSE requests[i]]
    /\ UNCHANGED <<handleList, handleCounter, pcsc, told, raced>> /\ ScardKept

CallUse(id) ==
    /\ Given(id, {"Use"})
    /\ Stage(id, "answer")
    /\ UNCHANGED <<handleList, handleCounter, pcsc, told, raced>> /\ ScardKept

\* Mutant: every call is answered.
AnswerAll(id) == scardUp

\* "if iorequest belongs to another epoch, don't send response"
MayAnswer(id) == scardUp /\ requests[id].epoch = curEpoch

\* The end of SC_deviceControl.  A thread of the list is idle when its data is
\* NULL again, which happens under the lock the handler takes to give it more.
Answer(id) ==
    /\ handler.at # "crashed" /\ requests[id].stage = "answer"
    /\ requests' = [requests EXCEPT ![id] =
                       AnsweredTo(Staged(@, "done"), IF MayAnswer(id) THEN connection ELSE 0)]
    /\ told' = IF /\ MayAnswer(id) /\ requests[id].connection = connection
                  /\ requests[id].add.ok /\ requests[id].add.server # 0
               THEN told \cup {[server |-> requests[id].add.server,
                                handle |-> requests[id].add.handle]}
               ELSE told
    /\ handler' = IF handler.id = id /\ handler.at = "has" THEN [at |-> "wait", id |-> 0] ELSE handler
    /\ threadList' = [t \in DOMAIN threadList |-> IF threadList[t] = id THEN 0 ELSE threadList[t]]
    /\ UNCHANGED <<scardUp, connection, g_epoch, curEpoch, scardQueue, handleList, handleCounter,
                   pcsc, raced>>

Call(id) ==
    CallMake(id) \/ EndAdd(id) \/ CallEnd(id) \/ CallWait(id) \/ CallCancel(id) \/ CallUse(id)
    \/ Answer(id)

ScardNext ==
    /\ handler.at # "crashed"
    /\ \/ \E kind \in Kinds, server \in {0} \cup {t.server : t \in told} : Request(kind, server)
       \/ LoseConnection \/ Reconnect
       \/ See \/ Take \/ Give
       \/ \E id \in DOMAIN requests : Call(id) \/ Happens(id)

\* The threads run, and calls of PC/SC return, except those that wait.
ScardFairness ==
    /\ WF_scardVars(See \/ Take \/ Give)
    /\ \A id \in Ids : WF_scardVars(id \in DOMAIN requests /\ Call(id))

ScardSpec == ScardInit /\ [][ScardNext]_scardVars /\ ScardFairness

-----------------------------------------------------------------------------
(* Properties *)

ScardTypeOK ==
    /\ scardUp \in BOOLEAN /\ raced \in BOOLEAN
    /\ connection \in 1..MaxConnections /\ g_epoch \in Nat /\ curEpoch \in 0..g_epoch
    /\ \A id \in DOMAIN requests : requests[id].kind \in Kinds /\ requests[id].stage \in Stages
    /\ scardQueue \in Seq(Ids) /\ threadList \in Seq({0} \cup Ids)
    /\ handler.at \in {"wait", "saw", "has", "crashed"} /\ handler.id \in {0} \cup Ids
    /\ handleList \in Seq(Entries) /\ handleCounter \in Nat
    /\ pcsc \subseteq Handles /\ told \subseteq Entries

\* A number the server was told means the context or card it was told for, as
\* long as no two threads used the list at once: numbers of ended ones are used
\* again, and calls that fail leave entries behind.
HandleMeansIt == raced \/ \A t \in told : PcscHandle(t.server) = t.handle

\* Once a connection has made a request, none of an earlier one is answered on
\* it, however long its call took.
NoLateAnswer ==
    [][\A id \in DOMAIN requests :
          (requests'[id].answered # requests[id].answered
           /\ \E other \in DOMAIN requests : requests[other].connection = connection)
              => requests[id].connection = connection]_scardVars

\* Every request that does not wait for a card is answered while its connection
\* lasts, whatever the requests before it wait for.
RequestsAnswered ==
    \A id \in Ids :
        (id \in DOMAIN requests /\ requests[id].kind # "GetStatusChange") ~>
            (id \in DOMAIN requests /\
                (\/ requests[id].answered = requests[id].connection
                 \/ ~scardUp \/ requests[id].connection # connection
                 \/ handler.at = "crashed"))

\* "if iorequest belongs to another epoch, don't send response back to server":
\* an answer goes to the connection that asked.
AbandonedNotAnswered ==
    \A id \in DOMAIN requests : requests[id].answered \in {0, requests[id].connection}
=============================================================================
