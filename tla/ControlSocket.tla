---------------------------- MODULE ControlSocket ----------------------------
(***************************************************************************)
(* The control socket, ctrl.c: several runs of the program to the same     *)
(* desktop share the connection of the first, the master; each later one,  *)
(* a slave, hands its command over, waits for the answer and ends.  What   *)
(* the master accepts and reads it does in its event loop.                 *)
(*                                                                         *)
(* A name lives longer than its owner where it is a file (Unix); where it  *)
(* is a name of the kernel (OS/2) it ends with the socket.                 *)
(***************************************************************************)
EXTENDS Integers, Sequences, FiniteSets, SequencesExt

CONSTANTS Programs, Unix

ASSUME ControlAssumption == Unix \in BOOLEAN

VARIABLES
    stage,      \* of each run of the program
    name,       \* who is bound to the socket's name: "none", "stale" or a run
    backlog,    \* connections a master has not accepted yet
    slaves,     \* _ctrl_slaves of a master
    line,       \* of a connection: what is on the way, linebuf, the answer
    closed,     \* connections closed by the slave
    master,     \* whom a slave is connected to
    ran,        \* how often a slave's command was passed on
    ret         \* what a slave returned

controlVars == <<stage, name, backlog, slaves, line, closed, master, ran, ret>>

\* To look whether there is a master a run makes a connection and closes it.
Connections == Programs \X {"verify", "command"}

ControlInit ==
    /\ stage = [p \in Programs |-> "start"]
    /\ name = "none"
    /\ backlog = [p \in Programs |-> <<>>]
    /\ slaves = [p \in Programs |-> <<>>]
    /\ line = [c \in Connections |-> [data |-> <<>>, linebuf |-> <<>>, answer |-> FALSE]]
    /\ closed = {}
    /\ master = [p \in Programs |-> "none"]
    /\ ran = [p \in Programs |-> 0]
    /\ ret = [p \in Programs |-> "none"]

Listening(p) == p \in Programs /\ stage[p] = "master"

-----------------------------------------------------------------------------
(* Becoming master or slave: ctrl_init *)

\* _ctrl_verify_unix_socket
Verify(p) ==
    /\ stage[p] = "start"
    /\ IF Listening(name)
       THEN /\ stage' = [stage EXCEPT ![p] = "slave"]
            /\ backlog' = [backlog EXCEPT ![name] = Append(@, <<p, "verify">>)]
            /\ closed' = closed \cup {<<p, "verify">>}
       ELSE /\ stage' = [stage EXCEPT ![p] = IF Unix /\ name # "none" THEN "unlink" ELSE "bind"]
            /\ UNCHANGED <<backlog, closed>>
    /\ UNCHANGED <<name, slaves, line, master, ran, ret>>

\* Whoever has the name by now loses it.
Unlink(p) ==
    /\ stage[p] = "unlink"
    /\ name' = "none"
    /\ stage' = [stage EXCEPT ![p] = "bind"]
    /\ UNCHANGED <<backlog, slaves, line, closed, master, ran, ret>>

Bind(p) ==
    /\ stage[p] = "bind"
    /\ IF name = "none"
       THEN name' = p /\ stage' = [stage EXCEPT ![p] = "bound"]
       ELSE UNCHANGED name /\ stage' = [stage EXCEPT ![p] = "failed"]
    /\ UNCHANGED <<backlog, slaves, line, closed, master, ran, ret>>

Listen(p) ==
    /\ stage[p] = "bound"
    /\ stage' = [stage EXCEPT ![p] = "master"]
    /\ UNCHANGED <<name, backlog, slaves, line, closed, master, ran, ret>>

-----------------------------------------------------------------------------
(* The slave: ctrl_send_command *)

Connect(p) ==
    /\ stage[p] = "slave"
    /\ IF Listening(name)
       THEN /\ stage' = [stage EXCEPT ![p] = "command"]
            /\ backlog' = [backlog EXCEPT ![name] = Append(@, <<p, "command">>)]
            /\ master' = [master EXCEPT ![p] = name]
       ELSE /\ stage' = [stage EXCEPT ![p] = "failed"]
            /\ UNCHANGED <<backlog, master>>
    /\ UNCHANGED <<name, slaves, line, closed, ran, ret>>

\* The command and the end of the line are sent one after the other.
Send(p) ==
    /\ stage[p] \in {"command", "newline"}
    /\ line' = [line EXCEPT ![<<p, "command">>].data = Append(@, stage[p])]
    /\ stage' = [stage EXCEPT ![p] = IF @ = "command" THEN "newline" ELSE "reading"]
    /\ UNCHANGED <<name, backlog, slaves, closed, master, ran, ret>>

\* The answer, or the end of the connection: then what is looked at was never
\* written.
ReadResult(p) ==
    /\ stage[p] = "reading"
    /\ \/ /\ line[<<p, "command">>].answer
          /\ ret' = [ret EXCEPT ![p] = "ok"]
       \/ /\ ~line[<<p, "command">>].answer
          /\ stage[master[p]] # "master"
          /\ \E r \in {"ok", "error"} : ret' = [ret EXCEPT ![p] = r]
    /\ stage' = [stage EXCEPT ![p] = "done"]
    /\ closed' = closed \cup {<<p, "command">>}
    /\ UNCHANGED <<name, backlog, slaves, line, master, ran>>

\* The user stops a slave.
Stop(p) ==
    /\ stage[p] \in {"command", "newline", "reading"}
    /\ stage' = [stage EXCEPT ![p] = "failed"]
    /\ closed' = closed \cup {<<p, "command">>}
    /\ UNCHANGED <<name, backlog, slaves, line, master, ran, ret>>

-----------------------------------------------------------------------------
(* The master: ctrl_check_fds *)

_ctrl_slave_new(list, c) == Append(list, c)

\* Mutant: when the first leaves, the list is lost.
ForgetList(list, c) == IF list[1] = c THEN <<>> ELSE Remove(list, c)

_ctrl_slave_disconnect(list, c) == Remove(list, c)

Ready(p) == {c \in Range(slaves[p]) : line[c].data # <<>> \/ c \in closed}

\* What there is of a line is kept until the end of it arrives; a command is
\* run and answered at once, and the whole buffer is cleared.
Received(l) ==
    LET all == l.linebuf \o l.data
    IN  IF "newline" \in Range(all) THEN [data |-> <<>>, linebuf |-> <<>>, answer |-> TRUE]
        ELSE [data |-> <<>>, linebuf |-> all, answer |-> FALSE]

\* One turn of the loop: one connection is accepted, or every slave that has
\* sent something is read, up to the first that has closed its connection.
ctrl_check_fds(p) ==
    /\ stage[p] = "master"
    /\ \/ /\ backlog[p] # <<>>
          /\ slaves' = [slaves EXCEPT ![p] = _ctrl_slave_new(@, Head(backlog[p]))]
          /\ backlog' = [backlog EXCEPT ![p] = Tail(@)]
          /\ UNCHANGED <<line, ran>>
       \/ /\ backlog[p] = <<>> /\ Ready(p) # {}
          /\ LET ends == SelectInSeq(slaves[p], LAMBDA c : c \in closed /\ line[c].data = <<>>)
                 upto == IF ends = 0 THEN Len(slaves[p]) ELSE ends - 1
                 read == {c \in Ready(p) : \E i \in 1..upto : slaves[p][i] = c}
             IN  /\ line' = [c \in Connections |-> IF c \in read THEN Received(line[c]) ELSE line[c]]
                 /\ ran' = [q \in Programs |->
                              ran[q] + IF <<q, "command">> \in read
                                          /\ "newline" \in Range(line[<<q, "command">>].data)
                                       THEN 1 ELSE 0]
                 /\ slaves' = IF ends = 0 THEN slaves
                              ELSE [slaves EXCEPT ![p] = _ctrl_slave_disconnect(@, slaves[p][ends])]
          /\ UNCHANGED backlog
    /\ UNCHANGED <<stage, name, closed, master, ret>>

\* A master ends: with ctrl_cleanup, which removes the name whoever has it by
\* now, or without.
End(p) ==
    /\ stage[p] = "master"
    /\ \E clean \in BOOLEAN :
          name' = IF Unix THEN IF clean THEN "none" ELSE IF name = p THEN "stale" ELSE name
                  ELSE IF name = p THEN "none" ELSE name
    /\ stage' = [stage EXCEPT ![p] = "ended"]
    /\ backlog' = [backlog EXCEPT ![p] = <<>>]
    /\ slaves' = [slaves EXCEPT ![p] = <<>>]
    /\ UNCHANGED <<line, closed, master, ran, ret>>

ControlNext ==
    \/ \E p \in Programs :
          \/ Verify(p) \/ Unlink(p) \/ Bind(p) \/ Listen(p)
          \/ Connect(p) \/ Send(p) \/ ReadResult(p) \/ Stop(p)
          \/ ctrl_check_fds(p) \/ End(p)

\* A run goes on by itself, and a master comes back to its event loop.
ControlFairness ==
    \A p \in Programs :
       WF_controlVars(Send(p) \/ ReadResult(p)) /\ WF_controlVars(ctrl_check_fds(p))

ControlSpec == ControlInit /\ [][ControlNext]_controlVars /\ ControlFairness

-----------------------------------------------------------------------------
(* Properties *)

\* A slave that has connected comes to an end, with its command run exactly
\* once, and it says so, unless the user stopped it or its master ended first.
CommandsRun ==
    \A p \in Programs :
       stage[p] = "command" ~>
          \/ stage[p] = "done" /\ ran[p] = 1 /\ ret[p] = "ok"
          \/ stage[p] = "failed"
          \/ stage[p] = "done" /\ stage[master[p]] = "ended"
=============================================================================
