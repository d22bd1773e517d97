-------------------------------- MODULE Daemon --------------------------------
(* The daemon that Doki talks to (src/doki-proot-main.c): one process, one     *)
(* select() loop, a slot with a buffer for each client, and PRoot run to its   *)
(* end within the handling of an "exec" request, its output streamed back.     *)
(* The daemon of daemon/daemon.c and ipc/protocol.c, which the README lists as *)
(* well, shares the loop: program = "daemon.c" selects what it does otherwise. *)
EXTENDS Naturals, Sequences, SequencesExt, FiniteSetsExt

CONSTANTS
  Programs,    \* which of the two, a subset of {"doki-proot", "daemon.c"}
  Clients,     \* who connects
  Traffics,    \* what a client may send: sets of sequences of chunks (see Piece), each a sequence of pieces
  MAX_CLIENTS, \* the slots
  BUFFER_SIZE, \* of a slot, in pieces
  Outputs,     \* what a command may write: [stdout, stderr : Nat], in units of 2 KiB
  Leaves,      \* whether a client may close its connection before it has all its answers
  Signals,     \* whether the daemon may be sent SIGTERM
  FreesTwice   \* what free(), given a pointer it has freed, may do: "continues" or "aborts"

\* A piece of a request: of request id, the k-th; the last one has the newline, the first one the "type".
Piece(id, type, k, last) == [id |-> id, type |-> type, k |-> k, last |-> last]

VARIABLES
  program,  \* in Programs
  conn,     \* conn[c]: "away", "backlog", "served", "refused" or "left"
  traffic,  \* traffic[c]: the chunks that c sends
  sent,     \* sent[c]: how many of them it has sent
  stream,   \* stream[c]: those in its socket, which the daemon has not read
  told,     \* told[c]: the answers c was sent
  clients,  \* clients[i]: whose connection slot i has, and the pieces in its buffer
  ready,    \* the slots that select() has found readable and that were not visited since; 0 is the listening socket
  running,  \* g_running
  at,       \* "select", "accept", "clients", "messages", "exec" (its select()), "stdout", "stderr", "reap", "exited",
            \* "stopped" or "dead"
  slot,     \* the one whose messages are processed, 0 if none
  cmd       \* handle_exec()'s: the request, the child's output to come, its pipes, what select() said, child_done

daemonVars == <<program, conn, traffic, sent, stream, told, clients, ready, running, at, slot, cmd>>

Free == [fd |-> "none", buf |-> <<>>]
NoCommand == [id |-> 0, rest |-> [s \in {"stdout", "stderr"} |-> 0], pipe |-> [s \in {"stdout", "stderr"} |-> 0],
              open |-> {}, seen |-> {}, alive |-> FALSE, done |-> FALSE]
Slots == 1 .. MAX_CLIENTS
TakenSlots == {i \in Slots : clients[i].fd # "none"}

------------------------------------------------------------------------------
(* Answers                                                                   *)

\* send_response(): a line, unless it is longer than the buffer it is formatted in; then its newline is cut off.
Answer(type, id, fits) == [type |-> type, id |-> id, line |-> fits]
\* Nothing ignores SIGPIPE: to answer a client that has left ends the daemon.
SendResponse(c, type, id, fits, next) ==
  /\ told' = IF conn[c] = "left" THEN told ELSE [told EXCEPT ![c] = Append(@, Answer(type, id, fits))]
  /\ at' = IF conn[c] = "left" THEN "dead" ELSE next

------------------------------------------------------------------------------
(* The loop                                                                  *)

Stop == at' = "stopped" /\ UNCHANGED <<told, clients, ready, slot, cmd>>
Select ==
  /\ at = "select"
  /\ \/ ~running /\ Stop
     \/ running /\ LET readable == {i \in TakenSlots : stream[clients[i].fd] # <<>> \/ conn[clients[i].fd] = "left"}
                                   \cup {i \in {0} : \E c \in Clients : conn[c] = "backlog"}
        IN readable # {} /\ ready' = readable /\ at' = "accept" /\ UNCHANGED <<told, clients, slot, cmd>>
  /\ UNCHANGED <<program, conn, traffic, sent, stream, running>>

\* add_client(): the first free slot, or a connection closed at once.
AddClient(c) ==
  IF TakenSlots = Slots THEN conn' = [conn EXCEPT ![c] = "refused"] /\ UNCHANGED clients
  ELSE /\ conn' = [conn EXCEPT ![c] = "served"]
       /\ clients' = [clients EXCEPT ![Min(Slots \ TakenSlots)] = [fd |-> c, buf |-> <<>>]]
Accept ==
  /\ at = "accept" /\ at' = "clients" /\ ready' = ready \ {0}
  /\ IF 0 \notin ready THEN UNCHANGED <<conn, clients>> ELSE \E c \in Clients : conn[c] = "backlog" /\ AddClient(c)
  /\ UNCHANGED <<program, traffic, sent, stream, told, running, slot, cmd>>

RemoveClient(i) == clients' = [clients EXCEPT ![i] = Free]
\* A chunk is received whole, and dropped if the buffer has no room for it; daemon.c then closes the connection.
HasRoom(i, chunk) == Len(clients[i].buf) + Len(chunk) < BUFFER_SIZE
Buffered(i, chunk) == IF HasRoom(i, chunk) THEN clients[i].buf \o chunk ELSE clients[i].buf
Receive ==
  /\ at = "clients"
  /\ IF ready = {} THEN at' = "select" /\ UNCHANGED <<conn, stream, clients, ready, slot>>
     ELSE LET i == Min(ready) c == clients[i].fd IN
          /\ ready' = ready \ {i}
          /\ IF stream[c] = <<>> THEN RemoveClient(i) /\ UNCHANGED <<conn, stream, at, slot>>
             ELSE LET chunk == Head(stream[c]) IN
                  /\ stream' = [stream EXCEPT ![c] = Tail(@)]
                  /\ IF program = "daemon.c" /\ ~HasRoom(i, chunk)
                     THEN RemoveClient(i) /\ conn' = [conn EXCEPT ![c] = "refused"] /\ UNCHANGED <<at, slot>>
                     ELSE /\ clients' = [clients EXCEPT ![i].buf = Buffered(i, chunk)]
                          /\ at' = "messages" /\ slot' = i /\ UNCHANGED conn
  /\ UNCHANGED <<program, traffic, sent, told, running, cmd>>

\* json_get_string(), for "type": the first one there is in the pieces that precede the newline.
TypeOf(m) == IF \E k \in DOMAIN m : m[k].k = 1 THEN LET k == Min({j \in DOMAIN m : m[j].k = 1}) IN [id |-> m[k].id, type |-> m[k].type]
             ELSE [id |-> 0, type |-> "none"]
Shutdown == running' = FALSE
\* ipc_process_message() of protocol.c acknowledges "shutdown", and nothing more.
IpcShutdown == UNCHANGED running
StartExec(id) ==
  /\ at' = "exec" /\ UNCHANGED <<told, running>>
  /\ \E o \in (IF program = "daemon.c" THEN {NoCommand.rest} ELSE Outputs) :
       cmd' = [NoCommand EXCEPT !.id = id, !.rest = o, !.open = {"stdout", "stderr"}, !.alive = TRUE]
ProcessMessage(c, r) ==
  \/ r.type = "exec" /\ StartExec(r.id)
  \/ /\ r.type # "exec" /\ UNCHANGED cmd
     /\ IF r.type # "shutdown" THEN UNCHANGED running ELSE IF program = "daemon.c" THEN IpcShutdown ELSE Shutdown
     /\ LET answer == CASE r.type = "config" -> "config_ack" [] r.type = "health" -> "health"
                        [] r.type = "shutdown" -> "shutdown_ack" [] OTHER -> "error"
        IN SendResponse(c, answer, r.id, TRUE, "messages")

\* The messages that are complete, one after the other; the rest of the buffer is moved to its start.
ConsumedAll(buf, n) == <<>>
Consumed(buf, n) == SubSeq(buf, n + 1, Len(buf))
Messages ==
  /\ at = "messages"
  /\ LET buf == clients[slot].buf ends == {k \in DOMAIN buf : buf[k].last} IN
     IF ends = {} THEN at' = "clients" /\ slot' = 0 /\ UNCHANGED <<told, clients, running, cmd>>
     ELSE /\ clients' = [clients EXCEPT ![slot].buf = Consumed(buf, Min(ends))]
          /\ ProcessMessage(clients[slot].fd, TypeOf(SubSeq(buf, 1, Min(ends)))) /\ UNCHANGED slot
  /\ UNCHANGED <<program, conn, traffic, sent, stream, ready>>

------------------------------------------------------------------------------
(* handle_exec(), after its fork()                                           *)

ExecUnchanged == UNCHANGED <<program, conn, traffic, sent, stream, clients, ready, slot>>
GoesOn == ~cmd.done \/ cmd.open = {"stdout", "stderr"}
\* Its select() may end with nothing to read (it waits for 100 ms); daemon.c has no such loop, it waits for the child.
ExecSelect ==
  /\ at = "exec" /\ program = "doki-proot"
  /\ IF GoesOn THEN /\ at' = "stdout"
                    /\ cmd' = [cmd EXCEPT !.seen = {s \in cmd.open : cmd.pipe[s] > 0 \/ ~cmd.alive}]
     ELSE at' = "exited" /\ UNCHANGED cmd
  /\ ExecUnchanged /\ UNCHANGED <<told, running>>

\* read() takes up to 4095 bytes, and the answer that holds these many does not fit send_response()'s buffer.
READ == 2
ReadPipe(s, next) ==
  /\ at = s
  /\ IF s \notin cmd.seen THEN at' = next /\ UNCHANGED <<told, cmd>>
     ELSE IF cmd.pipe[s] = 0 THEN at' = next /\ cmd' = [cmd EXCEPT !.open = @ \ {s}] /\ UNCHANGED told
     ELSE LET n == IF cmd.pipe[s] < READ THEN cmd.pipe[s] ELSE READ IN
          /\ cmd' = [cmd EXCEPT !.pipe[s] = @ - n]
          /\ SendResponse(clients[slot].fd, s, cmd.id, n < READ, next)
  /\ ExecUnchanged /\ UNCHANGED running
Reap ==
  /\ at = "reap" /\ at' = "exec" /\ cmd' = [cmd EXCEPT !.done = ~cmd.alive]
  /\ ExecUnchanged /\ UNCHANGED <<told, running>>
\* daemon.c's child writes on the daemon's own stdout: waitpid() is all there is.
IpcReap ==
  /\ at = "exec" /\ program = "daemon.c" /\ ~cmd.alive /\ at' = "exited" /\ UNCHANGED cmd
  /\ ExecUnchanged /\ UNCHANGED <<told, running>>

\* The arguments of the command are freed as elements of cmd, and again as elements of argv.
FreeArguments ==
  IF program = "daemon.c" THEN {"messages"} ELSE {IF o = "aborts" THEN "dead" ELSE "messages" : o \in FreesTwice}
Exited ==
  /\ at = "exited" /\ \E next \in FreeArguments : SendResponse(clients[slot].fd, "exit", cmd.id, TRUE, next)
  /\ cmd' = NoCommand /\ ExecUnchanged /\ UNCHANGED running

------------------------------------------------------------------------------
(* The clients, the command, and the system administrator                    *)

Connect(c) ==
  /\ conn[c] = "away" /\ conn' = [conn EXCEPT ![c] = "backlog"]
  /\ UNCHANGED <<program, traffic, sent, stream, told, clients, ready, running, at, slot, cmd>>
Send(c) ==
  /\ conn[c] \in {"backlog", "served"} /\ sent[c] < Len(traffic[c])
  /\ sent' = [sent EXCEPT ![c] = @ + 1] /\ stream' = [stream EXCEPT ![c] = Append(@, traffic[c][sent'[c]])]
  /\ UNCHANGED <<program, conn, traffic, told, clients, ready, running, at, slot, cmd>>
Quiet(c) == sent[c] = Len(traffic[c]) /\ stream[c] = <<>> /\ \A i \in Slots : clients[i].fd = c => i # slot
Leave(c) ==
  /\ conn[c] = "served" /\ (Leaves \/ Quiet(c))
  /\ conn' = [conn EXCEPT ![c] = "left"]
  /\ UNCHANGED <<program, traffic, sent, stream, told, clients, ready, running, at, slot, cmd>>
Write(s) ==
  /\ cmd.alive /\ cmd.rest[s] > 0 /\ cmd' = [cmd EXCEPT !.rest[s] = @ - 1, !.pipe[s] = @ + 1]
  /\ UNCHANGED <<program, conn, traffic, sent, stream, told, clients, ready, running, at, slot>>
CommandEnds ==
  /\ cmd.alive /\ \A s \in {"stdout", "stderr"} : cmd.rest[s] = 0
  /\ cmd' = [cmd EXCEPT !.alive = FALSE]
  /\ UNCHANGED <<program, conn, traffic, sent, stream, told, clients, ready, running, at, slot>>
\* SIGTERM ends the loop at its next turn; it also interrupts the select() of handle_exec(), which then gives up on the
\* command, and says that it has ended.
Terminate ==
  /\ Signals /\ program = "doki-proot" /\ running /\ running' = FALSE
  /\ at' = IF at = "exec" /\ GoesOn THEN "exited" ELSE at
  /\ UNCHANGED <<program, conn, traffic, sent, stream, told, clients, ready, slot, cmd>>

DaemonInit ==
  /\ program \in Programs /\ conn = [c \in Clients |-> "away"] /\ traffic \in [Clients -> Traffics]
  /\ sent = [c \in Clients |-> 0] /\ stream = [c \in Clients |-> <<>>] /\ told = [c \in Clients |-> <<>>] /\ clients = [i \in Slots |-> Free]
  /\ ready = {} /\ running = TRUE /\ at = "select" /\ slot = 0 /\ cmd = NoCommand

DaemonNext ==
  \/ Select \/ Accept \/ Receive \/ Messages
  \/ ExecSelect \/ ReadPipe("stdout", "stderr") \/ ReadPipe("stderr", "reap") \/ Reap \/ IpcReap \/ Exited
  \/ (\E c \in Clients : Connect(c)) \/ (\E c \in Clients : Send(c)) \/ (\E c \in Clients : Leave(c))
  \/ (\E s \in {"stdout", "stderr"} : Write(s)) \/ CommandEnds \/ Terminate

DaemonSpec == DaemonInit /\ [][DaemonNext]_daemonVars

------------------------------------------------------------------------------
(* Properties                                                                *)

Streamed == {"stdout", "stderr"}
Requests(c) == SelectSeq(FlattenSeq(SubSeq(traffic[c], 1, sent[c])), LAMBDA p : p.last)
Fits(c) == Len(FlattenSeq(traffic[c])) < BUFFER_SIZE

\* README.md:19 "newline-delimited JSON": however a client's requests were cut into chunks or sent together, and
\* whatever other clients do, each one is answered once, in the order they were sent, the output of a command before
\* its end, when the daemon is back in select() with nothing left to read.
AnsweredInOrder ==
  at = "select" /\ running =>
    \A c \in Clients : conn[c] = "served" /\ stream[c] = <<>> /\ Fits(c) =>
      LET ids(s) == [i \in DOMAIN s |-> s[i].id] IN
      /\ ids(SelectSeq(told[c], LAMBDA r : r.type \notin Streamed)) = ids(Requests(c))
      /\ \A i, j \in DOMAIN told[c] : i < j =>
           \/ told[c][i].id < told[c][j].id
           \/ told[c][i].id = told[c][j].id /\ told[c][i].type \in Streamed

\* "streaming stdout/stderr back" (doki-proot-main.c:168): when the end of a command is told, all of its output was.
OutputTold == at = "exited" /\ running => \A s \in Streamed : cmd.rest[s] = 0 /\ cmd.pipe[s] = 0

\* Each answer is a line by itself.
LinesWhole == \A c \in Clients : \A i \in DOMAIN told[c] : told[c][i].line

\* Once a shutdown was acknowledged, the daemon does not wait for requests any more.
ShutdownStops == at = "select" /\ running => \A c \in Clients : \A i \in DOMAIN told[c] : told[c][i].type # "shutdown_ack"

\* Nothing that a client or a command does ends the daemon.
DaemonSurvives == at # "dead"
==============================================================================
