------------------------------- MODULE ClientTcp -------------------------------
(***************************************************************************)
(* A TCP rule of the client (gr-client forwarder.rs, run_tcp_rule).        *)
(*                                                                         *)
(* A listener accepts local connections; each gets a task that copies the  *)
(* program's bytes into frames, a chunk per read, and one that writes what *)
(* frames of the bridge hold back to the program.                          *)
(***************************************************************************)
EXTENDS Naturals, Sequences

CONSTANTS
    MaxConns,  \* bound: local connections
    MaxChunks, \* bound: chunks read from one connection
    MaxHeard,  \* bound: frames written to one connection
    None

Conns == 1 .. MaxConns

\* Variant: one key pair and connection id for the rule.
KeyOf_PerRule(c) == 1

\* open_tunnel: every connection has a socket, a connection id and a key pair of
\* its own, named by the number of the connection.
KeyOf(c) == c

Keys == Conns

SynFrame  == [kind : {"syn"}, skey : Keys, aead : Keys]
DataFrame == [kind : {"data"}, skey : Keys, aead : Keys, seq : Nat]

ASSUME ClientAssumption ==
    /\ MaxConns \in Nat /\ MaxChunks \in Nat /\ MaxHeard \in Nat
    /\ None \notin SynFrame
    /\ None \notin Conns

VARIABLES
    listening,   \* the rule's accept loop goes on
    copier,      \* handle_tcp_local of each connection
    writer,      \* its recv_task
    aborted,     \* recv_task.abort was called
    tx_sequence,
    read,        \* history: chunks read from the program
    upWire,      \* frames sent to the bridge
    sealed,      \* history: what each frame carries (chunk 0: the SYN)
    holding,     \* the frame recv_task is writing
    heard        \* history: frames written to the program

clientVars == <<listening, copier, writer, aborted, tx_sequence, read, upWire, sealed,
                holding, heard>>

ClientInit ==
    /\ listening = TRUE
    /\ copier = [c \in Conns |-> "none"]
    /\ writer = [c \in Conns |-> "none"]
    /\ aborted = [c \in Conns |-> FALSE]
    /\ tx_sequence = [c \in Conns |-> 0]
    /\ read = [c \in Conns |-> 0]
    /\ upWire = {}
    /\ sealed = {}
    /\ holding = [c \in Conns |-> None]
    /\ heard = [c \in Conns |-> <<>>]

-----------------------------------------------------------------------------
(* The listener *)

Accept(c) ==
    /\ listening
    /\ copier[c] = "none"
    /\ \A d \in 1 .. c - 1 : copier[d] # "none"
    /\ copier' = [copier EXCEPT ![c] = "opening"]
    /\ UNCHANGED <<listening, writer, aborted, tx_sequence, read, upWire, sealed, holding,
                   heard>>

\* The error ends the accept loop, and with it the rule; connections go on.
AcceptFails ==
    /\ listening
    /\ listening' = FALSE
    /\ UNCHANGED <<copier, writer, aborted, tx_sequence, read, upWire, sealed, holding, heard>>

-----------------------------------------------------------------------------
(* handle_tcp_local *)

\* open_tunnel sends the SYN; recv_task is spawned.
OpenTunnel(c) ==
    /\ copier[c] = "opening"
    /\ copier' = [copier EXCEPT ![c] = "reading"]
    /\ writer' = [writer EXCEPT ![c] = "running"]
    /\ upWire' = upWire \cup {[kind |-> "syn", skey |-> KeyOf(c), aead |-> KeyOf(c)]}
    /\ sealed' = sealed \cup {[key |-> KeyOf(c), seq |-> 0, conn |-> c, chunk |-> 0]}
    /\ UNCHANGED <<listening, aborted, tx_sequence, read, holding, heard>>

OpenFails(c) ==
    /\ copier[c] = "opening"
    /\ copier' = [copier EXCEPT ![c] = "ended"]
    /\ UNCHANGED <<listening, writer, aborted, tx_sequence, read, upWire, sealed, holding,
                   heard>>

\* The number of the next frame; a chunk is never longer than a frame may be.
NextChunk(c) ==
    /\ copier[c] = "reading"
    /\ read[c] < MaxChunks
    /\ read' = [read EXCEPT ![c] = @ + 1]
    /\ tx_sequence' = [tx_sequence EXCEPT ![c] = @ + 1]

ReadChunk(c) ==
    /\ NextChunk(c)
    /\ upWire' = upWire \cup
          {[kind |-> "data", skey |-> KeyOf(c), aead |-> KeyOf(c), seq |-> tx_sequence[c] + 1]}
    /\ sealed' = sealed \cup
          {[key |-> KeyOf(c), seq |-> tx_sequence[c] + 1, conn |-> c, chunk |-> read[c] + 1]}
    /\ UNCHANGED <<listening, copier, writer, aborted, holding, heard>>

\* The send's error leaves the function before recv_task.abort: recv_task stays.
SendFails(c) ==
    /\ NextChunk(c)
    /\ copier' = [copier EXCEPT ![c] = "failed"]
    /\ UNCHANGED <<listening, writer, aborted, upWire, sealed, holding, heard>>

\* Variant: recv_task is dropped, which detaches it.
LocalEnds_Detaches(c) ==
    /\ copier[c] = "reading"
    /\ copier' = [copier EXCEPT ![c] = "ended"]
    /\ UNCHANGED <<listening, writer, aborted, tx_sequence, read, upWire, sealed, holding,
                   heard>>

\* End of file (or of the program's half of the connection), or a read error.
LocalEnds(c) ==
    /\ copier[c] = "reading"
    /\ copier' = [copier EXCEPT ![c] = "ended"]
    /\ aborted' = [aborted EXCEPT ![c] = TRUE]
    /\ UNCHANGED <<listening, writer, tx_sequence, read, upWire, sealed, holding, heard>>

-----------------------------------------------------------------------------
(* recv_task *)

\* A frame w at the socket opens under the connection's key.
TakeFrame(c, w) ==
    /\ writer[c] = "running"
    /\ w.skey = KeyOf(c)
    /\ w.aead = KeyOf(c)
    /\ writer' = [writer EXCEPT ![c] = "writing"]
    /\ holding' = [holding EXCEPT ![c] = w]
    /\ UNCHANGED <<listening, copier, aborted, tx_sequence, read, upWire, sealed, heard>>

\* Variant: the frame is kept for another write.
Write_Keeps(c) ==
    /\ writer[c] = "writing"
    /\ Len(heard[c]) < MaxHeard
    /\ writer' = [writer EXCEPT ![c] = "running"]
    /\ heard' = [heard EXCEPT ![c] = Append(@, holding[c])]
    /\ UNCHANGED <<listening, copier, aborted, tx_sequence, read, upWire, sealed, holding>>

Write(c) ==
    /\ writer[c] = "writing"
    /\ Len(heard[c]) < MaxHeard
    /\ writer' = [writer EXCEPT ![c] = "running"]
    /\ heard' = [heard EXCEPT ![c] = Append(@, holding[c])]
    /\ holding' = [holding EXCEPT ![c] = None]
    /\ UNCHANGED <<listening, copier, aborted, tx_sequence, read, upWire, sealed>>

WriterEnds(c) ==
    /\ writer' = [writer EXCEPT ![c] = "ended"]
    /\ holding' = [holding EXCEPT ![c] = None]
    /\ UNCHANGED <<listening, copier, aborted, tx_sequence, read, upWire, sealed, heard>>

\* A write error, or a receive error (a bridge that is down refuses the port): the
\* task returns, and the copier is not told.
WriterFails(c) ==
    /\ writer[c] \in {"running", "writing"}
    /\ WriterEnds(c)

\* The runtime drops the task at an await, a write in progress included.
AbortTakes(c) ==
    /\ aborted[c]
    /\ writer[c] \in {"running", "writing"}
    /\ WriterEnds(c)

\* Every step but TakeFrame, which takes a frame from the network.
ConnStep(c) ==
    \/ Accept(c) \/ OpenTunnel(c) \/ OpenFails(c)
    \/ ReadChunk(c) \/ SendFails(c) \/ LocalEnds(c)
    \/ Write(c) \/ WriterFails(c) \/ AbortTakes(c)

ClientNext == AcceptFails \/ \E c \in Conns : ConnStep(c)
===============================================================================
