------------------------------ MODULE RingNet ------------------------------
(***************************************************************************)
(* The wires between the engine's three parties (engine/src/net.rs).       *)
(* Each party has a duplex link to its next and its previous neighbour.    *)
(* Within a process a wire is a channel: what is sent can be read, also    *)
(* after the sender is gone.  Over TCP a send only queues the message for  *)
(* the link's writer thread, which dies with the process.                  *)
(***************************************************************************)
EXTENDS Ring, Sequences

Links == {l \in Parties \X Parties : l[1] # l[2]}

VARIABLES
    transport,      \* "channel" within a process, "tcp" between processes
    queued,         \* link -> messages the writer thread has not written yet
    wire,           \* link -> messages written and not read yet
    gone,           \* parties that have dropped their wires
    reset           \* pairs of parties whose connection was reset

netVars == <<transport, queued, wire, gone, reset>>

NetInit(transports) ==
    /\ transport \in transports
    /\ queued = [l \in Links |-> << >>]
    /\ wire = [l \in Links |-> << >>]
    /\ gone = {} /\ reset = {}

NetTypeOK ==
    /\ transport \in {"channel", "tcp"}
    /\ DOMAIN queued = Links /\ DOMAIN wire = Links
    /\ gone \subseteq Parties
    /\ reset \subseteq SUBSET Parties

(* Mutant of Extended: the newest message is read first. *)
ExtendedInFront(links, l, m) == [links EXCEPT ![l] = <<m>> \o @]

(* m is added at the end of link l. *)
Extended(links, l, m) == [links EXCEPT ![l] = Append(@, m)]

Transmit(p, q, m) ==
    /\ IF transport = "tcp"
         THEN queued' = Extended(queued, <<p, q>>, m) /\ UNCHANGED wire
         ELSE wire' = Extended(wire, <<p, q>>, m) /\ UNCHANGED queued
    /\ UNCHANGED <<transport, gone, reset>>

(* Mutant of Write: the newest message is written first. *)
WriteNewest(l) ==
    /\ queued[l] # << >>
    /\ queued' = [queued EXCEPT ![l] = SubSeq(@, 1, Len(@) - 1)]
    /\ wire' = Extended(wire, l, queued[l][Len(queued[l])])
    /\ UNCHANGED <<transport, gone, reset>>

(* The writer thread of a link writes the next message.  A peer that has   *)
(* gone resets the connection.                                             *)
Write(l) ==
    /\ queued[l] # << >>
    /\ queued' = [queued EXCEPT ![l] = Tail(@)]
    /\ IF l[2] \in gone
         THEN reset' = reset \cup {{l[1], l[2]}} /\ UNCHANGED wire
         ELSE wire' = Extended(wire, l, Head(queued[l])) /\ UNCHANGED reset
    /\ UNCHANGED <<transport, gone>>

(* Party p reads the next message from q. *)
Readable(q, p) == wire[<<q, p>>] # << >>
Incoming(q, p) == Head(wire[<<q, p>>])
Read(q, p) ==
    /\ wire' = [wire EXCEPT ![<<q, p>>] = Tail(@)]
    /\ UNCHANGED <<transport, queued, gone, reset>>

(* Mutant of ReadFails: the end of a connection goes unnoticed. *)
ReadFailsOnReset(q, p) == q \in gone /\ {p, q} \in reset

(* A read fails once the sender is gone and nothing is left to read, or    *)
(* the connection was reset.  A send fails once the receiver is gone; over *)
(* TCP only after the writer has noticed.                                  *)
ReadFails(q, p) == q \in gone /\ (Readable(q, p) => {p, q} \in reset)
SendMayFail(q) == q \in gone
SendMayPass(q) == q \in gone => transport = "tcp"

(* Mutant of Leave: the wires outlive the party. *)
LeaveQuietly(p) == UNCHANGED netVars

(* Mutant of Leave: what was sent goes with the sender. *)
LeaveLosing(p) ==
    /\ gone' = gone \cup {p}
    /\ wire' = [l \in Links |-> IF p \in {l[1], l[2]} THEN << >> ELSE wire[l]]
    /\ UNCHANGED <<transport, queued, reset>>

(* A party drops its wires.  A process that ends takes its writer threads  *)
(* with it, and resets a connection it has not read to the end.            *)
Leave(p) ==
    /\ gone' = gone \cup {p}
    /\ queued' = [l \in Links |-> IF l[1] = p THEN << >> ELSE queued[l]]
    /\ wire' = [l \in Links |-> IF l[2] = p THEN << >> ELSE wire[l]]
    /\ reset' = IF transport = "tcp"
                  THEN reset \cup {{p, q} : q \in {r \in Parties \ {p} : wire[<<r, p>>] # << >>}}
                  ELSE reset
    /\ UNCHANGED transport

(* Three parties wired anew, in process. *)
Trio ==
    /\ transport = "channel"
    /\ wire' = [l \in Links |-> << >>]
    /\ gone' = {}
    /\ UNCHANGED <<transport, queued, reset>>
=============================================================================
