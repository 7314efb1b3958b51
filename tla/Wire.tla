-------------------------------- MODULE Wire --------------------------------
(***************************************************************************)
(* The TLS connections between one client and one server, as the code in   *)
(* peer/ uses them (crypto/tls and the network are not part of the         *)
(* repository).  A connection is a pair of FIFO streams.  Writing to a     *)
(* connection may succeed locally although nobody will ever read the       *)
(* bytes; cutting a connection loses an arbitrary end of what was under    *)
(* way in each direction; either side may hang up at any time.             *)
(*                                                                         *)
(* What the client sends is a log entry, named by a positive number, or    *)
(* Ping: two zero bytes.  What the server sends is one byte, named by the  *)
(* respType it encodes; a pong is the byte 1, which is respAckOK.          *)
(***************************************************************************)
EXTENDS Integers, Sequences, SequencesExt

CONSTANTS MaxConns,  \* bound: connections that are ever opened
          Faults     \* what may go wrong: a subset of PossibleFaults

PossibleFaults == {"cut",       \* the network cuts a connection
                   "refuse",    \* the server refuses a handshake
                   "reject",    \* the server fails to process an entry
                   "idle",      \* ClientTimeout expires at the server
                   "timeout",   \* ServerAckTimeout expires at the client
                   "dial",      \* a dial fails
                   "protocol"}  \* a dial negotiates another protocol

ASSUME WireAssumption ==
    /\ MaxConns \in Nat
    /\ Faults \subseteq PossibleFaults

NoConn    == 0
Conns     == 1..MaxConns
Ping      == 0
Responses == {"NOK", "OK"}

VARIABLES opened,      \* how many connections were opened so far
          clientOpen,  \* connections the client has not closed
          serverOpen,  \* connections the server has not closed
          cut,         \* connections the network has cut
          c2s,         \* per connection, what the server has yet to read
          s2c          \* per connection, what the client has yet to read

wireVars == <<opened, clientOpen, serverOpen, cut, c2s, s2c>>

WireInit ==
    /\ opened = 0
    /\ clientOpen = {}
    /\ serverOpen = {}
    /\ cut = {}
    /\ c2s = [k \in Conns |-> <<>>]
    /\ s2c = [k \in Conns |-> <<>>]

WireTypeOK ==
    /\ opened \in 0..MaxConns
    /\ clientOpen \subseteq 1..opened
    /\ serverOpen \subseteq 1..opened
    /\ cut \subseteq 1..opened
    /\ c2s \in [Conns -> Seq(Nat)]
    /\ s2c \in [Conns -> Seq(Responses)]

----------------------------------------------------------------------------
(* The next connection is opened, and its number.                          *)
NewConn == opened + 1

FaultyOpenLosesCount ==
    /\ opened < MaxConns
    /\ clientOpen' = clientOpen \cup {NewConn}
    /\ serverOpen' = serverOpen \cup {NewConn}
    /\ UNCHANGED <<opened, cut, c2s, s2c>>

Open ==
    /\ opened < MaxConns
    /\ opened' = NewConn
    /\ clientOpen' = clientOpen \cup {NewConn}
    /\ serverOpen' = serverOpen \cup {NewConn}
    /\ UNCHANGED <<cut, c2s, s2c>>

(* Write returned nil at the client's, at the server's end.                *)
ClientWrites(k, m) ==
    /\ k \in clientOpen
    /\ c2s' = IF k \in serverOpen \ cut THEN [c2s EXCEPT ![k] = Append(@, m)] ELSE c2s
    /\ UNCHANGED <<opened, clientOpen, serverOpen, cut, s2c>>

ServerWrites(k, r) ==
    /\ k \in serverOpen
    /\ s2c' = IF k \in clientOpen \ cut THEN [s2c EXCEPT ![k] = Append(@, r)] ELSE s2c
    /\ UNCHANGED <<opened, clientOpen, serverOpen, cut, c2s>>

(* Write may return an error: this side has closed, or TCP has noticed     *)
(* that the other side is gone.                                            *)
ClientWriteMayFail(k) == k \notin clientOpen \/ k \notin serverOpen \/ k \in cut

(* Read returned one message, one byte.                                    *)
ServerReads(k) ==
    /\ k \in serverOpen /\ c2s[k] # <<>>
    /\ c2s' = [c2s EXCEPT ![k] = Tail(@)]
    /\ UNCHANGED <<opened, clientOpen, serverOpen, cut, s2c>>

ClientReads(k) ==
    /\ k \in clientOpen /\ s2c[k] # <<>>
    /\ s2c' = [s2c EXCEPT ![k] = Tail(@)]
    /\ UNCHANGED <<opened, clientOpen, serverOpen, cut, c2s>>

(* Read returns an error: this side has closed, or everything was read and *)
(* the other side is gone.                                                 *)
ClientReadFails(k) ==
    k \notin clientOpen \/ (s2c[k] = <<>> /\ (k \notin serverOpen \/ k \in cut))

ServerReadFails(k) == c2s[k] = <<>> /\ (k \notin clientOpen \/ k \in cut)

(* Close: what this side had yet to read is gone, what it wrote is not.    *)
ClientHangsUp(k) ==
    /\ clientOpen' = clientOpen \ {k}
    /\ s2c' = [s2c EXCEPT ![k] = <<>>]
    /\ UNCHANGED <<opened, serverOpen, cut, c2s>>

ServerHangsUp(k) ==
    /\ serverOpen' = serverOpen \ {k}
    /\ c2s' = [c2s EXCEPT ![k] = <<>>]
    /\ UNCHANGED <<opened, clientOpen, cut, s2c>>

(* The network cuts a connection.                                          *)
Cut(k) ==
    /\ "cut" \in Faults
    /\ k \in (clientOpen \cup serverOpen) \ cut
    /\ cut' = cut \cup {k}
    /\ \E p \in Prefixes(c2s[k]), q \in Prefixes(s2c[k]) :
          /\ c2s' = [c2s EXCEPT ![k] = p]
          /\ s2c' = [s2c EXCEPT ![k] = q]
    /\ UNCHANGED <<opened, clientOpen, serverOpen>>
============================================================================
