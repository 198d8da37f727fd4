---------------------------- MODULE ControlWire ----------------------------
(***************************************************************************)
(* The control connection between one client and one server: a TCP stream  *)
(* in each direction, read as control bytes (protocol.rs recv_state) and   *)
(* as framed messages (the cookie, the parameters, the results, the two    *)
(* error numbers that follow a SERVER_ERROR byte).                         *)
(*                                                                         *)
(* c2s and s2c hold what was written and not yet read.  cEnd and sEnd say  *)
(* what the peer of each side can learn about it:                          *)
(*   open   the socket is open                                             *)
(*   shut   its write half is shut (park_refused_round); it still reads    *)
(*   fin    it was closed and everything it had received was read          *)
(*   rst    it was closed with unread data, or was written to after it was *)
(*          closed: a read of the peer may fail hard and lose what was     *)
(*          queued                                                         *)
(***************************************************************************)
EXTENDS Naturals, Sequences, Negotiation

CONSTANTS Tests,       \* the tests a client may ask for
          MaxStreams,  \* bound on the data streams of a round
          Deadlines    \* the read deadlines of frames may expire

ASSUME TestsAssumption ==
    /\ Tests \subseteq TestRecords
    /\ MaxStreams \in Nat
    /\ Deadlines \in BOOLEAN
    /\ \A t \in Tests : Total(t) \in 1..MaxStreams

VARIABLES
    test,    \* what the client asks for, fixed for the round
    c2s,     \* client to server, written and unread
    s2c,     \* server to client, written and unread
    cEnd,    \* the client's end of the connection
    sEnd,    \* the server's end
    dialed   \* data connections the client has opened (they carry its cookie)

wireVars == <<test, c2s, s2c, cEnd, sEnd, dialed>>

\* The control bytes of TestState, and one that maps to none of them.
States == {"TestStart", "TestRunning", "TestEnd", "ParamExchange",
           "CreateStreams", "ServerTerminate", "ClientTerminate",
           "ExchangeResults", "DisplayResults", "IperfStart", "IperfDone",
           "AccessDenied", "ServerError"}
Unmapped == "Unmapped"

\* The error numbers the server relays behind a SERVER_ERROR byte.
Codes == {"E27", "E37", "E106", "E109", "E110", "E111", "E114", "E117",
          "E119", "E144", "E160", "E203"}

Frames == {"Cookie", "Params", "Results"}
Items  == States \cup {Unmapped} \cup Codes \cup Frames
Ends   == {"open", "shut", "fin", "rst"}

\* Fault: the numbers before the byte, and one number for every error.
RelaySwapped(code)  == <<code, "ServerError">>
RelayConstant(code) == <<"ServerError", "E37">>

\* send_server_error: the byte, then the two numbers.
Relay(code) == <<"ServerError", code>>

\* What a write does once it was accepted: it reaches an open socket, and a
\* closed one answers it with a reset sooner or later.
SServerSend(ms) ==
    IF cEnd = "open"
      THEN s2c' = s2c \o ms /\ UNCHANGED cEnd
      ELSE UNCHANGED s2c /\ cEnd' \in {cEnd, "rst"}

CClientSend(ms) ==
    IF sEnd \in {"open", "shut"}
      THEN c2s' = c2s \o ms /\ UNCHANGED sEnd
      ELSE UNCHANGED c2s /\ sEnd' \in {sEnd, "rst"}

\* A write can fail only when the peer is gone.
ServerSendCanFail == cEnd # "open"
ClientSendCanFail == sEnd \in {"fin", "rst"}

\* What the server can read: a byte or frame, the end, a hard error.
ServerSees(m)  == c2s # <<>> /\ Head(c2s) = m
ServerSeesEof  == c2s = <<>> /\ cEnd # "open"
ServerSeesRst  == cEnd = "rst"
ClientSees(m)  == s2c # <<>> /\ Head(s2c) = m
ClientSeesEof  == s2c = <<>> /\ sEnd # "open"
ClientSeesRst  == sEnd = "rst"

\* nread_exact gives up on a frame that does not come (10 s of silence, 30 s
\* in all); a read of a control byte has no deadline.
ServerTimesOut == Deadlines /\ c2s = <<>>
ClientTimesOut == Deadlines /\ s2c = <<>>

\* Closing a socket with unread data resets the connection; what was unread
\* is gone either way.
ClosedEnd(unread) == IF unread # <<>> THEN "rst" ELSE "fin"

WireTypeOK ==
    /\ test \in Tests
    /\ c2s \in Seq(Items)
    /\ s2c \in Seq(Items)
    /\ cEnd \in Ends
    /\ sEnd \in Ends
    /\ dialed \in Nat

WireInit ==
    /\ test \in Tests
    /\ c2s = <<>>
    /\ s2c = <<>>
    /\ cEnd = "open"
    /\ sEnd = "open"
    /\ dialed = 0
============================================================================
