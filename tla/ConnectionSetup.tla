--------------------------- MODULE ConnectionSetup ---------------------------
(***************************************************************************)
(* KineticConnectionFactory::doNewConnection                               *)
(* (src/main/kinetic_connection_factory.cc): a SocketWrapper is made and   *)
(* connected (src/main/socket_wrapper.cc), then the receiver's constructor *)
(* waits for the drive's greeting.  Whatever fails makes the factory       *)
(* return an error; what had been opened until then must be closed by the  *)
(* code that fails, or by the destructors of what is already constructed.  *)
(***************************************************************************)
EXTENDS Integers

CONSTANT MaxAddresses   \* bound: the addresses a host name has

ASSUME AddressesAssumption == MaxAddresses \in Nat

VARIABLES
    step,      \* where doNewConnection is
    tls,       \* options.use_ssl
    left,      \* the addresses not tried yet; also names the current one
    socketFd,  \* socket_fd of Connect: the address it is for, or 0
    fd,        \* fd_, 0 for -1
    peer,      \* external: what there is to read
    held       \* ghost: what was allocated or opened and not released

setupVars == <<step, tls, left, socketFd, fd, peer, held>>

Addresses == 1 .. MaxAddresses

(* What can be held: a socket, by its address, and three objects.          *)
Socket(a) == [what |-> "socket", of |-> a]
Context == [what |-> "context", of |-> 0]
Session == [what |-> "session", of |-> 0]
Reader  == [what |-> "reader", of |-> 0]
Resources == {Context, Session, Reader} \cup {Socket(a) : a \in Addresses}

(* A failed setup ends in one of three ways.                               *)
Failures == {"wrapperThrew", "notConnected", "receiverThrew"}
Steps == Failures \cup {"start", "resolve", "address", "socket", "handshake",
                        "receiver", "greeting", "open", "gone"}

SetupInit ==
    /\ step = "start"
    /\ tls \in BOOLEAN
    /\ left = 0 /\ socketFd = 0 /\ fd = 0
    /\ peer = "silent"
    /\ held = {}

-----------------------------------------------------------------------------
(* SocketWrapper's constructor and destructor.  What a constructor that    *)
(* throws has allocated, no destructor frees.                              *)
ConstructWrapper ==
    /\ step = "start"
    /\ \/ ~tls /\ step' = "resolve" /\ UNCHANGED held
       \/ tls /\ step' = "resolve" /\ held' = {Context, Session}
       \/ tls /\ step' = "wrapperThrew" /\ held' \in {{}, {Context}}
    /\ UNCHANGED <<tls, left, socketFd, fd, peer>>

DestroyWrapper == held' = held \ {Context, Session, Socket(fd)}

Fail(how) == step' = how /\ DestroyWrapper

(* Connect: the addresses one after the other, until one accepts.          *)
Resolve ==
    /\ step = "resolve"
    /\ \/ Fail("notConnected") /\ UNCHANGED left
       \/ step' = "address" /\ left' \in Addresses /\ UNCHANGED held
    /\ UNCHANGED <<tls, socketFd, fd, peer>>

\* getnameinfo or socket fails.
SkipAddress ==
    /\ step = "address" /\ left > 0
    /\ left' = left - 1
    /\ UNCHANGED <<step, tls, socketFd, fd, peer, held>>

OpenSocket ==
    /\ step = "address" /\ left > 0
    /\ step' = "socket" /\ socketFd' = left /\ held' = held \cup {Socket(left)}
    /\ UNCHANGED <<tls, left, fd, peer>>

\* Seeded fault: the loop goes on without closing the socket.
AbandonSocket ==
    /\ step = "socket"
    /\ step' = "address" /\ left' = left - 1
    /\ UNCHANGED <<tls, socketFd, fd, peer, held>>

\* fcntl, connect or O_NONBLOCK fails.
DropSocket ==
    /\ step = "socket"
    /\ step' = "address" /\ left' = left - 1 /\ held' = held \ {Socket(socketFd)}
    /\ UNCHANGED <<tls, socketFd, fd, peer>>

KeepSocket ==
    /\ step = "socket"
    /\ fd' = socketFd
    /\ step' = IF tls THEN "handshake" ELSE "receiver"
    /\ UNCHANGED <<tls, left, socketFd, peer, held>>

NoAddressLeft ==
    /\ step = "address" /\ left = 0
    /\ Fail("notConnected")
    /\ UNCHANGED <<tls, left, socketFd, fd, peer>>

(* ConnectSSL: as long as the peer is silent, SSL_connect is tried again   *)
(* after every second, without end.                                        *)
ConnectSSL ==
    /\ step = "handshake" /\ peer \in {"stray", "heard"}
    /\ \/ step' = "receiver" /\ UNCHANGED held
       \/ Fail("notConnected")
    /\ UNCHANGED <<tls, left, socketFd, fd, peer>>

-----------------------------------------------------------------------------
(* NonblockingReceiver's constructor.                                      *)

StartReader ==
    /\ step = "receiver"
    /\ step' = "greeting" /\ held' = held \cup {Reader}
    /\ UNCHANGED <<tls, left, socketFd, fd, peer>>

(* A packet that answers nobody is skipped.                                *)
SkipStray ==
    /\ step = "greeting" /\ peer = "stray"
    /\ step' = "receiver" /\ held' = held \ {Reader}
    /\ peer' = "quiet"
    /\ UNCHANGED <<tls, left, socketFd, fd>>

(* The greeting, or a packet that is damaged or reports an error.          *)
ReadGreeting ==
    /\ step = "greeting" /\ peer = "heard"
    /\ \/ step' = "open" /\ held' = held \ {Reader}
       \/ step' = "receiverThrew"
          /\ held' = held \ {Reader, Context, Session, Socket(fd)}
    /\ UNCHANGED <<tls, left, socketFd, fd, peer>>

(* Reading fails, or 30 seconds have passed.                               *)
NoGreeting ==
    /\ step = "greeting"
    /\ Fail("receiverThrew")
    /\ UNCHANGED <<tls, left, socketFd, fd, peer>>

(* Bound: one stray packet, as Receive reads on while there are any.       *)
PeerActs ==
    /\ fd # 0
    /\ \/ peer = "silent" /\ peer' \in {"stray", "heard"}
       \/ peer = "quiet" /\ peer' = "heard"
    /\ UNCHANGED <<step, tls, left, socketFd, fd, held>>

(* The connection and with it the receiver and the wrapper go.             *)
Release ==
    /\ step = "open"
    /\ step' = "gone"
    /\ DestroyWrapper
    /\ UNCHANGED <<tls, left, socketFd, fd, peer>>

SetupStep == ConstructWrapper \/ Resolve \/ SkipAddress \/ OpenSocket
             \/ DropSocket \/ KeepSocket \/ NoAddressLeft \/ ConnectSSL
             \/ StartReader \/ SkipStray \/ ReadGreeting \/ NoGreeting

-----------------------------------------------------------------------------
SetupTypeOK ==
    /\ step \in Steps
    /\ tls \in BOOLEAN
    /\ left \in 0 .. MaxAddresses
    /\ socketFd \in 0 .. MaxAddresses /\ fd \in {0, socketFd}
    /\ peer \in {"silent", "stray", "quiet", "heard"}
    /\ held \subseteq Resources

\* A connection holds its own descriptor and TLS session and nothing else, and
\* one that is gone or was never made holds nothing -- but for two objects: an
\* SSL context whose session could not be made (the constructor of
\* SocketWrapper throws), and the packet reader of a greeting that did not
\* arrive (the constructor of NonblockingReceiver throws).
OnlyKnownLeaks ==
    /\ step \in {"open", "handshake", "receiver"} =>
          held = {Socket(fd)} \cup (IF tls THEN {Context, Session} ELSE {})
    /\ step \in {"notConnected", "gone"} => held = {}
    /\ step = "wrapperThrew"  => held \subseteq {Context}
    /\ step = "receiverThrew" => held \subseteq {Reader}
=============================================================================
