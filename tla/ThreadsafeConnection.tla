------------------------ MODULE ThreadsafeConnection ------------------------
(***************************************************************************)
(* ThreadsafeNonblockingKineticConnection and                              *)
(* ThreadsafeBlockingKineticConnection                                     *)
(* (src/main/threadsafe_*_kinetic_connection.cc): a connection of the      *)
(* factory used by several threads.  Every call locks mutex_, which is     *)
(* recursive, for as long as it runs: callbacks run under the lock and may *)
(* call again, and a blocking operation keeps the lock while it waits for  *)
(* its answer.  The iterator that IterateKeyRange returns knows nothing of *)
(* the lock: it fetches its later frames from the connection inside.       *)
(*                                                                         *)
(* A thread's stack holds the calls it is in, the last one on top; under   *)
(* the top there are only calls whose callback made the next one.          *)
(***************************************************************************)
EXTENDS ConnectionSetup, Sequences, FiniteSets

CONSTANTS
    Threads,
    NoThread,
    Used,            \* bound: the calls that threads make
    MaxCalls,        \* bound: how many
    MaxFrames,       \* bound: the frames an iterator fetches
    IteratorsAlone   \* whether an iterator only fetches frames while no other
                     \* thread is in a call

(* The calls that submit a request: of the nonblocking class, then of the  *)
(* blocking one, in which they also wait for the answer.  Each calls the   *)
(* method of its name of the connection inside, but for the SecureErase of *)
(* the blocking class, which calls InstantErase; to the lock it is all one.*)
Reads       == {"NoOp", "Get", "GetNext", "GetPrevious", "GetVersion", "GetKeyRange"}
Writes      == {"Put", "Delete", "InstantErase", "SecureErase"}
DeviceCalls == {"SetClusterVersion", "GetLog", "Flush", "UpdateFirmware", "SetACLs",
                "SetErasePIN", "LockDevice", "UnlockDevice", "SetLockPIN", "P2PPush",
                "MediaScan", "MediaOptimize"}
Submits     == Reads \cup Writes \cup DeviceCalls

DataOperations   == {"NoOp", "Get", "Put", "Delete", "InstantErase", "SecureErase"}
DeviceOperations == {"SetClusterVersion", "GetLog", "Flush", "UpdateFirmware", "SetACLs",
                     "SetErasePIN", "SetLockPIN", "LockDevice", "UnlockDevice"}
ReadOperations   == {"GetNext", "GetPrevious", "GetVersion"}
RangeOperations  == {"GetKeyRange", "IterateKeyRange", "P2PPush", "MediaScan",
                     "MediaOptimize"}
Operations == DataOperations \cup DeviceOperations \cup ReadOperations
              \cup RangeOperations \cup {"nextFrame"}

Kinds == {"nonblocking", "blocking"}

Offers(kind) ==
    {"SetClientClusterVersion"}
    \cup IF kind = "blocking" THEN Operations \ {"nextFrame"}
                              ELSE Submits \cup {"Run", "RemoveHandler"}

ASSUME ThreadsAssumption ==
    /\ NoThread \notin Threads
    /\ Used \subseteq Offers("blocking") \cup Offers("nonblocking")
    /\ MaxCalls \in Nat /\ MaxFrames \in Nat /\ IteratorsAlone \in BOOLEAN

VARIABLES
    kind,       \* which of the two classes
    owner,      \* of mutex_
    depth,      \* how often the owner has locked it
    stack,      \* the calls each thread is in
    waiting,    \* callbacks registered and not called or removed
    frames,     \* how many frames a thread's iterator will still fetch
    calls       \* calls made

threadVars == <<kind, owner, depth, stack, waiting, frames, calls>>
vars       == <<setupVars, threadVars>>

Places == {"lock", "inside", "waiting", "callback", "leave"}

Init ==
    /\ SetupInit
    /\ kind \in Kinds
    /\ owner = NoThread /\ depth = 0
    /\ stack = [t \in Threads |-> << >>]
    /\ waiting = 0
    /\ frames = [t \in Threads |-> 0]
    /\ calls = 0

-----------------------------------------------------------------------------
Idle(t)   == stack[t] = << >>
Top(t)    == stack[t][Len(stack[t])]
At(t, p)  == ~Idle(t) /\ Top(t).at = p
In(t, cs) == Top(t).call \in cs

Goto(t, p) == stack' = [stack EXCEPT ![t][Len(stack[t])].at = p]
Push(t, call, place) ==
    stack' = [stack EXCEPT ![t] = Append(@, [call |-> call, at |-> place])]
Pop(t) == stack' = [stack EXCEPT ![t] = SubSeq(@, 1, Len(@) - 1)]

(* Whether a call of a thread would meet an iterator that fetches a frame. *)
Fetching(t) == ~Idle(t) /\ Top(t).call = "nextFrame"
Others(t)   == Threads \ {t}

Call(t, call) ==
    /\ step = "open" /\ calls < MaxCalls
    /\ call \in Used \cap Offers(kind)
    /\ \/ Idle(t)
       \/ At(t, "callback") /\ call # "Run"
    /\ IteratorsAlone => \A o \in Others(t) : ~Fetching(o)
    /\ Push(t, call, "lock") /\ calls' = calls + 1
    /\ UNCHANGED <<setupVars, kind, owner, depth, waiting, frames>>

\* Seeded faults: the mutex is not recursive; a method has no guard.
LockOnce(t) ==
    /\ At(t, "lock") /\ owner = NoThread
    /\ owner' = t /\ depth' = depth + 1 /\ Goto(t, "inside")
    /\ UNCHANGED <<setupVars, kind, waiting, frames, calls>>

LockForgotten(t) ==
    /\ At(t, "lock")
    /\ IF In(t, {"SetClientClusterVersion"}) THEN UNCHANGED <<owner, depth>>
       ELSE owner \in {NoThread, t} /\ owner' = t /\ depth' = depth + 1
    /\ Goto(t, "inside")
    /\ UNCHANGED <<setupVars, kind, waiting, frames, calls>>

(* std::lock_guard<std::recursive_mutex> guard(mutex_)                     *)
Lock(t) ==
    /\ At(t, "lock") /\ owner \in {NoThread, t}
    /\ owner' = t /\ depth' = depth + 1 /\ Goto(t, "inside")
    /\ UNCHANGED <<setupVars, kind, waiting, frames, calls>>

-----------------------------------------------------------------------------
(* Inside, the nonblocking class.                                          *)

Inside(t, cs) == At(t, "inside") /\ In(t, cs)
Unlocked == UNCHANGED <<setupVars, kind, owner, depth, calls>>

(* The request is queued; or the connection has failed, and its callback   *)
(* is called at once.                                                      *)
Submit(t) ==
    /\ kind = "nonblocking" /\ Inside(t, Submits)
    /\ \/ waiting' = waiting + 1 /\ Goto(t, "leave")
       \/ Goto(t, "callback") /\ UNCHANGED waiting
    /\ Unlocked /\ UNCHANGED frames

(* Run calls some of the callbacks, whichever thread they come from.       *)
RunCallsBack(t) ==
    /\ Inside(t, {"Run"}) /\ waiting > 0
    /\ waiting' = waiting - 1 /\ Goto(t, "callback")
    /\ Unlocked /\ UNCHANGED frames

CallbackReturns(t) ==
    /\ At(t, "callback")
    /\ Goto(t, IF In(t, {"Run"}) THEN "inside" ELSE "leave")
    /\ Unlocked /\ UNCHANGED <<waiting, frames>>

RunReturns(t) ==
    /\ Inside(t, {"Run"})
    /\ Goto(t, "leave")
    /\ Unlocked /\ UNCHANGED <<waiting, frames>>

RemoveHandler(t) ==
    /\ Inside(t, {"RemoveHandler"})
    /\ Goto(t, "leave")
    /\ waiting' \in {waiting, waiting - 1} \cap Nat
    /\ Unlocked /\ UNCHANGED frames

SetClientClusterVersion(t) ==
    /\ Inside(t, {"SetClientClusterVersion"})
    /\ Goto(t, "leave")
    /\ Unlocked /\ UNCHANGED <<waiting, frames>>

-----------------------------------------------------------------------------
(* Inside, the blocking class.                                             *)

(* RunOperation submits, and runs the connection until the answer is there *)
(* or time is up.                                                          *)
Operation(t) ==
    /\ kind = "blocking" /\ Inside(t, Operations)
    /\ Goto(t, "waiting")
    /\ Unlocked /\ UNCHANGED <<waiting, frames>>

OperationEnds(t) ==
    /\ At(t, "waiting")
    /\ Goto(t, "leave")
    /\ IF In(t, {"IterateKeyRange"}) THEN \E n \in 0 .. MaxFrames : frames' = [frames EXCEPT ![t] = n]
                                     ELSE UNCHANGED frames
    /\ Unlocked /\ UNCHANGED waiting

(* KeyRangeIterator::operator++ at the end of a frame: no lock.            *)
NextFrame(t) ==
    /\ step = "open" /\ Idle(t) /\ frames[t] > 0
    /\ IteratorsAlone => \A o \in Others(t) : Idle(o)
    /\ frames' = [frames EXCEPT ![t] = @ - 1]
    /\ Push(t, "nextFrame", "inside")
    /\ Unlocked /\ UNCHANGED waiting

-----------------------------------------------------------------------------
\* Seeded fault: the inner guard gives the mutex up altogether.
LeaveUnlocked(t) ==
    /\ At(t, "leave")
    /\ Pop(t)
    /\ IF In(t, {"nextFrame"}) THEN UNCHANGED <<owner, depth>>
       ELSE depth' = 0 /\ owner' = NoThread
    /\ UNCHANGED <<setupVars, kind, waiting, frames, calls>>

(* The guard goes out of scope, and the call returns.                      *)
Leave(t) ==
    /\ At(t, "leave")
    /\ Pop(t)
    /\ IF In(t, {"nextFrame"}) THEN UNCHANGED <<owner, depth>>
       ELSE depth' = depth - 1 /\ owner' = IF depth = 1 THEN NoThread ELSE owner
    /\ UNCHANGED <<setupVars, kind, waiting, frames, calls>>

ThreadStep(t) ==
    \/ Lock(t) \/ Submit(t) \/ RunCallsBack(t) \/ CallbackReturns(t) \/ RunReturns(t)
    \/ RemoveHandler(t) \/ SetClientClusterVersion(t) \/ Operation(t)
    \/ OperationEnds(t) \/ Leave(t)

(* The application destroys the connection when no thread uses it; the     *)
(* destructor calls the callbacks that are left.                           *)
Destroy ==
    /\ \A t \in Threads : Idle(t)
    /\ Release
    /\ waiting' = 0 /\ frames' = [t \in Threads |-> 0]
    /\ UNCHANGED <<kind, owner, depth, stack, calls>>

Next ==
    \/ SetupStep /\ UNCHANGED threadVars
    \/ PeerActs /\ UNCHANGED threadVars
    \/ \E t \in Threads : ThreadStep(t) \/ NextFrame(t) \/ \E c \in Used : Call(t, c)
    \/ Destroy

(* Threads go on, and so does the one that opens the connection.  Nothing  *)
(* is assumed of the peer, nor of the order in which threads get the lock. *)
Fairness ==
    /\ WF_vars(SetupStep /\ UNCHANGED threadVars)
    /\ \A t \in Threads : WF_vars(ThreadStep(t))

Spec == Init /\ [][Next]_vars /\ Fairness

-----------------------------------------------------------------------------
(* The locks a thread holds: one for each call it has entered.             *)
Held(t) == IF Idle(t) \/ Fetching(t) THEN 0
           ELSE IF At(t, "lock") THEN Len(stack[t]) - 1 ELSE Len(stack[t])

Frame == [call : Used \cup {"nextFrame"}, at : Places]

\* Types; the mutex is locked as often as its owner's calls say, by the
\* threads' stacks, and by nobody when no call holds it: guards give back what
\* they took, in nested calls too.
ThreadsTypeOK ==
    /\ SetupTypeOK
    /\ kind \in Kinds
    /\ owner \in Threads \cup {NoThread}
    /\ depth \in Nat
    /\ stack \in [Threads -> Seq(Frame)]
    /\ waiting \in Nat /\ calls \in 0 .. MaxCalls
    /\ frames \in [Threads -> 0 .. MaxFrames]
    /\ \A t \in Threads : Held(t) = IF owner = t THEN depth ELSE 0
    /\ (owner = NoThread) <=> (depth = 0)

\* At most one thread at a time is inside the connection, which is not made
\* for more: its maps, its queue and its socket have no lock of their own.
IsInside(t) == ~Idle(t) /\ (Fetching(t) \/ Held(t) > 0)

OneInside == \A t, u \in Threads : IsInside(t) /\ IsInside(u) => t = u

\* Every call returns, also one that a callback makes and one that waits for a
\* thread whose operation waits for the drive; and the factory returns, though
\* without TLS only: the TLS handshake waits for a silent peer for ever.
CallsReturn ==
    /\ \A t \in Threads : ~Idle(t) ~> Idle(t)
    /\ (~tls) ~> (step \in Failures \cup {"open", "gone"})
=============================================================================
