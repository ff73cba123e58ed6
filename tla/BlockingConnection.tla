------------------------- MODULE BlockingConnection -------------------------
(***************************************************************************)
(* kinetic::BlockingKineticConnection                                      *)
(* (src/main/blocking_kinetic_connection.cc) over the connection of        *)
(* PacketService.  An operation submits one request, whose callback refers *)
(* to the caller's variables, and RunOperation runs the connection until   *)
(* the callback has run, the connection fails, or time is up; then it      *)
(* removes the handler and returns.  The caller runs one operation after   *)
(* another; the n-th is n, and so are its handler and its key.             *)
(***************************************************************************)
EXTENDS PacketService

VARIABLES
    bpc,      \* where RunOperation is
    expired,  \* whether timeout_time has passed
    result    \* what each operation returned

blkVars == <<bpc, expired, result>>

Op == nextKey - 1

BlockingInit ==
    /\ Init
    /\ bpc = "idle"
    /\ expired = FALSE
    /\ result = [n \in Handlers |-> "none"]

-----------------------------------------------------------------------------
\* Seeded fault: the operation returns without removing its handler.
GiveUpOnly ==
    /\ bpc' = "idle"
    /\ result' = [result EXCEPT ![Op] = "io error"]
    /\ UNCHANGED <<expired, vars>>

(* RemoveHandler, whose result nobody looks at, and CLIENT_IO_ERROR.       *)
Known(k) == k \in S!KeysQueued \/ k \in DOMAIN seqOfKey

GiveUp ==
    /\ bpc' = "idle"
    /\ result' = [result EXCEPT ![Op] = "io error"]
    /\ IF Known(Op) THEN Remove(Op) ELSE UNCHANGED vars
    /\ UNCHANGED expired

(* NoOp, Get, Put and the others: the request is submitted.                *)
Operation ==
    /\ bpc = "idle"
    /\ Submit
    /\ bpc' = "submitted"
    /\ UNCHANGED <<expired, result>>

FirstRun ==
    /\ bpc = "submitted"
    /\ IF failed
         THEN GiveUp
         ELSE Run /\ bpc' = "first run" /\ UNCHANGED <<expired, result>>

RunFails ==
    /\ bpc \in {"first run", "run"} /\ runpc = "out" /\ failed
    /\ GiveUp

\* Seeded faults: time runs from the last Run on; what Run returned is
\* ignored; the time is looked at before done_.
TimeRestarts ==
    /\ bpc \in {"first run", "run"} /\ runpc = "out" /\ ~failed
    /\ bpc' = "loop"
    /\ expired' = FALSE
    /\ UNCHANGED <<result, vars>>

RunReturnsAnyway ==
    /\ bpc \in {"first run", "run"} /\ runpc = "out"
    /\ bpc' = "loop"
    /\ expired' = (expired /\ bpc = "run")
    /\ UNCHANGED <<result, vars>>

TimeFirst ==
    /\ bpc \in {"first run", "run"} /\ runpc = "out" /\ ~failed
    /\ IF expired
         THEN GiveUp
         ELSE bpc' = "loop" /\ UNCHANGED <<expired, result, vars>>

(* timeout_time is set after the first Run.                                *)
RunReturns ==
    /\ bpc \in {"first run", "run"} /\ runpc = "out" /\ ~failed
    /\ bpc' = "loop"
    /\ expired' = (expired /\ bpc = "run")
    /\ UNCHANGED <<result, vars>>

\* Seeded fault: done_ is taken for success.
DoneIsSuccess ==
    /\ bpc = "loop" /\ fate[Op] # << >>
    /\ result' = [result EXCEPT ![Op] = "ok"]
    /\ bpc' = "idle"
    /\ UNCHANGED <<expired, vars>>

Done ==
    /\ bpc = "loop" /\ fate[Op] # << >>
    /\ result' = [result EXCEPT ![Op] =
                    IF fate[Op] = <<"succeeded">> THEN "ok" ELSE "error"]
    /\ bpc' = "idle"
    /\ UNCHANGED <<expired, vars>>

(* select() says that a socket is ready, or is interrupted (EINTR): either *)
(* way Run is called.  Once time is up it polls, and is not interrupted.   *)
SelectReturns ==
    /\ bpc = "loop" /\ fate[Op] = << >>
    /\ ~expired \/ Selectable
    /\ Run
    /\ bpc' = "run"
    /\ UNCHANGED <<expired, result>>

(* Nothing can be read, and nothing can be written or nothing has to be.   *)
NothingReady ==
    /\ wantRead => inbox = << >> /\ socket = "up"
    /\ wantWrite => socket = "up"

SelectTimesOut ==
    /\ bpc = "loop" /\ fate[Op] = << >>
    /\ expired /\ NothingReady
    /\ GiveUp

(* select() fails with another errno.                                      *)
SelectFails ==
    /\ bpc = "loop" /\ fate[Op] = << >>
    /\ GiveUp

DeadlinePasses ==
    /\ bpc \in {"run", "loop"} /\ ~expired
    /\ expired' = TRUE
    /\ UNCHANGED <<bpc, result, vars>>

-----------------------------------------------------------------------------
RunOperation == FirstRun \/ RunFails \/ RunReturns \/ Done \/ SelectReturns
                \/ SelectTimesOut

Inside == UNCHANGED blkVars

BlockingNext ==
    \/ Operation
    \/ RunOperation
    \/ SelectFails
    \/ DeadlinePasses
    \/ bpc = "idle" /\ Close /\ Inside
    \/ ClientStep /\ Inside
    \/ WriteWaits /\ Inside
    \/ WriteDone /\ Inside
    \/ Greet /\ Inside
    \/ (\E q \in Seqs : Answer(q)) /\ Inside
    \/ Misbehave /\ Inside
    \/ Break /\ Inside

(* Nothing is expected of the drive.  A socket that is tried again and     *)
(* again takes the whole request in the end: it says it is writable, or    *)
(* select() reports that it is not.                                        *)
BlockingFairness ==
    /\ WF_<<blkVars, vars>>(RunOperation)
    /\ WF_<<blkVars, vars>>(DeadlinePasses)
    /\ WF_<<blkVars, vars>>(ClientStep /\ Inside)
    /\ WF_<<blkVars, vars>>(WriteWaits /\ Inside)
    /\ SF_<<blkVars, vars>>(WriteDone /\ Inside)

BlockingSpec == /\ BlockingInit /\ [][BlockingNext]_<<blkVars, vars>>
                /\ BlockingFairness

-----------------------------------------------------------------------------
(* Properties.                                                             *)

Returning == bpc # "idle" /\ bpc' = "idle"

\* Every variable has its type; RunOperation and the connection are in
\* positions that fit; operations that have returned have a result.
BlockingTypeOK ==
    /\ bpc \in {"idle", "submitted", "first run", "loop", "run"}
    /\ expired \in BOOLEAN
    /\ result \in [Handlers -> {"none", "ok", "error", "io error"}]
    /\ runpc \in {"send", "receive"} => bpc \in {"first run", "run"}
    /\ bpc = "loop" => ~failed
    /\ \A n \in Handlers : result[n] # "none" <=> n < nextKey /\ (n = Op => bpc = "idle")

\* An operation returns OK only if the drive has done it, and an error only if
\* the drive has refused it or sent something damaged: the answers of operations
\* that timed out, which arrive during later ones, are not taken for theirs.
ResultsMatch ==
    \A n \in Handlers :
        /\ result[n] = "ok" => n \in DOMAIN answers /\ answers[n] = "succeeded"
        /\ result[n] = "error" =>
            faults > 0 \/ (n \in DOMAIN answers /\ answers[n] = "failed")

\* When RunOperation returns, its callback has run or will never run, with one
\* exception: the request is being written, where RemoveHandler misses it.  Its
\* callback, which refers to variables of the caller, runs in a later operation
\* or in the destructor.
OnlyTheWrittenIsLate ==
    [][Returning => fate'[Op] # << >> \/ writing = Op]_<<blkVars, vars>>

\* The drive's success is reported unless the connection failed while Run was
\* still reading after the callback: only then does the operation that
\* succeeded return CLIENT_IO_ERROR.
SuccessLostOnlyByFailure ==
    [][Returning /\ fate[Op] = <<"succeeded">> => result'[Op] = "ok" \/ failed]_<<blkVars, vars>>

\* Every operation returns, even if the drive stays silent or the network fails.
\* (The drive sends finitely many packets: Receive reads as long as there are
\* some, and RunOperation looks at the time only when Run has returned.)
OperationsReturn == bpc # "idle" ~> bpc = "idle"
=============================================================================
