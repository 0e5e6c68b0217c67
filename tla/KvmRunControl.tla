---------------------------- MODULE KvmRunControl ----------------------------
(***************************************************************************)
(* Entering a virtual CPU and getting out of it again                      *)
(* (lib/emulation/backends/kvm/KvmRunControl).  A private worker thread    *)
(* makes every KVM_RUN.  The caller of a run waits for it, and when the    *)
(* run's control says so (a deadline or a stop token) it sets Cancel and   *)
(* sends the worker a signal that is blocked except inside KVM_RUN.  A     *)
(* worker that was cancelled is joined, which is how a signal that came    *)
(* too late is thrown away.  A caller may also hand over a whole execution *)
(* loop, whose native entries are then made by the worker itself under     *)
(* controls of their own.                                                  *)
(*                                                                         *)
(* The mutex is left out: an action is what a thread does under it, or one *)
(* step without it.  KvmHandoffPolicy only decides whether a thread spins  *)
(* before it waits.                                                        *)
(***************************************************************************)
EXTENDS Naturals

CONSTANTS
    Caller,     \* threads that use the controller
    NoCaller

ASSUME CallerAssumption == NoCaller \notin Caller

VARIABLES
    alive,      \* whether KvmRunControl::create returned one
    thread,     \* State::Worker: see Threads
    at,         \* where the worker is
    entry,      \* what it got so far: Entry
    kicked,     \* whether the signal is pending at it
    phase,      \* where each caller is
    kind,       \* which call of the controller was last admitted
    reply       \* the outcome of the last call

\* Under the mutex, but Cancel, which is atomic.
VARIABLES
    owner,      \* whose Control, Prepare, Capture and Loop are set
    looping,    \* whether Loop is
    running, requested, completed, cancel, pendingKick, nativeActive, shutdown,
    result      \* Status, EntryInterrupted and TransferError

\* The controls of the run: time only goes on, and a stop stays asked for.
VARIABLES
    stop,       \* the stop token
    past,       \* the deadline of the run, which a loop checks itself
    late        \* the deadline of NativeControl, never before the run's

worker == <<thread, at, entry, kicked>>
callers == <<alive, phase, kind, reply>>
flags == <<running, requested, completed, cancel, pendingKick, shutdown, result>>
time == <<stop, past, late>>
vars == <<worker, callers, owner, looping, flags, nativeActive, time>>

Threads == {"none", "starting", "unable", "up", "over"}
Within == {"prepare", "check", "guest", "capture", "owned"}    \* enter and enterOwned
Looping == {"loop", "admit", "again", "release"}               \* the rest of Loop
Borrowing == Within \union Looping
\* An entry is interrupted, runs, or fails: in the host, in a transfer of
\* state, in its completion, for the signal's disposition, or as an
\* interruption that its control does not confirm ("unfounded").
Outcomes == {"none", "interrupted", "ok", "failed", "transfer", "completion", "signal", "unfounded"}

Init ==
    /\ alive = FALSE /\ thread = "none" /\ at = "idle" /\ entry = "none" /\ kicked = FALSE
    /\ phase = [c \in Caller |-> "out"] /\ kind = "run"
    /\ reply = "none"
    /\ owner = NoCaller /\ looping = FALSE /\ running = FALSE /\ requested = FALSE
    /\ completed = FALSE /\ cancel = FALSE /\ pendingKick = FALSE /\ nativeActive = FALSE
    /\ shutdown = FALSE /\ result = "none"
    /\ stop = FALSE /\ past = FALSE /\ late = FALSE

\* MachineRunControl::interrupted of a run, and of a native entry of a loop.
Interrupted == stop \/ IF looping THEN late ELSE past

\* diagnostic::interrupted.
Interruption == IF Interrupted THEN "interrupted" ELSE "unfounded"

-----------------------------------------------------------------------------
(* Callers.                                                                *)

Goes(c, to) == phase' = [phase EXCEPT ![c] = to]
Quiet == \A c \in Caller : phase[c] = "out"

\* KvmRunControl::create and State::start.
Creates(c) ==
    /\ ~alive /\ Quiet
    /\ Goes(c, "starting") /\ kind' = "create"
    /\ thread' = "starting"
    /\ UNCHANGED <<alive, at, entry, kicked, reply, owner, looping, flags, nativeActive, time>>

\* ~State, which nobody else may use any more.
Destroys(c) ==
    /\ alive /\ Quiet
    /\ kind' = "destroy"
    /\ alive' = FALSE
    /\ IF thread = "none" THEN UNCHANGED <<phase, shutdown>>
                          ELSE shutdown' = TRUE /\ Goes(c, "joining")
    /\ UNCHANGED <<worker, reply, owner, looping, running, requested, completed, cancel, pendingKick, result,
                   nativeActive, time>>

\* run or withExecutionOwner: dispatch up to the request.
Refused(c) ==
    /\ alive /\ phase[c] = "out" /\ running
    /\ reply' = "active"
    /\ UNCHANGED <<alive, phase, kind, worker, owner, looping, flags, nativeActive, time>>

Submits(c, loop) ==
    /\ Goes(c, "waiting")
    /\ owner' = c /\ looping' = loop
    /\ cancel' = FALSE /\ pendingKick' = FALSE /\ completed' = FALSE /\ requested' = TRUE

\* The disposition of the signal is looked at before every request.
SubmitsOrIgnored(c, loop) ==
    \/ /\ Submits(c, loop) /\ running' = TRUE
       /\ UNCHANGED reply
    \/ /\ running' = FALSE
       /\ Goes(c, "out") /\ reply' = "signal"
       /\ UNCHANGED <<owner, looping, cancel, pendingKick, completed, requested>>

Dispatches(c, call) ==
    /\ alive /\ phase[c] = "out" /\ ~running
    /\ kind' = call
    /\ stop' = FALSE /\ past' = FALSE /\ late' = FALSE
    /\ IF thread = "none"
       THEN /\ running' = TRUE
            /\ thread' = "starting" /\ Goes(c, "starting")
            /\ UNCHANGED <<reply, owner, looping, cancel, pendingKick, completed, requested>>
       ELSE SubmitsOrIgnored(c, call = "loop") /\ UNCHANGED thread
    /\ UNCHANGED <<alive, at, entry, kicked, shutdown, result, nativeActive>>

\* A control already interrupted reaches nobody.
TooLate(c) ==
    /\ alive /\ phase[c] = "out" /\ ~running
    /\ reply' = "interrupted"
    /\ UNCHANGED <<alive, phase, kind, worker, owner, looping, flags, nativeActive, time>>

\* start returns: the worker is ready, or could not be made and was joined.
Started(c) ==
    /\ phase[c] = "starting" /\ thread \in {"up", "unable"}
    /\ IF thread = "unable"
       THEN /\ thread' = "none" /\ running' = FALSE
            /\ Goes(c, "out") /\ reply' = "unavailable"
            /\ UNCHANGED <<alive, owner, looping, cancel, pendingKick, completed, requested>>
       ELSE /\ UNCHANGED thread
            /\ IF kind = "create"
               THEN /\ alive' = TRUE /\ Goes(c, "out")
                    /\ UNCHANGED <<running, reply, owner, looping, cancel, pendingKick, completed, requested>>
               ELSE SubmitsOrIgnored(c, kind = "loop") /\ UNCHANGED alive
    /\ UNCHANGED <<at, entry, kicked, kind, shutdown, result, nativeActive, time>>

\* Slip: a native control is looked at after its entry ended.
ActiveAlways == TRUE

\* Only a native entry of a loop needs an interrupt.
Active == looping => nativeActive

\* NativeControl's stop token is dropped with the entry.
Overdue == IF looping THEN late \/ (nativeActive /\ stop) ELSE past \/ stop

\* Slip: a failed pthread_kill is not repeated.
SentOnce(sent) == TRUE

Sent(sent) == sent

\* One turn of dispatch's loop: it wakes at the deadline, or polls where a
\* stop token or a loop's entries have to be seen; `sent' is whether
\* pthread_kill succeeds.
OwnerLooks(c, sent) ==
    /\ phase[c] = "waiting" /\ ~completed
    /\ cancel' = (cancel \/ (Active /\ Overdue))
    /\ cancel' /\ ~pendingKick
    /\ pendingKick' = Sent(sent)
    /\ kicked' = (kicked \/ sent)
    /\ UNCHANGED <<thread, at, entry, callers, owner, looping, running, requested, completed,
                   shutdown, result, nativeActive, time>>

\* Slip: a KVM_RUN that completed is taken to have used up the signal.
RetiresInterrupted == cancel /\ result = "interrupted"

\* Whether the worker ends with the run, and the caller joins it.
Retires == cancel

\* Slip: a caller whose run is cancelled goes on to the join.
OverCancelled == completed \/ cancel

\* What ends the caller's wait.
Over == completed

\* The borrowed control and callbacks are given back.
Returned == owner' = NoCaller /\ looping' = FALSE

OwnerSees(c) ==
    /\ phase[c] = "waiting" /\ Over
    /\ IF Retires THEN Goes(c, "joining") /\ UNCHANGED <<owner, looping>>
                  ELSE Goes(c, "classify") /\ Returned
    /\ UNCHANGED <<alive, kind, reply, worker, flags, nativeActive, time>>

\* The join of a cancelled run, or of ~State; what is pending goes with the
\* thread.
Joins(c) ==
    /\ phase[c] = "joining" /\ thread = "over"
    /\ thread' = "none" /\ kicked' = FALSE
    /\ IF kind = "destroy"
       THEN shutdown' = FALSE /\ Goes(c, "out") /\ UNCHANGED <<owner, looping>>
       ELSE Goes(c, "classify") /\ Returned /\ UNCHANGED shutdown
    /\ UNCHANGED <<alive, at, entry, kind, reply, running, requested, completed, cancel, pendingKick, result,
                   nativeActive, time>>

\* The rest of dispatch.  Loop is no longer set, but its kind is known.
\* Complete may fail, which outranks a stop; Running lasts until the reply.
Reply ==
    LET overdue == stop \/ past
    IN CASE result \in {"transfer", "completion", "failed", "signal", "unfounded"} -> {result}
         [] result = "interrupted" -> {IF overdue THEN "interrupted" ELSE "unfounded"}
         [] kind = "loop" -> {"ok"}
         [] OTHER -> {"completion",
                      IF ~(cancel \/ overdue) THEN "ok"
                      ELSE IF overdue THEN "interrupted" ELSE "unfounded"}

OwnerReturns(c) ==
    /\ phase[c] = "classify"
    /\ reply' \in Reply
    /\ running' = FALSE
    /\ Goes(c, "out")
    /\ UNCHANGED <<alive, kind, worker, owner, looping, requested, completed, cancel, pendingKick, shutdown,
                   result, nativeActive, time>>

-----------------------------------------------------------------------------
(* The worker thread.                                                      *)

Worker(from) == thread = "up" /\ at = from
OnlyAt(to) == at' = to /\ UNCHANGED <<thread, kicked>>
ElsewhereThan == UNCHANGED <<callers, owner, looping, time>>

\* State::initialize, or a thread that could not be created.
Initializes ==
    /\ thread = "starting"
    /\ thread' \in {"up", "unable"}
    /\ at' = "idle"
    /\ UNCHANGED <<entry, kicked, flags, nativeActive>> /\ ElsewhereThan

\* It waits for a request or the end.
Takes ==
    /\ Worker("idle") /\ (requested \/ shutdown)
    /\ IF shutdown
       THEN thread' = "over" /\ UNCHANGED <<at, entry, requested>>
       ELSE /\ requested' = FALSE
            /\ at' = IF looping THEN "loop" ELSE "prepare"
            /\ entry' = "none"
            /\ UNCHANGED thread
    /\ UNCHANGED <<kicked, running, completed, cancel, pendingKick, shutdown, result, nativeActive>>
    /\ ElsewhereThan

Aside == UNCHANGED <<flags, nativeActive>> /\ ElsewhereThan

\* Where an entry ends: in enterOwned, or in work.
Ends(outcome) == entry' = outcome /\ OnlyAt(IF looping THEN "owned" ELSE "publish")

\* State::enter: Prepare, once.
Prepares ==
    /\ Worker("prepare")
    /\ \/ OnlyAt("check") /\ UNCHANGED entry
       \/ ~cancel /\ ~Interrupted /\ Ends("transfer")
    /\ Aside

\* The loop around KVM_RUN.
Checks ==
    /\ Worker("check")
    /\ IF cancel \/ Interrupted THEN Ends("interrupted") ELSE UNCHANGED entry /\ OnlyAt("guest")
    /\ Aside

\* KVM_RUN: the guest exits, or the host fails.
GuestExits ==
    /\ Worker("guest")
    /\ \/ OnlyAt("capture") /\ UNCHANGED entry
       \/ Ends("failed")
    /\ Aside

\* EINTR: the pending signal, which stays pending, or any other reason.
GuestInterrupted == Worker("guest") /\ OnlyAt("check") /\ UNCHANGED entry /\ Aside

Captures == Worker("capture") /\ (\E e \in {"ok", "transfer"} : Ends(e)) /\ Aside

\* The end of work's turn, under the mutex.
Publishes ==
    /\ Worker("publish")
    /\ result' = entry /\ completed' = TRUE
    /\ thread' = IF cancel THEN "over" ELSE "up"
    /\ at' = "idle" /\ UNCHANGED <<entry, kicked>>
    /\ UNCHANGED <<running, requested, cancel, pendingKick, shutdown, nativeActive>> /\ ElsewhereThan

-----------------------------------------------------------------------------
(* The loop handed over (CheckedBackend::runImpl) and enterOwned.          *)

LoopEnds(outcome) == entry' = outcome /\ OnlyAt("publish")

\* An instruction boundary: the budgets are checked here.
LoopStep ==
    /\ Worker("loop")
    /\ \/ LoopEnds("ok")
       \/ LoopEnds("transfer")
       \/ ~stop /\ ~past /\ OnlyAt("admit") /\ UNCHANGED entry
    /\ Aside

\* enterOwned's admission.  An instruction's first entry has a deadline of
\* its own (forNativeStep), which the ones after it share.
Admits ==
    /\ Worker("admit") \/ Worker("again")
    /\ late' = (late /\ at = "again")
    /\ IF stop \/ late'
       THEN LoopEnds("ok") /\ UNCHANGED nativeActive
       ELSE \/ /\ nativeActive' = TRUE
               /\ entry' = "none" /\ OnlyAt("prepare")
            \/ LoopEnds("signal") /\ UNCHANGED nativeActive
    /\ UNCHANGED <<flags, callers, owner, looping, stop, past>>

\* What enterOwned makes of the entry: a completion may fail, and a cancel
\* is looked at after it.
Owned ==
    CASE entry \in {"transfer", "failed"} -> {entry}
      [] entry = "interrupted" -> {Interruption}
      [] entry = "ok" -> {"completion", IF cancel \/ Interrupted THEN Interruption ELSE "ok"}

Classifies ==
    /\ Worker("owned")
    /\ entry' \in Owned
    /\ OnlyAt("release")
    /\ Aside

\* Its scope_exit; then the loop goes on, or ends: interrupted is no error.
Releases ==
    /\ Worker("release")
    /\ nativeActive' = FALSE
    /\ CASE entry = "ok" -> (\E to \in {"again", "loop"} : OnlyAt(to)) /\ UNCHANGED entry
         [] entry = "interrupted" -> LoopEnds("ok")
         [] OTHER -> LoopEnds(entry)
    /\ UNCHANGED flags /\ ElsewhereThan

-----------------------------------------------------------------------------
(* The clock and whoever holds the stop token, while a run is under way.   *)

StopAsked == running /\ ~stop /\ stop' = TRUE
             /\ UNCHANGED <<past, late, worker, callers, owner, looping, flags, nativeActive>>
DeadlinePasses == running /\ ~past /\ past' = TRUE
                  /\ UNCHANGED <<stop, late, worker, callers, owner, looping, flags, nativeActive>>
StepDeadlinePasses == running /\ looping /\ past /\ ~late /\ late' = TRUE
                      /\ UNCHANGED <<stop, past, worker, callers, owner, looping, flags, nativeActive>>

-----------------------------------------------------------------------------
Call(c) ==
    \/ Creates(c) \/ Destroys(c) \/ Refused(c) \/ TooLate(c)
    \/ \E call \in {"run", "loop"} : Dispatches(c, call)
    \/ Started(c) \/ (\E sent \in BOOLEAN : OwnerLooks(c, sent)) \/ OwnerSees(c)
    \/ Joins(c) \/ OwnerReturns(c)
Work ==
    \/ Initializes \/ Takes \/ Prepares \/ Checks \/ GuestExits \/ GuestInterrupted
    \/ Captures \/ Publishes \/ LoopStep \/ Admits \/ Classifies \/ Releases

Next == (\E c \in Caller : Call(c)) \/ Work \/ StopAsked \/ DeadlinePasses \/ StepDeadlinePasses
Spec == Init /\ [][Next]_vars

\* The threads run, the clock goes on, a blocked signal that is pending ends
\* KVM_RUN, and pthread_kill does not fail for ever.  The guest need not exit.
Fairness ==
    /\ \A c \in Caller :
          /\ WF_vars(Started(c)) /\ WF_vars(OwnerLooks(c, TRUE)) /\ WF_vars(OwnerSees(c))
          /\ WF_vars(Joins(c)) /\ WF_vars(OwnerReturns(c))
    /\ WF_vars(Initializes) /\ WF_vars(Takes) /\ WF_vars(Prepares) /\ WF_vars(Checks)
    /\ WF_vars(kicked /\ GuestInterrupted) /\ WF_vars(Captures) /\ WF_vars(Publishes)
    /\ WF_vars(LoopStep) /\ WF_vars(Admits) /\ WF_vars(Classifies) /\ WF_vars(Releases)
    /\ WF_vars(StepDeadlinePasses)
LiveSpec == Spec /\ Fairness

-----------------------------------------------------------------------------
(* Properties.                                                             *)

RequestOK ==
    /\ running \in BOOLEAN /\ requested \in BOOLEAN /\ completed \in BOOLEAN
    /\ looping \in BOOLEAN /\ nativeActive \in BOOLEAN
CancelOK ==
    /\ cancel \in BOOLEAN /\ pendingKick \in BOOLEAN /\ kicked \in BOOLEAN
    /\ alive \in BOOLEAN /\ shutdown \in BOOLEAN
TimeOK == stop \in BOOLEAN /\ past \in BOOLEAN /\ late \in BOOLEAN
WorkerOK ==
    /\ thread \in Threads /\ at \in Borrowing \union {"idle", "publish"}
    /\ entry \in Outcomes /\ result \in Outcomes
CallersOK ==
    /\ owner \in Caller \union {NoCaller}
    /\ phase \in [Caller -> {"out", "starting", "waiting", "joining", "classify"}]
    /\ kind \in {"create", "destroy", "run", "loop"}
    /\ reply \in Outcomes \union {"active", "unavailable"}

\* The type of the state; a loop is set only with the caller it belongs to.
TypeOK == RequestOK /\ CancelOK /\ TimeOK /\ WorkerOK /\ CallersOK /\ (looping => owner # NoCaller)

\* The worker touches a caller's control, state transfers and loop only while
\* that caller waits in dispatch ("No callback or stop token may escape this
\* synchronous ownership interval").
BorrowsEnd ==
    thread = "up" /\ at \in Borrowing => owner # NoCaller /\ phase[owner] = "waiting"

\* A kick is never left for another run: while the signal is pending, the
\* run it was sent for is cancelled and not over (the retirement of work).
KickStaysHome == kicked => cancel /\ running

\* Nobody is told of a failure where there was a deadline or a stop: every
\* interruption reported is one its control confirms (diagnostic::interrupted
\* makes an error of any other, and the backend is then given up).
InterruptionsAreFounded ==
    entry # "unfounded" /\ reply # "unfounded"

\* A run whose deadline passed or whose stop was asked for returns, whatever
\* the guest does and whenever the signal arrives.
RunsEnd == \A c \in Caller : phase[c] = "waiting" /\ (stop \/ past) ~> phase[c] = "out"
=============================================================================
