---------------------------- MODULE PlatformTimer ----------------------------
(***************************************************************************)
(* The deadline timer of transaction execution: platform_timer (the POSIX   *)
(* build), the owner thread that runs transactions under it                  *)
(* (transaction_checktime_timer, transaction_context and the two WebAssembly *)
(* runtimes) and the callers that may end a run early: the signal handler of *)
(* each kernel timer and the threads that call interrupt_timer().            *)
(*                                                                           *)
(* Every atomic access of the code is a step of its own.  _state is one      *)
(* lock-free atomic; _callback_variables_busy guards the callback pair,      *)
(* which is modelled by whether one is registered.                           *)
(***************************************************************************)
EXTENDS Naturals

CONSTANTS
    num_timers,     \* kernel timers, one per generation
    Interrupters,   \* threads that may call interrupt_timer()
    MaxStarts       \* bound: calls of start() in a behaviour

Generations == 0 .. num_timers - 1

\* Those who may call the expiration callback: a signal handler is named by the
\* generation in the tag of its sival_ptr
Callers == Generations \cup Interrupters

ASSUME TimersAssumption == num_timers \in Nat \ {0, 1}
ASSUME InterruptersAssumption == Interrupters \cap Generations = {}
ASSUME StartsAssumption == MaxStarts \in Nat

VARIABLES
    _state,                  \* the atomic timer_state_t
    generation,              \* of the latest start(); the owner's
    timer_running_forever,   \* the owner's
    timerid,                 \* the generations whose kernel timer is armed
    busy,                    \* _callback_variables_busy
    callback,                \* _expiration_callback is not null
    mapping,                 \* the code mapping may be executed (mprotect)
    mapping_is_executable,   \* the executor's record of that
    pc,                      \* where the owner thread is
    prior_state,             \* the local of stop()
    thrown,                  \* an exception is unwinding the transaction
    caller,                  \* [Callers -> where the caller is, and its generation]
    due,                     \* history: this run's deadline has passed
    overwritten,             \* history: a failed timer_settime stored over a callback in flight
    starts                   \* history: calls of start()

ownerVars == << generation, timer_running_forever, prior_state, thrown >>
codeVars  == << mapping, mapping_is_executable >>
history   == << due, overwritten, starts >>
vars == << _state, timerid, busy, callback, pc, caller, ownerVars, codeVars, history >>

timer_state_t(state, in_flight, gen) ==
    [state |-> state, callback_in_flight |-> in_flight, generation_running |-> gen]

States == {"running", "timed_out", "interrupted", "stopped"}

timer_state == _state.state

\* pc: the program points of the owner
OwnerPoints ==
    {"idle",                  \* no transaction
     "start2",                \* start(): state stored, timer_settime not yet called
     "trx",                   \* a transaction between its actions
     "set1", "set2",          \* set_expiration_callback(func): spin, write
     "check",                 \* the state is read again after the callback was set
     "wasm",                  \* the contract's code runs
     "fault",                 \* it was stopped by a fault: checktime() follows
     "clear1", "clear2",      \* set_expiration_callback(nullptr): spin, write
     "stop1", "stop2", "stop3",   \* stop()
     "stopped",               \* stop() has returned: paused, or being destroyed
     "end1", "end2"}          \* the destructor's set_expiration_callback(nullptr)

\* From the store of "stopped" to the next start()
AfterStop == {"stop3", "stopped", "end1", "end2", "idle"}

\* A caller that won the exchange, up to its last store
InFlight == {"won", "locked", "called", "unlock", "store"}

CallerPoints == {"idle", "pending"} \cup InFlight

Init ==
    /\ _state = timer_state_t("stopped", FALSE, 0)
    /\ generation = 0
    /\ timer_running_forever = FALSE
    /\ timerid = {}
    /\ busy = FALSE
    /\ callback = FALSE
    /\ mapping = TRUE
    /\ mapping_is_executable = TRUE
    /\ pc = "idle"
    /\ prior_state = timer_state_t("stopped", FALSE, 0)
    /\ caller = [c \in Callers |-> [at |-> "idle", gen |-> 0]]
    /\ thrown = FALSE
    /\ due = FALSE
    /\ overwritten = FALSE
    /\ starts = 0

----------------------------------------------------------------------------
(* The owner: start() *)

next_generation == (generation + 1) % num_timers

\* The environment keeps up: the signal of a kernel timer is delivered, and its handler has
\* returned, before the timer is used again num_timers starts later
NotLapped(g) == caller[g].at = "idle"

\* What every start() does before it looks at tp
StartAs(state, forever) ==
    /\ pc \in {"idle", "stopped"} /\ starts < MaxStarts /\ NotLapped(next_generation)
    /\ generation' = next_generation
    /\ timer_running_forever' = forever
    /\ _state' = timer_state_t(state, FALSE, next_generation)
    /\ thrown' = FALSE
    /\ due' = (state = "timed_out")
    /\ starts' = starts + 1
    /\ UNCHANGED << timerid, busy, callback, caller, prior_state, codeVars, overwritten >>

\* tp is maximum: no kernel timer is used
StartForever == StartAs("running", TRUE) /\ pc' = "trx"

\* tp has passed already
StartPast == StartAs("timed_out", FALSE) /\ pc' = "trx"

StartTimed == StartAs("running", FALSE) /\ pc' = "start2"

\* Mutant: the timer of the next generation is armed
Arm_next ==
    /\ pc = "start2"
    /\ timerid' = timerid \cup {next_generation}
    /\ pc' = "trx"
    /\ UNCHANGED << _state, busy, callback, caller, ownerVars, codeVars, history >>

\* timer_settime armed the timer
Arm ==
    /\ pc = "start2"
    /\ timerid' = timerid \cup {generation}
    /\ pc' = "trx"
    /\ UNCHANGED << _state, busy, callback, caller, ownerVars, codeVars, history >>

\* timer_settime failed: the state is stored whatever an interrupt made of it
ArmFails ==
    /\ pc = "start2"
    /\ _state' = timer_state_t("timed_out", FALSE, generation)
    /\ due' = TRUE
    /\ overwritten' = (overwritten \/ _state.callback_in_flight)
    /\ pc' = "trx"
    /\ UNCHANGED << timerid, busy, callback, caller, ownerVars, codeVars, starts >>

----------------------------------------------------------------------------
(* The owner: running a contract *)

OwnerGoes(to) ==
    pc' = to /\ UNCHANGED << generation, timer_running_forever, prior_state >>

\* checktime() throws unless the timer runs
Checktime ==
    /\ pc = "trx" /\ ~ thrown /\ timer_state # "running"
    /\ thrown' = TRUE
    /\ OwnerGoes("trx")
    /\ UNCHANGED << _state, timerid, busy, callback, caller, codeVars, history >>

\* execute(): the mapping is made executable if a callback took that away
Execute ==
    /\ pc = "trx" /\ ~ thrown
    /\ mapping' = (mapping \/ ~ mapping_is_executable)
    /\ mapping_is_executable' = TRUE
    /\ OwnerGoes("set1")
    /\ UNCHANGED << _state, timerid, busy, callback, caller, thrown, history >>

\* set_expiration_callback: spin until the variables are free, write, release
Acquire(from, to) ==
    /\ pc = from /\ ~ busy
    /\ busy' = TRUE
    /\ OwnerGoes(to)
    /\ UNCHANGED << _state, timerid, callback, caller, thrown, codeVars, history >>

SetCallback(from, registered, to) ==
    /\ pc = from
    /\ callback' = registered
    /\ busy' = FALSE
    /\ OwnerGoes(to)
    /\ UNCHANGED << _state, timerid, caller, thrown, codeVars, history >>

SpinToSet   == Acquire("set1", "set2")
SetFunc     == SetCallback("set2", TRUE, "check")
SpinToClear == Acquire("clear1", "clear2")
ClearFunc   == SetCallback("clear2", FALSE, "trx")

\* The executor calls checktime() to catch an expiration before the callback was set
CheckThrows ==
    /\ pc = "check" /\ timer_state # "running"
    /\ thrown' = TRUE
    /\ OwnerGoes("clear1")
    /\ UNCHANGED << _state, timerid, busy, callback, caller, codeVars, history >>

\* The watchdog of the other runtime calls the callback itself
CheckCalls ==
    /\ pc = "check" /\ timer_state \in {"timed_out", "interrupted"}
    /\ mapping' = FALSE
    /\ mapping_is_executable' = FALSE
    /\ OwnerGoes("wasm")
    /\ UNCHANGED << _state, timerid, busy, callback, caller, thrown, history >>

\* Mutant: the state is not looked at again
CheckPasses_always ==
    /\ pc = "check"
    /\ OwnerGoes("wasm")
    /\ UNCHANGED << _state, timerid, busy, callback, caller, thrown, codeVars, history >>

CheckPasses ==
    /\ pc = "check" /\ timer_state = "running"
    /\ OwnerGoes("wasm")
    /\ UNCHANGED << _state, timerid, busy, callback, caller, thrown, codeVars, history >>

\* The contract returns, or throws for reasons of its own
Finish ==
    /\ pc = "wasm" /\ mapping
    /\ \E throws \in BOOLEAN : thrown' = throws
    /\ OwnerGoes("clear1")
    /\ UNCHANGED << _state, timerid, busy, callback, caller, codeVars, history >>

\* Its next instruction is not executable
Fault ==
    /\ pc = "wasm" /\ ~ mapping
    /\ OwnerGoes("fault")
    /\ UNCHANGED << _state, timerid, busy, callback, caller, thrown, codeVars, history >>

\* EOSVMOC_EXIT_CHECKTIME_FAIL: checktime() is relied on to throw
FaultChecktime ==
    /\ pc = "fault"
    /\ thrown' = (timer_state # "running")
    /\ OwnerGoes("clear1")
    /\ UNCHANGED << _state, timerid, busy, callback, caller, codeVars, history >>

----------------------------------------------------------------------------
(* The owner: stop(), to pause the billing timer, at the end of a transaction and again *)
(* in the destructor *)

Stop ==
    /\ pc \in {"trx", "stopped", "idle"}
    /\ OwnerGoes("stop1")
    /\ UNCHANGED << _state, timerid, busy, callback, caller, thrown, codeVars, history >>

StopGoes(to, prior) ==
    /\ pc' = to
    /\ prior_state' = prior
    /\ UNCHANGED << generation, timer_running_forever, thrown,
                    busy, callback, caller, codeVars, history >>

\* The exchange that keeps a new callback from starting
StopExchange ==
    /\ pc = "stop1"
    /\ IF _state = timer_state_t("running", FALSE, generation)
       THEN /\ _state' = timer_state_t("interrupted", FALSE, generation)
            /\ StopGoes("stop2", _state')
       ELSE StopGoes("stop2", _state) /\ UNCHANGED _state
    /\ UNCHANGED timerid

\* The loop that waits for a callback in flight
StopSpin ==
    /\ pc = "stop2" /\ prior_state.callback_in_flight
    /\ StopGoes("stop2", _state)
    /\ UNCHANGED << _state, timerid >>

StopAlready ==
    /\ pc = "stop2" /\ ~ prior_state.callback_in_flight /\ prior_state.state = "stopped"
    /\ StopGoes("stopped", prior_state)
    /\ UNCHANGED << _state, timerid >>

\* Mutant: a callback in flight is not waited for
StopStore_at_once ==
    /\ pc = "stop2" /\ prior_state.state # "stopped"
    /\ _state' = timer_state_t("stopped", FALSE, generation)
    /\ StopGoes("stop3", prior_state)
    /\ UNCHANGED timerid

StopStore ==
    /\ pc = "stop2" /\ ~ prior_state.callback_in_flight /\ prior_state.state # "stopped"
    /\ _state' = timer_state_t("stopped", FALSE, generation)
    /\ StopGoes("stop3", prior_state)
    /\ UNCHANGED timerid

\* The kernel timer is disarmed unless it has expired or was never armed
StopDisarm ==
    /\ pc = "stop3"
    /\ timerid' = IF prior_state.state = "timed_out" \/ timer_running_forever
                  THEN timerid
                  ELSE timerid \ {generation}
    /\ StopGoes("stopped", prior_state)
    /\ UNCHANGED _state

\* The destructor clears the callback once more
Destroy ==
    /\ pc = "stopped"
    /\ OwnerGoes("end1")
    /\ UNCHANGED << _state, timerid, busy, callback, caller, thrown, codeVars, history >>

SpinToEnd == Acquire("end1", "end2")
EndFunc   == SetCallback("end2", FALSE, "idle")

----------------------------------------------------------------------------
(* The callers: expire_now() in a signal handler, interrupt_timer() in a thread *)

CallerGoes(c, to) ==
    /\ caller' = [caller EXCEPT ![c].at = to]
    /\ UNCHANGED << timerid, pc, ownerVars, history >>

\* The kernel timer expires: its signal is raised
Expire(g) ==
    /\ g \in timerid /\ caller[g].at = "idle"
    /\ timerid' = timerid \ {g}
    /\ caller' = [caller EXCEPT ![g] = [at |-> "pending", gen |-> g]]
    /\ due' = (due \/ g = generation)
    /\ UNCHANGED << _state, busy, callback, pc, ownerVars, codeVars, overwritten, starts >>

\* interrupt_timer() reads which generation runs
Interrupt(c) ==
    /\ c \in Interrupters /\ caller[c].at = "idle"
    /\ caller' = [caller EXCEPT ![c] = [at |-> "pending", gen |-> _state.generation_running]]
    /\ UNCHANGED << _state, timerid, busy, callback, pc, ownerVars, codeVars, history >>

ends_as(c) == IF c \in Interrupters THEN "interrupted" ELSE "timed_out"

\* Mutant: whatever generation runs is ended
CallerExchange_any(c) ==
    /\ caller[c].at = "pending"
    /\ IF timer_state = "running"
       THEN /\ _state' = [_state EXCEPT !.state = ends_as(c), !.callback_in_flight = TRUE]
            /\ CallerGoes(c, "won")
       ELSE CallerGoes(c, "idle") /\ UNCHANGED _state
    /\ UNCHANGED << busy, callback, codeVars >>

CallerExchange(c) ==
    /\ caller[c].at = "pending"
    /\ IF _state = timer_state_t("running", FALSE, caller[c].gen)
       THEN /\ _state' = timer_state_t(ends_as(c), TRUE, caller[c].gen)
            /\ CallerGoes(c, "won")
       ELSE CallerGoes(c, "idle") /\ UNCHANGED _state
    /\ UNCHANGED << busy, callback, codeVars >>

\* call_expiration_callback(): nothing is called while the variables are busy
TryLock(c) ==
    /\ caller[c].at = "won"
    /\ busy' = TRUE
    /\ CallerGoes(c, IF busy THEN "store" ELSE "locked")
    /\ UNCHANGED << _state, callback, codeVars >>

\* The callback takes the right to execute from the mapping ...
CallCallback(c) ==
    /\ caller[c].at = "locked"
    /\ mapping' = (mapping /\ ~ callback)
    /\ CallerGoes(c, IF callback THEN "called" ELSE "unlock")
    /\ UNCHANGED << _state, busy, callback, mapping_is_executable >>

\* ... and records that it did
RecordCallback(c) ==
    /\ caller[c].at = "called"
    /\ mapping_is_executable' = FALSE
    /\ CallerGoes(c, "unlock")
    /\ UNCHANGED << _state, busy, callback, mapping >>

Unlock(c) ==
    /\ caller[c].at = "unlock"
    /\ busy' = FALSE
    /\ CallerGoes(c, "store")
    /\ UNCHANGED << _state, callback, codeVars >>

CallerStore(c) ==
    /\ caller[c].at = "store"
    /\ _state' = timer_state_t(ends_as(c), FALSE, caller[c].gen)
    /\ CallerGoes(c, "idle")
    /\ UNCHANGED << busy, callback, codeVars >>

----------------------------------------------------------------------------
Start == StartForever \/ StartPast \/ StartTimed

OwnerStep ==
    \/ Arm \/ ArmFails
    \/ Checktime \/ Execute \/ SpinToSet \/ SetFunc
    \/ CheckThrows \/ CheckCalls \/ CheckPasses
    \/ Fault \/ FaultChecktime \/ SpinToClear \/ ClearFunc
    \/ Stop \/ StopExchange \/ StopSpin \/ StopAlready \/ StopStore \/ StopDisarm
    \/ Destroy \/ SpinToEnd \/ EndFunc

CallerStep(c) ==
    \/ CallerExchange(c) \/ TryLock(c) \/ CallCallback(c) \/ RecordCallback(c)
    \/ Unlock(c) \/ CallerStore(c)

Next ==
    \/ Start \/ Finish \/ OwnerStep
    \/ \E g \in Generations : Expire(g)
    \/ \E c \in Interrupters : Interrupt(c)
    \/ \E c \in Callers : CallerStep(c)

\* The operating system runs every thread, raises an armed timer's signal and
\* delivers it.  The contract need not return, and nobody has to interrupt.
Fairness ==
    /\ WF_vars(OwnerStep)
    /\ \A g \in Generations : WF_vars(Expire(g))
    /\ \A c \in Callers : WF_vars(CallerStep(c))

Spec == Init /\ [][Next]_vars /\ Fairness

----------------------------------------------------------------------------
\* Where the owner has a callback registered
Registered == {"check", "wasm", "fault", "clear1", "clear2"}

\* Once stop() has stored "stopped" no callback is called any more until the next
\* start(), and a callback runs only while the executor it was given is inside
\* execute() (stop() waits for callback_in_flight, set_expiration_callback() for
\* _callback_variables_busy).  The header only promises the second half.  The timer is
\* then stopped whenever start() is called, as its assertion demands.
CallbackConfined ==
    overwritten \/
    /\ pc \in AfterStop => timer_state = "stopped"
    /\ pc \in AfterStop => \A c \in Callers : caller[c].at \notin InFlight
    /\ \A c \in Callers : caller[c].at = "called" => pc \in Registered

\* An ended timer and a contract without the right to execute go together.  A callback that
\* was skipped because the variables were busy is made up for: when nobody is in the middle of
\* ending the run, a contract that still runs under an ended timer has lost the right.  And a
\* contract is stopped by a fault only under an ended timer, so that checktime() throws instead
\* of letting a half-executed action pass for a complete one; between actions the executor's
\* record of the mapping is right.
ExpiryReachesContract ==
    overwritten \/
    /\ pc = "wasm" /\ timer_state # "running" /\ ~ _state.callback_in_flight => ~ mapping
    /\ pc \in {"wasm", "fault"} /\ ~ mapping => timer_state # "running"
    /\ pc = "trx" => (mapping <=> mapping_is_executable)

\* A run times out by its own deadline: a late signal of an earlier start() never
\* ends it (the generation in the exchange of expire_now()), and stop() leaves no
\* kernel timer armed that could expire in a later run.
OwnDeadline ==
    overwritten \/
    /\ timer_state = "timed_out" => due
    /\ pc \in {"stopped", "idle"} => timerid = {}

\* A contract that loops forever is stopped when it has a deadline or is interrupted.
ContractEnds ==
    (pc = "wasm" /\ ~ overwritten /\ (~ timer_running_forever \/ timer_state # "running"))
        ~> (pc # "wasm")
=============================================================================
