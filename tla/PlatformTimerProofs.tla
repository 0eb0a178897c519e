------------------------- MODULE PlatformTimerProofs -------------------------
(***************************************************************************)
(* The safety properties of PlatformTimer, proved for any number of kernel  *)
(* timers, any set of interrupting threads and any number of starts.         *)
(***************************************************************************)
EXTENDS PlatformTimer, TLAPS

Locking == {"locked", "called", "unlock"}
OwnerLocking == {"set2", "clear2", "end2"}

\* _callback_variables_busy is a lock, held by the owner or by one caller
Locks ==
    /\ pc \in OwnerLocking => busy
    /\ \A c \in Callers : caller[c].at \in Locking => busy /\ pc \notin OwnerLocking
    /\ busy => pc \in OwnerLocking \/ \E c \in Callers : caller[c].at \in Locking
    /\ callback <=> pc \in Registered

\* At most one caller is in flight, and _state says so until its last store
Flights ==
    /\ _state.generation_running = generation
    /\ \A c \in Callers : caller[c].at \in InFlight =>
          _state = timer_state_t(ends_as(c), TRUE, generation) /\ caller[c].gen = generation
    /\ \A c, d \in Callers :
          caller[c].at \in InFlight /\ caller[d].at \in InFlight => c = d
    /\ _state.callback_in_flight => timer_state \in {"timed_out", "interrupted"}

\* What stop() knows of _state
Stopping ==
    /\ pc \in AfterStop => timer_state = "stopped" /\ ~ _state.callback_in_flight
    /\ pc = "stop2" => timer_state # "running"
    /\ pc = "stop2" /\ ~ prior_state.callback_in_flight =>
          timer_state = prior_state.state /\ ~ _state.callback_in_flight
    /\ pc = "stop2" => prior_state.state # "running"
    /\ pc = "stop2" => (prior_state.state = "stopped" <=> timer_state = "stopped")
    /\ pc \in {"stop2", "stop3"} /\ (pc = "stop2" => timer_state # "stopped")
          => (prior_state.state = "timed_out" => generation \notin timerid)
    /\ pc \notin AfterStop \cup {"stop1", "stop2"} => timer_state # "stopped"

\* What the code mapping may be executed for
Mapped ==
    /\ (\A c \in Callers : caller[c].at # "called") => (mapping <=> mapping_is_executable)
    /\ \A c \in Callers : caller[c].at = "called" => ~ mapping /\ pc \in Registered
    /\ pc \in {"set1", "set2"} => mapping
    /\ pc \in {"check", "wasm", "fault"} /\ ~ mapping => timer_state # "running"
    /\ pc = "wasm" /\ timer_state # "running" /\ ~ _state.callback_in_flight => ~ mapping
    /\ pc = "wasm" => \A c \in Callers : caller[c].at \in {"called", "unlock", "store"} => ~ mapping

\* Which kernel timer is armed, and whose deadline a pending signal stands for
Deadlines ==
    /\ timer_state = "timed_out" => due
    /\ \A g \in timerid : g = generation /\ ~ timer_running_forever
    /\ timer_state = "timed_out" => generation \notin timerid
    /\ \A g \in Generations : caller[g].at # "idle" => caller[g].gen = g
    /\ \A g \in Generations : caller[g].at # "idle" /\ g = generation =>
          due /\ pc # "start2" /\ g \notin timerid
    /\ pc \in {"stopped", "end1", "end2", "idle", "start2"} => timerid = {}
    /\ pc \in {"stop1", "stop2"} /\ timer_state = "stopped" => timerid = {}
    /\ pc = "start2" => timer_state # "timed_out" /\ ~ timer_running_forever

TimerStates == [state : States, callback_in_flight : BOOLEAN, generation_running : Generations]

\* The types the argument needs
Shapes ==
    /\ _state \in TimerStates
    /\ prior_state \in TimerStates
    /\ generation \in Generations
    /\ timerid \subseteq Generations
    /\ pc \in OwnerPoints
    /\ caller \in [Callers -> [at : CallerPoints, gen : Generations]]

Core == Locks /\ Flights /\ Stopping /\ Mapped /\ Deadlines

IInv == Shapes /\ (overwritten \/ Core)

----------------------------------------------------------------------------
\* The generation that start() goes to is one of the kernel timers
LEMMA NextGeneration == Shapes => next_generation \in Generations
BY TimersAssumption DEF Shapes, next_generation, Generations

\* What the code stores in _state is a timer_state_t
LEMMA StateShape ==
    ASSUME NEW s \in States, NEW g \in Generations
    PROVE  /\ timer_state_t(s, FALSE, g) \in TimerStates
           /\ timer_state_t(s, TRUE, g) \in TimerStates
BY DEF timer_state_t, TimerStates

\* The timer is constructed with the types
LEMMA ShapesInit == Init => Shapes
BY TimersAssumption, StartsAssumption
   DEF TimerStates, Init, Shapes, timer_state_t, States, Generations, Callers, OwnerPoints,
       CallerPoints, InFlight

\* Every step keeps the types
LEMMA ShapesStep == Shapes /\ [Next]_vars => Shapes'
<1> SUFFICES ASSUME Shapes, [Next]_vars PROVE Shapes'
  OBVIOUS
<1>g. next_generation \in Generations
  BY NextGeneration
<1> USE DEF Shapes
<1>1. CASE UNCHANGED vars
  BY <1>1 DEF vars, ownerVars, codeVars, history
<1>2. CASE Start
  BY <1>2, <1>g, StateShape, Zenon
     DEF Start, States, StartForever, StartPast, StartTimed, StartAs, OwnerPoints, codeVars
<1>3. CASE Arm
  BY <1>3 DEF Arm, ownerVars, codeVars, history, OwnerPoints
<1>4. CASE ArmFails
  BY <1>4, StateShape, Zenon DEF ArmFails, ownerVars, codeVars, history, OwnerPoints, States
<1>5. CASE Checktime
  BY <1>5 DEF Checktime, OwnerGoes, ownerVars, codeVars, history, OwnerPoints
<1>6. CASE Execute
  BY <1>6 DEF Execute, OwnerGoes, ownerVars, codeVars, history, OwnerPoints
<1>7. CASE SpinToSet
  BY <1>7 DEF SpinToSet, Acquire, OwnerGoes, ownerVars, codeVars, history, OwnerPoints
<1>8. CASE SetFunc
  BY <1>8 DEF SetFunc, SetCallback, OwnerGoes, ownerVars, codeVars, history, OwnerPoints
<1>9. CASE CheckThrows
  BY <1>9 DEF CheckThrows, OwnerGoes, ownerVars, codeVars, history, OwnerPoints
<1>10. CASE CheckCalls
  BY <1>10 DEF CheckCalls, OwnerGoes, ownerVars, codeVars, history, OwnerPoints
<1>11. CASE CheckPasses
  BY <1>11 DEF CheckPasses, OwnerGoes, ownerVars, codeVars, history, OwnerPoints
<1>12. CASE Finish
  BY <1>12 DEF Finish, OwnerGoes, ownerVars, codeVars, history, OwnerPoints
<1>13. CASE Fault
  BY <1>13 DEF Fault, OwnerGoes, ownerVars, codeVars, history, OwnerPoints
<1>14. CASE FaultChecktime
  BY <1>14 DEF FaultChecktime, OwnerGoes, ownerVars, codeVars, history, OwnerPoints
<1>15. CASE SpinToClear
  BY <1>15 DEF SpinToClear, Acquire, OwnerGoes, ownerVars, codeVars, history, OwnerPoints
<1>16. CASE ClearFunc
  BY <1>16 DEF ClearFunc, SetCallback, OwnerGoes, ownerVars, codeVars, history, OwnerPoints
<1>17. CASE Stop
  BY <1>17 DEF Stop, OwnerGoes, ownerVars, codeVars, history, OwnerPoints
<1>18. CASE StopExchange
  BY <1>18, StateShape, Zenon DEF StopExchange, StopGoes, codeVars, history, OwnerPoints, States
<1>19. CASE StopSpin
  BY <1>19 DEF StopSpin, StopGoes, codeVars, history, OwnerPoints
<1>20. CASE StopAlready
  BY <1>20 DEF StopAlready, StopGoes, codeVars, history, OwnerPoints
<1>21. CASE StopStore
  BY <1>21, StateShape, Zenon DEF StopStore, StopGoes, codeVars, history, OwnerPoints, States
<1>22. CASE StopDisarm
  BY <1>22 DEF StopDisarm, StopGoes, codeVars, history, OwnerPoints
<1>23. CASE Destroy
  BY <1>23 DEF Destroy, OwnerGoes, ownerVars, codeVars, history, OwnerPoints
<1>24. CASE SpinToEnd
  BY <1>24 DEF SpinToEnd, Acquire, OwnerGoes, ownerVars, codeVars, history, OwnerPoints
<1>25. CASE EndFunc
  BY <1>25 DEF EndFunc, SetCallback, OwnerGoes, ownerVars, codeVars, history, OwnerPoints
<1>26. ASSUME NEW g \in Generations, Expire(g) PROVE Shapes'
  BY <1>26 DEF Expire, codeVars, ownerVars, history, Callers, CallerPoints, InFlight
<1>27. ASSUME NEW c \in Interrupters, Interrupt(c) PROVE Shapes'
  BY <1>27 DEF Interrupt, codeVars, ownerVars, history, Callers, CallerPoints, InFlight,
     TimerStates
<1>28. ASSUME NEW c \in Callers, CallerExchange(c) PROVE Shapes'
  <2>1. timer_state_t(ends_as(c), TRUE, caller[c].gen) \in TimerStates
        /\ timer_state_t(ends_as(c), FALSE, caller[c].gen) \in TimerStates
    BY StateShape, Zenon DEF ends_as, States
  <2> QED
    BY <1>28, <2>1, Zenon DEF CallerExchange, CallerGoes, codeVars, ownerVars, history, CallerPoints, InFlight
<1>29. ASSUME NEW c \in Callers, TryLock(c) PROVE Shapes'
  BY <1>29 DEF TryLock, CallerGoes, codeVars, ownerVars, history, Callers, CallerPoints,
     InFlight
<1>30. ASSUME NEW c \in Callers, CallCallback(c) PROVE Shapes'
  BY <1>30 DEF CallCallback, CallerGoes, codeVars, ownerVars, history, Callers,
     CallerPoints, InFlight
<1>31. ASSUME NEW c \in Callers, RecordCallback(c) PROVE Shapes'
  BY <1>31 DEF RecordCallback, CallerGoes, codeVars, ownerVars, history, Callers,
     CallerPoints, InFlight
<1>32. ASSUME NEW c \in Callers, Unlock(c) PROVE Shapes'
  BY <1>32 DEF Unlock, CallerGoes, codeVars, ownerVars, history, Callers, CallerPoints,
     InFlight
<1>33. ASSUME NEW c \in Callers, CallerStore(c) PROVE Shapes'
  <2>1. timer_state_t(ends_as(c), TRUE, caller[c].gen) \in TimerStates
        /\ timer_state_t(ends_as(c), FALSE, caller[c].gen) \in TimerStates
    BY StateShape, Zenon DEF ends_as, States
  <2> QED
    BY <1>33, <2>1, Zenon DEF CallerStore, CallerGoes, codeVars, ownerVars, history, CallerPoints, InFlight
<1> QED
  BY <1>1, <1>2, <1>3, <1>4, <1>5, <1>6, <1>7, <1>8, <1>9, <1>10, <1>11, <1>12, <1>13,
     <1>14, <1>15, <1>16, <1>17, <1>18, <1>19, <1>20, <1>21, <1>22, <1>23, <1>24, <1>25,
     <1>26, <1>27, <1>28, <1>29, <1>30, <1>31, <1>32, <1>33 DEF Next, OwnerStep, CallerStep

\* The timer is constructed stopped, with no callback and nobody about to call one
LEMMA CoreInit == Init => Core
BY TimersAssumption, InterruptersAssumption
   DEF Init, Core, Locks, Flights, Stopping, Mapped, Deadlines, Registered, OwnerLocking, Locking,
       InFlight, AfterStop, timer_state, timer_state_t, Callers, Generations

\* Every step keeps the core of the invariant, unless it overwrites a callback in flight
LEMMA CoreStep == Shapes /\ Shapes' /\ Core /\ ~ overwritten' /\ [Next]_vars => Core'
<1> SUFFICES ASSUME Shapes, Shapes', Core, ~ overwritten', [Next]_vars PROVE Core'
  OBVIOUS
<1> USE TimersAssumption, InterruptersAssumption
    DEF Shapes, Core, TimerStates, timer_state_t, timer_state
<1>1. CASE StartForever
  BY <1>1, SMTT(30) DEF StartForever, StartAs, NotLapped, codeVars, Locks, Flights,
     Stopping, Mapped, Deadlines, OwnerLocking, Registered, AfterStop, Callers, Generations
<1>2. CASE StartPast
  <2>1. Locks'
    BY <1>2, SMTT(30) DEF StartPast, StartAs, Locks, OwnerLocking, Registered
  <2>2. Flights'
    BY <1>2, SMTT(30) DEF StartPast, StartAs, Flights, Stopping, AfterStop
  <2>3. Stopping'
    BY <1>2, SMTT(30) DEF StartPast, StartAs, Stopping, AfterStop
  <2>4. Mapped'
    BY <1>2, SMTT(30) DEF StartPast, StartAs, codeVars, Mapped, Registered
  <2>5. Deadlines'
    <3>1. /\ due'
          /\ generation' = next_generation /\ timerid' = timerid /\ caller' = caller
          /\ pc' = "trx" /\ pc \in {"idle", "stopped"}
      BY <1>2, Zenon DEF StartPast, StartAs
    <3>2. timerid' = {} /\ \A g \in Generations : caller'[g].at # "idle" => caller'[g].gen = g
      BY <3>1 DEF Deadlines
    <3> QED
      BY <3>1, <3>2 DEF Deadlines
  <2> QED
    BY <2>1, <2>2, <2>3, <2>4, <2>5
<1>3. CASE StartTimed
  BY <1>3, SMTT(30) DEF StartTimed, StartAs, NotLapped, codeVars, Locks, Flights, Stopping,
     Mapped, Deadlines, OwnerLocking, Registered, InFlight, AfterStop, Callers, Generations
<1>4. CASE Arm
  BY <1>4, SMTT(30) DEF Arm, ownerVars, codeVars, Locks, Flights, Stopping, Mapped,
     Deadlines, OwnerLocking, Registered, AfterStop
<1>5. CASE ArmFails
  BY <1>5, SMTT(30) DEF ArmFails, ownerVars, codeVars, Locks, Flights, Stopping, Mapped,
     Deadlines, OwnerLocking, Registered, AfterStop
<1>6. CASE Checktime
  BY <1>6, SMTT(30) DEF Checktime, OwnerGoes, codeVars, history, Locks, Flights, Stopping,
     Mapped, Deadlines
<1>7. CASE Execute
  <2>1. Locks'
    BY <1>7, SMTT(30) DEF Execute, OwnerGoes, Locks, OwnerLocking, Registered
  <2>2. Flights'
    BY <1>7, SMTT(30) DEF Execute, OwnerGoes, Flights
  <2>3. Stopping'
    BY <1>7, SMTT(30) DEF Execute, OwnerGoes, Stopping, AfterStop
  <2>4. Mapped'
    <3>1. \A c \in Callers : caller[c].at # "called"
      BY <1>7 DEF Execute, Mapped, Registered
    <3>2. mapping <=> mapping_is_executable
      BY <3>1 DEF Mapped
    <3>3. mapping'
      BY <1>7, <3>2, Zenon DEF Execute
    <3>4. mapping_is_executable' /\ pc' = "set1" /\ caller' = caller
      BY <1>7 DEF Execute, OwnerGoes
    <3> QED
      BY <3>1, <3>3, <3>4 DEF Mapped
  <2>5. Deadlines'
    BY <1>7, SMTT(30) DEF Execute, OwnerGoes, history, Deadlines
  <2> QED
    BY <2>1, <2>2, <2>3, <2>4, <2>5
<1>8. CASE SpinToSet
  BY <1>8, SMTT(30) DEF SpinToSet, Acquire, OwnerGoes, codeVars, history, Locks, Flights,
     Stopping, Mapped, Deadlines, OwnerLocking, Registered, AfterStop
<1>9. CASE SetFunc
  BY <1>9, SMTT(30) DEF SetFunc, SetCallback, OwnerGoes, codeVars, history, Locks, Flights,
     Stopping, Mapped, Deadlines, OwnerLocking, Registered, AfterStop
<1>10. CASE CheckThrows
  BY <1>10, SMTT(30) DEF CheckThrows, OwnerGoes, codeVars, history, Locks, Flights,
     Stopping, Mapped, Deadlines, OwnerLocking, Registered, AfterStop
<1>11. CASE CheckCalls
  BY <1>11, SMTT(30) DEF CheckCalls, OwnerGoes, history, Locks, Flights, Stopping, Mapped,
     Deadlines, OwnerLocking, Registered, AfterStop
<1>12. CASE CheckPasses
  BY <1>12, SMTT(30) DEF CheckPasses, OwnerGoes, codeVars, history, Locks, Flights,
     Stopping, Mapped, Deadlines, OwnerLocking, Registered, InFlight, AfterStop
<1>13. CASE Finish
  BY <1>13, SMTT(30) DEF Finish, OwnerGoes, codeVars, history, Locks, Flights, Stopping,
     Mapped, Deadlines, OwnerLocking, Registered, AfterStop
<1>14. CASE Fault
  BY <1>14, SMTT(30) DEF Fault, OwnerGoes, codeVars, history, Locks, Flights, Stopping,
     Mapped, Deadlines, OwnerLocking, Registered, AfterStop
<1>15. CASE FaultChecktime
  BY <1>15, SMTT(30) DEF FaultChecktime, OwnerGoes, codeVars, history, Locks, Flights,
     Stopping, Mapped, Deadlines, OwnerLocking, Registered, AfterStop
<1>16. CASE SpinToClear
  BY <1>16, SMTT(30) DEF SpinToClear, Acquire, OwnerGoes, codeVars, history, Locks, Flights,
     Stopping, Mapped, Deadlines, OwnerLocking, Registered, AfterStop
<1>17. CASE ClearFunc
  BY <1>17, SMTT(30) DEF ClearFunc, SetCallback, OwnerGoes, codeVars, history, Locks,
     Flights, Stopping, Mapped, Deadlines, Locking, OwnerLocking, Registered, AfterStop
<1>18. CASE Stop
  BY <1>18, SMTT(30) DEF Stop, OwnerGoes, codeVars, history, Locks, Flights, Stopping,
     Mapped, Deadlines, OwnerLocking, Registered, AfterStop
<1>19. CASE StopExchange
  BY <1>19, SMTT(30) DEF StopExchange, StopGoes, codeVars, history, Locks, Flights,
     Stopping, Mapped, Deadlines, OwnerLocking, Registered, AfterStop, Generations
<1>20. CASE StopSpin
  BY <1>20, SMTT(30) DEF StopSpin, StopGoes, codeVars, history, Locks, Flights, Stopping,
     Mapped, Deadlines
<1>21. CASE StopAlready
  BY <1>21, SMTT(30) DEF StopAlready, StopGoes, codeVars, history, Locks, Flights, Stopping,
     Mapped, Deadlines, OwnerLocking, Registered, AfterStop
<1>22. CASE StopStore
  BY <1>22, SMTT(30) DEF StopStore, StopGoes, codeVars, history, Locks, Flights, Stopping,
     Mapped, Deadlines, OwnerLocking, Registered, AfterStop
<1>23. CASE StopDisarm
  BY <1>23, SMTT(30) DEF StopDisarm, StopGoes, codeVars, history, Locks, Flights, Stopping,
     Mapped, Deadlines, OwnerLocking, Registered, AfterStop
<1>24. CASE Destroy
  BY <1>24, SMTT(30) DEF Destroy, OwnerGoes, codeVars, history, Locks, Flights, Stopping,
     Mapped, Deadlines, OwnerLocking, Registered, AfterStop
<1>25. CASE SpinToEnd
  BY <1>25, SMTT(30) DEF SpinToEnd, Acquire, OwnerGoes, codeVars, history, Locks, Flights,
     Stopping, Mapped, Deadlines, OwnerLocking, Registered, AfterStop
<1>26. CASE EndFunc
  BY <1>26, SMTT(30) DEF EndFunc, SetCallback, OwnerGoes, codeVars, history, Locks, Flights,
     Stopping, Mapped, Deadlines, OwnerLocking, Registered, AfterStop
<1>27. ASSUME NEW g \in Generations, Expire(g) PROVE Core'
  <2>1. Locks'
    BY <1>27, SMTT(30) DEF Expire, Locks, Locking
  <2>2. Flights'
    BY <1>27, SMTT(30) DEF Expire, ownerVars, Flights, InFlight
  <2>3. Stopping'
    BY <1>27, SMTT(30) DEF Expire, ownerVars, Stopping
  <2>4. Mapped'
    BY <1>27, SMTT(30) DEF Expire, codeVars, Mapped
  <2>5. Deadlines'
    <3>1. (due => due') /\ (g = generation => due')
      BY <1>27, Zenon DEF Expire
    <3>2. /\ g \in timerid /\ timerid' = timerid \ {g}
          /\ _state' = _state /\ pc' = pc /\ generation' = generation
          /\ timer_running_forever' = timer_running_forever
          /\ caller'[g].at = "pending" /\ caller'[g].gen = g
          /\ \A d \in Generations : d # g => caller'[d] = caller[d]
      BY <1>27 DEF Expire, ownerVars, Callers
    <3>3. g = generation
      BY <3>2, SMTT(30) DEF Deadlines
    <3> QED
      BY <3>1, <3>2, <3>3 DEF Deadlines
  <2> QED
    BY <2>1, <2>2, <2>3, <2>4, <2>5
<1>28. ASSUME NEW c \in Interrupters, Interrupt(c) PROVE Core'
  BY <1>28, SMTT(30) DEF Interrupt, codeVars, ownerVars, history, Locks, Flights, Stopping,
     Mapped, Deadlines, Locking, InFlight
<1>29. ASSUME NEW c \in Callers, CallerExchange(c) PROVE Core'
  <2>0. \A d \in Callers : caller'[d].gen = caller[d].gen /\ (d # c => caller'[d].at = caller[d].at)
    BY <1>29 DEF CallerExchange, CallerGoes
  <2>1. CASE _state = timer_state_t("running", FALSE, caller[c].gen)
    <3>1. /\ _state' = timer_state_t(ends_as(c), TRUE, caller[c].gen)
          /\ caller'[c].at = "won"
          /\ UNCHANGED << busy, callback, mapping, mapping_is_executable, timerid, pc, generation,
                          timer_running_forever, prior_state, due >>
      BY <1>29, <2>1 DEF CallerExchange, CallerGoes, ownerVars, codeVars, history
    <3>2. timer_state = "running" /\ ~ _state.callback_in_flight
      BY <2>1
    <3>3. \A d \in Callers : caller[d].at \notin InFlight
      BY <3>2 DEF Flights
    <3>4. timer_state' = ends_as(c) /\ timer_state' \in {"timed_out", "interrupted"}
          /\ _state'.callback_in_flight /\ _state'.generation_running = generation
          /\ caller[c].gen = generation
      BY <2>1, <3>1 DEF ends_as, Flights
    <3> HIDE DEF timer_state_t, timer_state, TimerStates, Core
    <3>5. Locks'
      BY <2>0, <3>1, <3>3 DEF Core, Locks, Locking, InFlight
    <3>6. Flights'
      BY <2>0, <3>1, <3>3, <3>4, Zenon DEF Core, Flights, InFlight
    <3>7. Stopping'
      BY <3>1, <3>2, <3>4, Zenon DEF Core, Stopping, AfterStop
    <3>8. Mapped'
      BY <2>0, <3>1, <3>2, <3>3, <3>4, Zenon DEF Core, Mapped, InFlight
    <3>9. Deadlines'
      BY <2>0, <3>1, <3>2, <3>4, <1>29 DEF Core, Deadlines, ends_as, Callers, CallerExchange
    <3> QED
      BY <3>5, <3>6, <3>7, <3>8, <3>9 DEF Core
  <2>2. CASE _state # timer_state_t("running", FALSE, caller[c].gen)
    <3>1. /\ caller'[c].at = "idle" /\ caller[c].at = "pending"
          /\ UNCHANGED << _state, busy, callback, mapping, mapping_is_executable, timerid, pc,
                          generation, timer_running_forever, prior_state, due >>
      BY <1>29, <2>2 DEF CallerExchange, CallerGoes, ownerVars, codeVars, history
    <3>2. timer_state' = timer_state
      BY <3>1
    <3> HIDE DEF timer_state_t, timer_state, TimerStates, Core
    <3>5. Locks'
      BY <2>0, <3>1 DEF Core, Locks, Locking
    <3>6. Flights'
      BY <2>0, <3>1, <3>2, Zenon DEF Core, Flights, InFlight
    <3>7. Stopping'
      BY <3>1, <3>2 DEF Core, Stopping
    <3>8. Mapped'
      BY <2>0, <3>1, <3>2 DEF Core, Mapped
    <3>9. Deadlines'
      BY <2>0, <3>1, <3>2, SMTT(30) DEF Core, Deadlines, Callers
    <3> QED
      BY <3>5, <3>6, <3>7, <3>8, <3>9 DEF Core
  <2> QED
    BY <2>1, <2>2
<1>30. ASSUME NEW c \in Callers, TryLock(c) PROVE Core'
  BY <1>30, SMTT(30) DEF TryLock, CallerGoes, codeVars, ownerVars, history, Locks, Flights,
     Stopping, Mapped, Deadlines, Locking, OwnerLocking, InFlight
<1>31. ASSUME NEW c \in Callers, CallCallback(c) PROVE Core'
  <2>1. Locks'
    BY <1>31, SMTT(30) DEF CallCallback, CallerGoes, Locks, Locking
  <2>2. Flights'
    BY <1>31, SMTT(30) DEF CallCallback, CallerGoes, ownerVars, Flights, InFlight
  <2>3. Stopping'
    BY <1>31, SMTT(30) DEF CallCallback, CallerGoes, ownerVars, Stopping
  <2>4. Mapped'
    <3>1. _state = timer_state_t(ends_as(c), TRUE, generation)
      BY <1>31 DEF CallCallback, Flights, InFlight
    <3>2. timer_state # "running" /\ timer_state' = timer_state /\ pc' = pc
      BY <1>31, <3>1 DEF CallCallback, CallerGoes, ends_as
    <3>3. /\ caller[c].at = "locked"
          /\ caller'[c].at = (IF callback THEN "called" ELSE "unlock")
          /\ \A d \in Callers : d # c => caller'[d].at = caller[d].at
          /\ \A d \in Callers : d # c => caller[d].at \notin InFlight
      BY <1>31 DEF CallCallback, CallerGoes, Flights, InFlight
    <3>4. _state'.callback_in_flight
      BY <1>31, <3>1 DEF CallCallback
    <3>5. CASE callback
      <4>1. ~ mapping' /\ pc \in Registered /\ caller'[c].at = "called"
        BY <1>31, <3>3, <3>5, Zenon DEF CallCallback, Locks
      <4> QED
        BY <3>2, <3>3, <3>4, <4>1 DEF Mapped, Registered, InFlight
    <3>6. CASE ~ callback
      <4>1. (mapping' <=> mapping) /\ (mapping_is_executable' <=> mapping_is_executable)
        BY <1>31, <3>6, Zenon DEF CallCallback
      <4>2. pc \notin Registered /\ caller'[c].at = "unlock"
        BY <3>3, <3>6 DEF Locks
      <4>3. \A d \in Callers : caller[d].at # "called" /\ caller'[d].at # "called"
        BY <3>3, <4>2 DEF InFlight
      <4> QED
        BY <3>2, <4>1, <4>2, <4>3 DEF Mapped, Registered
    <3> QED
      BY <3>5, <3>6
  <2>5. Deadlines'
    BY <1>31, SMTT(30) DEF CallCallback, CallerGoes, ownerVars, history, Deadlines
  <2> QED
    BY <2>1, <2>2, <2>3, <2>4, <2>5
<1>32. ASSUME NEW c \in Callers, RecordCallback(c) PROVE Core'
  BY <1>32, SMTT(30) DEF RecordCallback, CallerGoes, ownerVars, history, Locks, Flights,
     Stopping, Mapped, Deadlines, Locking, InFlight
<1>33. ASSUME NEW c \in Callers, Unlock(c) PROVE Core'
  BY <1>33, SMTT(30) DEF Unlock, CallerGoes, codeVars, ownerVars, history, Locks, Flights,
     Stopping, Mapped, Deadlines, Locking, InFlight
<1>34. ASSUME NEW c \in Callers, CallerStore(c) PROVE Core'
  BY <1>34, SMTT(30) DEF CallerStore, CallerGoes, codeVars, ownerVars, history, Locks,
     Flights, Stopping, Mapped, Deadlines, Locking, InFlight
<1>35. CASE UNCHANGED vars
  BY <1>35 DEF vars, ownerVars, codeVars, history, Locks, Locking, OwnerLocking, Registered,
     Flights, InFlight, ends_as, Stopping, AfterStop, Mapped, Deadlines
<1> QED
  BY <1>1, <1>2, <1>3, <1>4, <1>5, <1>6, <1>7, <1>8, <1>9, <1>10, <1>11, <1>12, <1>13,
     <1>14, <1>15, <1>16, <1>17, <1>18, <1>19, <1>20, <1>21, <1>22, <1>23, <1>24, <1>25,
     <1>26, <1>27, <1>28, <1>29, <1>30, <1>31, <1>32, <1>33, <1>34, <1>35 DEF Next, Start,
     OwnerStep, CallerStep

\* A store over a callback in flight is remembered
LEMMA OverwrittenStays == [Next]_vars /\ overwritten => overwritten'
<1> SUFFICES ASSUME [Next]_vars, overwritten PROVE overwritten'
  OBVIOUS
<1>1. CASE UNCHANGED vars
  BY <1>1 DEF vars, history
<1>2. CASE Start \/ Finish
  BY <1>2, Zenon DEF Start, StartForever, StartPast, StartTimed, StartAs, Finish, history
<1>3. CASE OwnerStep
  BY <1>3, Zenon DEF OwnerStep, Arm, ArmFails, Checktime, Execute, SpinToSet, SetFunc, CheckThrows,
     CheckCalls, CheckPasses, Fault, FaultChecktime, SpinToClear, ClearFunc, Stop, StopExchange,
     StopSpin, StopAlready, StopStore, StopDisarm, Destroy, SpinToEnd, EndFunc, Acquire,
     SetCallback, StopGoes, history
<1>4. ASSUME NEW c \in Callers, CallerStep(c) PROVE overwritten'
  BY <1>4, Zenon DEF CallerStep, CallerExchange, TryLock, CallCallback, RecordCallback, Unlock,
     CallerStore, CallerGoes, history
<1>5. ASSUME NEW g \in Generations, Expire(g) PROVE overwritten'
  BY <1>5 DEF Expire
<1>6. ASSUME NEW c \in Interrupters, Interrupt(c) PROVE overwritten'
  BY <1>6 DEF Interrupt, history
<1> QED
  BY <1>1, <1>2, <1>3, <1>4, <1>5, <1>6 DEF Next

\* The lock, the flights, what stop() knows, the mapping and the deadlines hold together in
\* every state of the timer and of those who use it.
THEOREM Inductive == Spec => []IInv
<1>1. Init => IInv
  BY ShapesInit, CoreInit DEF IInv
<1>2. IInv /\ [Next]_vars => IInv'
  BY ShapesStep, CoreStep, OverwrittenStays DEF IInv
<1> QED
  BY <1>1, <1>2, PTL DEF Spec

\* stop() and set_expiration_callback() keep every callback inside execute(), whatever the
\* number of kernel timers and of interrupting threads.
THEOREM Confined == Spec => []CallbackConfined
<1>1. IInv => CallbackConfined
  <2> SUFFICES ASSUME Shapes, Core PROVE CallbackConfined
    BY DEF IInv, CallbackConfined
  <2>1. pc \in AfterStop => timer_state = "stopped" /\ ~ _state.callback_in_flight
    BY DEF Core, Stopping
  <2>2. ASSUME NEW c \in Callers, caller[c].at \in InFlight PROVE _state.callback_in_flight
    BY <2>2 DEF Core, Flights, timer_state_t
  <2>3. \A c \in Callers : caller[c].at = "called" => pc \in Registered
    BY DEF Core, Mapped
  <2> QED
    BY <2>1, <2>2, <2>3 DEF CallbackConfined
<1> QED
  BY <1>1, Inductive, PTL

\* An expiration that found the callback's variables busy still takes the right to execute
\* from a contract that runs, and a contract stopped by a fault finds the timer ended.
THEOREM Reaches == Spec => []ExpiryReachesContract
<1>1. IInv => ExpiryReachesContract
  BY DEF IInv, Core, Mapped, ExpiryReachesContract, Registered
<1> QED
  BY <1>1, Inductive, PTL

\* A run ends by its own deadline, and none is left armed.
THEOREM Own == Spec => []OwnDeadline
<1>1. IInv => OwnDeadline
  BY DEF IInv, Core, Deadlines, OwnDeadline
<1> QED
  BY <1>1, Inductive, PTL
=============================================================================
