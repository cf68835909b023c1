----------------------------- MODULE FFThreads ------------------------------
(***************************************************************************)
(* The threads of a FastFlow farm and the program that starts, freezes,    *)
(* thaws and joins them: ff_thread of ff/node.hpp, and run_and_wait_end(), *)
(* run_then_freeze(), wait_freezing() and wait() of ff/farm.hpp.  A thread *)
(* first meets the others at the barrier, then runs svc() until it is      *)
(* stopped; in between it may park, frozen, until it is thawed.            *)
(*                                                                         *)
(* The first two calls do something else if the farm is frozen, and it is  *)
(* frozen as soon as its threads are told to freeze, not when they have    *)
(* parked.  A program that calls them before it has waited for the threads *)
(* to park runs into the assertion of the collector, in a build that       *)
(* checks assertions.                                                      *)
(*                                                                         *)
(* stp, freezing and frozen are shared by the program and the thread;      *)
(* frozen is only written under the mutex of the thread, stp and freezing  *)
(* also without it.  A critical section is one action, and so is each      *)
(* access outside one.  The stream itself is left out but for EOS, which   *)
(* makes one svc() end after another.                                      *)
(***************************************************************************)
EXTENDS SpinBarrier, Sequences

CONSTANTS NW,                   \* the number of workers
          MaxRuns,              \* bound: how often the program is to run the farm
          Asserts,              \* is the program built with its assertions?
          WaitsAtOnce           \* may it wait() for threads it has thawed and that
                                \* have not parked since?

Emitter == 0
Workers == 1..NW
Collector == NW + 1
Threads == 0..Collector

ASSUME SomeWorkers == NW \in Nat \ {0}

ASSUME KindsOfPrograms == Asserts \in BOOLEAN /\ WaitsAtOnce \in BOOLEAN

\* spawn() takes the tids from a counter of its own: the farm is the only user
\* of the barriers of the program.
ASSUME OneBarrier == BarThreads = Threads /\ Tids = Threads

VARIABLES hpc, at,              \* the program: its call, and how far it got in it
          asked,                \* history: its calls that are to execute the farm
          cutOff,               \* history: those that stop a frozen farm instead
          gathering,            \* the running of the collector is not -1
          threadCounter,        \* internal_threadCounter
          tid,                  \* of each thread
          stp, freezing, frozen,
          pc,                   \* where each thread is
          runs,                 \* history: how often its svc() has run
          eos                   \* EOS messages in its input queue

calls == <<asked, cutOff>>
farm == <<gathering, threadCounter, tid>>
flags == <<stp, freezing, frozen>>
host == <<hpc, at, calls, farm>>
vars == <<host, flags, pc, runs, eos, barVars>>

\* The load balancer spawns its own thread and the workers, then comes the
\* gatherer; they are waited for in another order.
SpawnOrder == [i \in 1..(NW + 2) |-> i - 1]
WaitOrder == [i \in 1..(NW + 2) |-> IF i <= NW THEN i ELSE IF i = NW + 1 THEN Emitter ELSE Collector]

Init == /\ hpc = "stopped"
        /\ at = 1
        /\ asked = 0
        /\ cutOff = 0
        /\ gathering = FALSE
        /\ threadCounter = 0
        /\ tid = [t \in Threads |-> 0]
        /\ stp = [t \in Threads |-> TRUE]
        /\ freezing = [t \in Threads |-> 0]
        /\ frozen = [t \in Threads |-> FALSE]
        /\ pc = [t \in Threads |-> "none"]
        /\ runs = [t \in Threads |-> 0]
        /\ eos = [t \in Threads |-> 0]
        /\ BarInit

-----------------------------------------------------------------------------
\* Mutant: the collector is forgotten.
WithoutCollector == NW + 1

\* cardinality(): the emitter, the workers and the collector
FarmCardinality == NW + 2

Call(from, to) == /\ hpc \in from
                  /\ hpc' = to
                  /\ at' = 1

\* Mutant: wait() does not look whether the thread is to be frozen.
NeverFreezing(t) == FALSE

Isfrozen(t) == freezing[t] > 0

\* The farm has its threads, which have been told to freeze: they may be running,
\* about to park or parked.
WithThreads == {"spawned", "thawed", "frozen"}

AskedForRun == /\ asked < MaxRuns
               /\ asked' = asked + 1

\* The workers get new threads, the emitter and the collector are threads themselves.
ForNewThreads(flag, value) == [t \in Threads |-> IF t \in Workers THEN value ELSE flag[t]]

\* run_and_wait_end(): stop() all threads, set up the barrier, spawn ...
RunAndWaitEnd ==
  /\ Call({"stopped"}, "spawn")
  /\ ~Isfrozen(Emitter)
  /\ AskedForRun
  /\ stp' = [t \in Threads |-> TRUE]
  /\ freezing' = ForNewThreads(freezing, 0)
  /\ frozen' = ForNewThreads(frozen, FALSE)
  /\ BarrierSetup(FarmCardinality)
  /\ UNCHANGED <<cutOff, farm, pc, runs, eos>>

\* ... run_and_wait_end() of a frozen farm: stop() all threads, thaw(), wait().
EndFrozen ==
  /\ Call(WithThreads, "tell_to_stop")
  /\ Isfrozen(Emitter)
  /\ AskedForRun
  /\ cutOff' = cutOff + 1
  /\ UNCHANGED <<farm, flags, pc, runs, eos, barVars>>

\* run_then_freeze(): freeze() all threads, set up the barrier, spawn ...
RunThenFreeze ==
  /\ Call({"stopped"}, "spawn_to_freeze")
  /\ ~Isfrozen(Emitter)
  /\ AskedForRun
  /\ stp' = [t \in Threads |-> FALSE]
  /\ freezing' = [t \in Threads |-> 1]
  /\ frozen' = ForNewThreads(frozen, FALSE)
  /\ BarrierSetup(FarmCardinality)
  /\ UNCHANGED <<cutOff, farm, pc, runs, eos>>

\* ... run_then_freeze() of a frozen farm: thaw(true) all threads.
RunFrozen ==
  /\ Call(WithThreads, "thaw")
  /\ Isfrozen(Emitter)
  /\ AskedForRun
  /\ UNCHANGED <<cutOff, farm, flags, pc, runs, eos, barVars>>

\* wait(): the threads may be parked, or still on their way to park.
Wait ==
  /\ Call(IF WaitsAtOnce THEN WithThreads ELSE WithThreads \ {"thawed"}, "wait")
  /\ UNCHANGED <<calls, farm, flags, pc, runs, eos, barVars>>

CallWaitFreezing ==
  /\ Call({"spawned", "thawed"}, "wait_freezing")
  /\ UNCHANGED <<calls, farm, flags, pc, runs, eos, barVars>>

\* One call after another for the threads in their order.
Then(next) == /\ at' = IF at = NW + 2 THEN 1 ELSE at + 1
              /\ hpc' = IF at = NW + 2 THEN next ELSE hpc

\* spawn(): the tid is where the global counter stands.
Spawn ==
  LET t == SpawnOrder[at]
  IN  /\ hpc \in {"spawn", "spawn_to_freeze"}
      /\ tid' = [tid EXCEPT ![t] = threadCounter]
      /\ threadCounter' = threadCounter + 1
      /\ gathering' = (gathering \/ t = Collector)
      /\ pc' = [pc EXCEPT ![t] = "new"]
      /\ Then(IF hpc = "spawn" THEN "wait" ELSE "spawned")
      /\ UNCHANGED <<calls, flags, runs, eos, barVars>>

\* Mutant: thaw() leaves frozen as it is.
StillFrozen(t) == frozen[t]

ThawedFlag(t) == FALSE

\* thaw(_freeze) of the threads in S: 2 means that they freeze again the next time.
Thaw(S, next) ==
  /\ freezing' = [t \in Threads |-> IF t \in S THEN next ELSE freezing[t]]
  /\ frozen' = [t \in Threads |-> IF t \in S THEN ThawedFlag(t) ELSE frozen[t]]

\* The collector asserts that it has been waited for since it was last started:
\* running is -1.
AssertionFails == Asserts /\ SpawnOrder[at] = Collector /\ gathering

\* thaw() of one thread of the farm after another, to freeze again or to end
ThawOne ==
  /\ hpc \in {"thaw", "thaw_to_end"}
  /\ ~AssertionFails
  /\ Thaw({SpawnOrder[at]}, IF hpc = "thaw" THEN 2 ELSE 0)
  /\ gathering' = (gathering \/ SpawnOrder[at] = Collector)
  /\ Then(IF hpc = "thaw" THEN "thawed" ELSE "wait")
  /\ UNCHANGED <<calls, threadCounter, tid, stp, pc, runs, eos, barVars>>

Abort ==
  /\ hpc \in {"thaw", "thaw_to_end"}
  /\ AssertionFails
  /\ hpc' = "aborted"
  /\ UNCHANGED <<at, calls, farm, flags, pc, runs, eos, barVars>>

\* stop() of one thread after another
TellToStop ==
  /\ hpc = "tell_to_stop"
  /\ stp' = [stp EXCEPT ![WaitOrder[at]] = TRUE]
  /\ Then("thaw_to_end")
  /\ UNCHANGED <<calls, farm, freezing, frozen, pc, runs, eos, barVars>>

WaitFreezing ==
  /\ hpc = "wait_freezing"
  /\ frozen[WaitOrder[at]]
  /\ gathering' = (gathering /\ WaitOrder[at] # Collector)
  /\ Then("frozen")
  /\ UNCHANGED <<calls, threadCounter, tid, flags, pc, runs, eos, barVars>>

\* wait() of one thread: it is told to stop, if it is frozen or about to be it
\* is waited for and thawed, and it is joined.
Stop ==
  /\ hpc = "wait"
  /\ stp' = [stp EXCEPT ![WaitOrder[at]] = TRUE]
  /\ hpc' = IF Isfrozen(WaitOrder[at]) THEN "wait_to_thaw" ELSE "join"
  /\ UNCHANGED <<at, calls, farm, freezing, frozen, pc, runs, eos, barVars>>

\* thaw() of the emitter's thread is that of the load balancer, which thaws the
\* workers too.  The collector's running goes to -1 and back.
ThawedWith(t) == IF t = Emitter THEN Workers \cup {Emitter} ELSE {t}

ThawToStop ==
  /\ hpc = "wait_to_thaw"
  /\ frozen[WaitOrder[at]]
  /\ Thaw(ThawedWith(WaitOrder[at]), 0)
  /\ gathering' = (gathering \/ WaitOrder[at] = Collector)
  /\ hpc' = "join"
  /\ UNCHANGED <<at, calls, threadCounter, tid, stp, pc, runs, eos, barVars>>

Join ==
  /\ hpc = "join"
  /\ pc[WaitOrder[at]] = "done"
  /\ pc' = [pc EXCEPT ![WaitOrder[at]] = "none"]
  /\ threadCounter' = threadCounter - 1
  /\ at' = IF at = NW + 2 THEN 1 ELSE at + 1
  /\ hpc' = IF at = NW + 2 THEN "stopped" ELSE "wait"
  /\ UNCHANGED <<calls, gathering, tid, flags, runs, eos, barVars>>

StartCall == RunAndWaitEnd \/ EndFrozen \/ RunThenFreeze \/ RunFrozen \/ Wait \/ CallWaitFreezing
InCall == Spawn \/ ThawOne \/ Abort \/ TellToStop \/ WaitFreezing \/ Stop \/ ThawToStop \/ Join

-----------------------------------------------------------------------------
Goto(t, to) == pc' = [pc EXCEPT ![t] = to]

\* thread_routine(): the initial barrier ...
Enter(t) ==
  /\ pc[t] = "new"
  /\ FlipFlag(t, tid[t])
  /\ Goto(t, "barrier")
  /\ UNCHANGED <<host, flags, runs, eos>>

Cross(t) ==
  /\ pc[t] = "barrier"
  /\ BarStep(t)
  /\ Goto(t, IF bpc'[t] = "out" THEN "svc" ELSE "barrier")
  /\ UNCHANGED <<host, flags, runs, eos>>

\* ... one run of svc(), which returns EOS: the emitter at the end of its stream,
\* a worker when it gets EOS, the collector when it has EOS from all workers ...
Sent(t) == IF t = Emitter THEN [u \in Threads |-> IF u \in Workers THEN eos[u] + 1 ELSE eos[u]]
           ELSE IF t = Collector THEN [eos EXCEPT ![t] = @ - NW]
           ELSE [eos EXCEPT ![t] = @ - 1, ![Collector] = @ + 1]

Svc(t) ==
  /\ pc[t] = "svc"
  /\ t \in Workers => eos[t] > 0
  /\ t = Collector => eos[t] >= NW
  /\ eos' = Sent(t)
  /\ runs' = [runs EXCEPT ![t] = @ + 1]
  /\ Goto(t, "mutex")
  /\ UNCHANGED <<host, flags, barVars>>

\* ... the critical section, up to the wait if it is to be frozen ...
AgainNextTime(t) == [freezing EXCEPT ![t] = IF @ # 0 THEN 1 ELSE 0]

Freeze(t) ==
  /\ pc[t] = "mutex"
  /\ ~stp[t]
  /\ freezing[t] = 1
  /\ frozen' = [frozen EXCEPT ![t] = TRUE]
  /\ Goto(t, "parked")
  /\ UNCHANGED <<host, stp, freezing, runs, eos, barVars>>

GoOn(t) ==
  /\ pc[t] = "mutex"
  /\ stp[t] \/ freezing[t] # 1
  /\ stp' = [stp EXCEPT ![t] = @ \/ freezing[t] = 0]
  /\ freezing' = AgainNextTime(t)
  /\ Goto(t, "while")
  /\ UNCHANGED <<host, frozen, runs, eos, barVars>>

\* ... and from the wait on ...
WakeUp(t) ==
  /\ pc[t] = "parked"
  /\ freezing[t] # 1
  /\ freezing' = AgainNextTime(t)
  /\ Goto(t, "while")
  /\ UNCHANGED <<host, stp, frozen, runs, eos, barVars>>

\* ... while(!stp), outside the critical section ...
LoopOrLeave(t) ==
  /\ pc[t] = "while"
  /\ Goto(t, IF stp[t] THEN "leave" ELSE "svc")
  /\ UNCHANGED <<host, flags, runs, eos, barVars>>

\* ... and a last word for a program that waits for the thread to be frozen.
Finish(t) ==
  /\ pc[t] = "leave"
  /\ Goto(t, IF freezing[t] > 0 THEN "last_word" ELSE "done")
  /\ UNCHANGED <<host, flags, runs, eos, barVars>>

LastWord(t) ==
  /\ pc[t] = "last_word"
  /\ frozen' = [frozen EXCEPT ![t] = TRUE]
  /\ Goto(t, "done")
  /\ UNCHANGED <<host, stp, freezing, runs, eos, barVars>>

\* A program that aborts takes its threads with it.
ThreadStep(t) ==
  /\ hpc # "aborted"
  /\ \/ Enter(t) \/ Cross(t) \/ Svc(t) \/ Freeze(t) \/ GoOn(t) \/ WakeUp(t)
     \/ LoopOrLeave(t) \/ Finish(t) \/ LastWord(t)

Next == StartCall \/ InCall \/ \E t \in Threads : ThreadStep(t)

Spec == Init /\ [][Next]_vars

\* All threads are scheduled, and the program, which need not make another call,
\* goes on with the one it has made.
FairSpec == Spec /\ WF_vars(InCall) /\ \A t \in Threads : WF_vars(ThreadStep(t))

-----------------------------------------------------------------------------
\* No thread of the farm starts its node before all of them have been spawned and
\* have reached the barrier, in this run of the farm and not in an earlier one.
StartTogether == LeaveTogether(Threads)

\* When wait_freezing() has returned, every thread is parked and touches nothing,
\* and when wait() has returned none is left; each has then run its node once for
\* every call that was to execute the farm, but for those of run_and_wait_end()
\* that found the farm frozen, which run no node at all: no thaw is missed, none
\* counts twice, and a thread told to stop before it parks has still run.  That
\* holds in a build with assertions, which end a program that thaws the threads
\* before they have parked, and if the program does not wait() at once.
AllAtRest ==
  hpc \in {"frozen", "stopped"} =>
    /\ \A t \in Threads : runs[t] + cutOff = asked /\ eos[t] = 0
    /\ hpc = "frozen" => \A t \in Threads : pc[t] = "parked" /\ freezing[t] = 1
    /\ hpc = "stopped" => \A t \in Threads : pc[t] = "none" /\ freezing[t] = 0 /\ ~frozen[t]
    /\ threadCounter = IF hpc = "frozen" THEN NW + 2 ELSE 0

\* Every call returns, unless an assertion ends the program: no thread stays in the
\* barrier or parked when the program waits for it, and none parks unseen.  That,
\* too, holds only of such programs.
Returned == WithThreads \cup {"stopped"}

CallsReturn == hpc \notin Returned ~> hpc \in Returned \cup {"aborted"}
=============================================================================
