---------------------------- MODULE CommandsProofs ----------------------------
(***************************************************************************)
(* Proofs about memray's commands.                                         *)
(*                                                                         *)
(* Of Attach, for any number of commands, failures and trackers: an        *)
(* attached tracker can be found and ended, and nobody ends another's.     *)
(*                                                                         *)
(* Of ReportCommand, for any command lines, captures and faults:           *)
(* OutputIsSafe, the output file of a command is the user's until a report *)
(* is ready for it.  A command learns once, in Validate or ReadStatistics, *)
(* whether it may overwrite; the invariant carries what it has learnt to   *)
(* the step that opens the file, past the steps at which someone else may  *)
(* create it.  ReportIsOfFirstPass, a report is of the file as it was when *)
(* it was first read: the events that were there then stay the first ones  *)
(* of a file that grows, and the records of a second pass over them, in    *)
(* whatever order and with threads merged or not, add up to the heap that  *)
(* the first pass found.                                                   *)
(***************************************************************************)
EXTENDS Attach, ReportCommand, SumTheorems, TLAPS

Types ==
    /\ at \in [Agents -> AgentSteps]
    /\ last_tracker \in Commands \cup {None, Unset}
    /\ program \in {"running", "tracking", "joining", "at exit", "gone"}

\* An attached tracker will be found, or somebody is about to see to that, or to
\* end it.
Findable ==
    owner \in Commands =>
        \/ last_tracker \in Commands
        \/ \E c \in Commands : at[Script(c)] = "set last"
        \/ \E a \in Agents : at[a] = "exit"

\* Who is past the beginning of the script has seen to the exit handler.
Registration ==
    /\ last_tracker # Unset => registered
    /\ \A a \in Agents : at[a] \notin {"out", "connecting", "lost", "start", "done"} => registered

\* While the exit handlers run nobody else is at work, and the one that is
\* registered is on its way to the tracker that there is.
AtExit ==
    /\ program \in {"running", "tracking", "joining"} => at[Atexit] = "out"
    /\ program = "gone" => at[Atexit] = "done"
    /\ program \in {"at exit", "gone"} /\ ~late =>
        /\ program = "at exit" => \A c \in Commands : Script(c) \notin Busy
        /\ \A c \in Commands : at[Timer(c)] \in {"out", "done"}
        /\ owner \in Commands =>
              \/ at[Atexit] = "get last" /\ last_tracker \in Commands
              \/ at[Atexit] \in {"forget last", "exit"}

IInv == Types /\ Findable /\ Registration /\ AtExit

-----------------------------------------------------------------------------
(* The agents, whose names are pairs *)

LEMMA AgentFacts ==
    /\ Atexit \in Agents
    /\ \A c \in Commands : Script(c) \in Agents /\ Timer(c) \in Agents
    /\ \A c \in Commands : Script(c) # Atexit /\ Timer(c) # Atexit
    /\ \A c, d \in Commands : Script(c) # Timer(d)
    /\ \A c, d \in Commands : Script(c) = Script(d) => c = d
    /\ \A c, d \in Commands : Timer(c) = Timer(d) => c = d
    /\ \A a \in Agents : a = Atexit \/ \E c \in Commands : a = Script(c) \/ a = Timer(c)
  BY DEF Agents, Atexit, Script, Timer

\* What each step does to late.
Watched == late' = (late \/ (program' = "at exit" /\ \E c \in Commands : Script(c) \in Busy'))

-----------------------------------------------------------------------------
(* Steps that only move one agent *)

LEMMA NobodyMoves ==
    ASSUME IInv, Watched, UNCHANGED <<at, last_tracker, registered, owner, program>>
    PROVE  IInv'
  BY DEF IInv, Types, Findable, Registration, AtExit, Watched, Busy, Agents

\* The script of a command goes on from a step that neither names the last
\* tracker nor ends one.
LEMMA ScriptMoves ==
    ASSUME IInv, Watched, NEW c \in Commands, NEW t \in AgentSteps,
           at' = [at EXCEPT ![Script(c)] = t],
           at[Script(c)] \notin {"set last", "exit"},
           t \in {"out", "connecting", "lost", "start", "done"} \/ registered',
           registered => registered',
           UNCHANGED <<last_tracker, owner, program>>
    PROVE  IInv'
  <1> USE AgentFacts DEF IInv
  <1>1. Types'
    BY DEF Types
  <1>2. Findable'
    BY DEF Types, Findable
  <1>3. Registration'
    BY DEF Types, Registration
  <1>4. AtExit'
    <2>1. at'[Atexit] = at[Atexit] /\ \A d \in Commands : at'[Timer(d)] = at[Timer(d)]
      BY DEF Types
    <2> QED
      BY <2>1 DEF AtExit, Watched
  <1> QED
    BY <1>1, <1>2, <1>3, <1>4

\* The timer of a command goes on from a step that ends no tracker.
LEMMA TimerMoves ==
    ASSUME IInv, Watched, NEW c \in Commands, NEW t \in AgentSteps,
           at' = [at EXCEPT ![Timer(c)] = t],
           at[Timer(c)] \notin {"out", "connecting", "lost", "start", "done", "exit"},
           UNCHANGED <<last_tracker, registered, owner, program>>
    PROVE  IInv'
  <1> USE AgentFacts DEF IInv
  <1>1. Types'
    BY DEF Types
  <1>2. Findable'
    BY DEF Types, Findable
  <1>3. Registration'
    BY DEF Types, Registration
  <1>4. AtExit'
    <2>1. at'[Atexit] = at[Atexit]
      BY DEF Types
    <2> QED
      BY <2>1 DEF AtExit, Watched
  <1> QED
    BY <1>1, <1>2, <1>3, <1>4

-----------------------------------------------------------------------------
(* Steps of a deactivation, in whatever agent *)

\* At exit it is the exit handler that is at work, unless the exit is late.
LEMMA OnlyAtexit ==
    ASSUME IInv, NEW a \in Agents, a \in Busy, program = "at exit", ~late
    PROVE  a = Atexit
  BY AgentFacts DEF IInv, AtExit, Busy

\* A target that is gone does nothing, and its exit handlers run at exit.
AtWork(a) == program # "gone" /\ (a = Atexit => program = "at exit")

\* An agent goes on that found no tracker to end.
LEMMA AgentMoves ==
    ASSUME IInv, Watched, NEW a \in Agents, AtWork(a), NEW t \in AgentSteps,
           at' = [at EXCEPT ![a] = t],
           at[a] = "cancel timers" \/ (at[a] = "get last" /\ last_tracker \notin Commands),
           UNCHANGED <<last_tracker, registered, owner, program>>
    PROVE  IInv'
  <1>1. CASE a = Atexit
    <2> USE <1>1, AgentFacts DEF IInv
    <2>1. Types'
      BY DEF Types
    <2>2. Findable'
      BY DEF Types, Findable
    <2>3. Registration'
      BY DEF Types, Registration
    <2>4. AtExit'
      <3>1. \A d \in Commands : at'[Timer(d)] = at[Timer(d)] /\ at'[Script(d)] = at[Script(d)]
        BY DEF Types
      <3> QED
        BY <3>1 DEF AtExit, Watched, AtWork
    <2> QED
      BY <2>1, <2>2, <2>3, <2>4
  <1>2. ASSUME NEW c \in Commands, a = Script(c) PROVE IInv'
    BY <1>2, ScriptMoves, AgentFacts DEF IInv, Registration
  <1>3. ASSUME NEW c \in Commands, a = Timer(c) PROVE IInv'
    BY <1>3, TimerMoves
  <1> QED
    BY <1>1, <1>2, <1>3, AgentFacts

\* deactivate_last_tracker reads which tracker is the last one.
LEMMA GetLastStep ==
    ASSUME IInv, Watched, NEW a \in Agents, AtWork(a), GetLast(a)
    PROVE  IInv'
  <1>1. CASE last_tracker \notin Commands
    <2>1. AfterDeactivation(a) \in AgentSteps
      BY DEF AfterDeactivation, AgentSteps
    <2> QED
      BY <1>1, <2>1, AgentMoves
      DEF GetLast, Goes, CommandsAnd, attributes, tracking, target
  <1>2. CASE last_tracker \in Commands
    <2>1. /\ at' = [at EXCEPT ![a] = "forget last"] /\ at[a] = "get last"
          /\ UNCHANGED <<last_tracker, registered, owner, program>>
      BY <1>2 DEF GetLast, Goes, CommandsAnd, attributes, tracking, target
    <2>2. "forget last" \in AgentSteps
      BY DEF AgentSteps
    <2>3. CASE a = Atexit
      <3> USE <2>1, <2>2, <2>3, AgentFacts DEF IInv
      <3>1. Types'
        BY DEF Types
      <3>2. Findable'
        BY DEF Types, Findable
      <3>3. Registration'
        BY DEF Types, Registration
      <3>4. AtExit'
        <4>1. \A d \in Commands : at'[Timer(d)] = at[Timer(d)] /\ at'[Script(d)] = at[Script(d)]
          BY DEF Types
        <4> QED
          BY <4>1 DEF AtExit, Watched, AtWork, Types
      <3> QED
        BY <3>1, <3>2, <3>3, <3>4
    <2>4. ASSUME NEW c \in Commands, a = Script(c) PROVE IInv'
      BY <2>1, <2>2, <2>4, ScriptMoves DEF IInv, Registration
    <2>5. ASSUME NEW c \in Commands, a = Timer(c) PROVE IInv'
      BY <2>1, <2>2, <2>5, TimerMoves
    <2> QED
      BY <2>3, <2>4, <2>5, AgentFacts
  <1> QED
    BY <1>1, <1>2

\* deactivate_last_tracker forgets the last tracker before it ends it.
LEMMA ForgetLastStep ==
    ASSUME IInv, Watched, NEW a \in Agents, AtWork(a), ForgetLast(a)
    PROVE  IInv'
  <1>1. /\ at' = [at EXCEPT ![a] = "exit"] /\ at[a] = "forget last" /\ last_tracker' = None
        /\ UNCHANGED <<registered, owner, program>>
    BY DEF ForgetLast, Goes, CommandsAnd, tracking, target
  <1> USE <1>1, AgentFacts DEF IInv
  <1>2. Types'
    BY DEF Types, AgentSteps
  <1>3. Findable'
    BY DEF Types, Findable
  <1>4. Registration'
    <2>1. registered
      BY DEF Registration
    <2> QED
      BY <2>1 DEF Registration
  <1>5. AtExit'
    <2>1. CASE a = Atexit
      <3>1. \A d \in Commands : at'[Timer(d)] = at[Timer(d)] /\ at'[Script(d)] = at[Script(d)]
        BY <2>1 DEF Types
      <3> QED
        BY <2>1, <3>1 DEF AtExit, Watched, AtWork, Types
    <2>2. CASE a # Atexit
      <3>1. at'[Atexit] = at[Atexit]
        BY <2>2 DEF Types
      <3>2. program = "at exit" => late
        BY <2>2, OnlyAtexit DEF Busy
      <3> QED
        BY <3>1, <3>2 DEF AtExit, Watched, AtWork
    <2> QED
      BY <2>1, <2>2
  <1> QED
    BY <1>2, <1>3, <1>4, <1>5

\* deactivate_last_tracker ends the tracker it read.
LEMMA ExitStep ==
    ASSUME IInv, Watched, NEW a \in Agents, AtWork(a), Exit(a)
    PROVE  IInv'
  <1>1. PICK t \in AgentSteps :
            at' = [at EXCEPT ![a] = t]
    BY DEF Exit, Goes, AgentSteps
  <1>2. /\ at[a] = "exit" /\ owner' = None
        /\ UNCHANGED <<last_tracker, registered, program>>
    BY DEF Exit, Destroy, CommandsAnd, attributes, target
  <1> USE <1>1, <1>2, AgentFacts DEF IInv
  <1>3. Types'
    BY DEF Types
  <1>4. Findable'
    BY AgentAssumption DEF Findable
  <1>5. Registration'
    BY DEF Types, Registration
  <1>6. AtExit'
    <2>1. owner' \notin Commands
      BY AgentAssumption
    <2>2. CASE a = Atexit
      <3>1. \A d \in Commands : at'[Timer(d)] = at[Timer(d)] /\ at'[Script(d)] = at[Script(d)]
        BY <2>2 DEF Types
      <3> QED
        BY <2>1, <2>2, <3>1 DEF AtExit, Watched, AtWork, Types
    <2>3. CASE a # Atexit
      <3>1. at'[Atexit] = at[Atexit]
        BY <2>3 DEF Types
      <3>2. program = "at exit" => late
        BY <2>3, OnlyAtexit DEF Busy
      <3> QED
        BY <3>1, <3>2 DEF AtExit, Watched, AtWork
    <2> QED
      BY <2>2, <2>3
  <1> QED
    BY <1>3, <1>4, <1>5, <1>6

\* The steps of deactivate_last_tracker, with the cancelled timers.
LEMMA DeactivateStep ==
    ASSUME IInv, Watched, NEW a \in Agents, AtWork(a), Deactivate(a)
    PROVE  IInv'
  <1>1. CASE GetLast(a)
    BY <1>1, GetLastStep
  <1>2. CASE ForgetLast(a)
    BY <1>2, ForgetLastStep
  <1>3. CASE Exit(a)
    BY <1>3, ExitStep
  <1>4. CASE CancelTimers(a)
    <2>1. AfterDeactivation(a) \in AgentSteps
      BY DEF AfterDeactivation, AgentSteps
    <2> QED
      BY <1>4, <2>1, AgentMoves DEF CancelTimers, Goes, CommandsAnd, tracking, target
  <1> QED
    BY <1>1, <1>2, <1>3, <1>4 DEF Deactivate

-----------------------------------------------------------------------------
(* The steps of a command and its script *)

LEMMA ClientStep ==
    ASSUME IInv, Watched, NEW c \in Commands,
           \/ DebuggerFails(c) \/ (\E m \in Modes : Inject(c, m)) \/ RunClient(c)
           \/ CannotConnect(c) \/ Answer(c) \/ HangUp(c)
    PROVE  IInv'
  <1> USE DEF attributes, tracking, target, commands
  <1>1. CASE DebuggerFails(c) \/ Answer(c) \/ HangUp(c)
    BY <1>1, NobodyMoves DEF DebuggerFails, Answer, HangUp
  <1>2. ASSUME NEW m \in Modes, Inject(c, m) PROVE IInv'
    <2>1. /\ at' = [at EXCEPT ![Script(c)] = "connecting"]
          /\ UNCHANGED <<attributes, tracking, target>>
      BY <1>2 DEF Inject, Goes
    <2>2. at[Script(c)] = "out"
      BY <1>2 DEF Inject
    <2> QED
      BY <2>1, <2>2, ScriptMoves DEF AgentSteps
  <1>3. CASE RunClient(c)
    BY <1>3, ScriptMoves DEF RunClient, Goes, AgentSteps
  <1>4. CASE CannotConnect(c)
    BY <1>4, ScriptMoves DEF CannotConnect, Goes, AgentSteps
  <1> QED
    BY <1>1, <1>2, <1>3, <1>4

\* The steps of a script that change neither the last tracker nor a timer.
LEMMA PlainScriptStep ==
    ASSUME IInv, Watched, NEW c \in Commands,
           \/ Start(c) \/ Create(c) \/ Accept(c) \/ SetThreads(c) \/ LoadThreads(c)
           \/ AppendTimer(c)
    PROVE  IInv'
  <1> USE AgentFacts DEF attributes, tracking, target, CommandsAnd, Goes, Raise
  <1>1. Registration
    BY DEF IInv
  <1>2. CASE Start(c)
    <2>1. registered'
      BY <1>1, <1>2 DEF Start, Registration
    <2> QED
      BY <1>2, <2>1, ScriptMoves DEF Start, AgentSteps
  <1>3. CASE Create(c)
    BY <1>1, <1>3, ScriptMoves DEF Create, AgentSteps, Registration
  <1>4. CASE Accept(c)
    BY <1>1, <1>4, ScriptMoves DEF Accept, AgentSteps, Registration
  <1>5. CASE SetThreads(c)
    BY <1>1, <1>5, ScriptMoves DEF SetThreads, AgentSteps, Registration
  <1>6. CASE AppendTimer(c)
    BY <1>1, <1>6, ScriptMoves DEF AppendTimer, AgentSteps, Registration
  <1>7. CASE LoadThreads(c)
    BY <1>1, <1>7, ScriptMoves DEF LoadThreads, AgentSteps, Registration
  <1> QED
    BY <1>2, <1>3, <1>4, <1>5, <1>6, <1>7

\* The script of a command with a duration starts its timer, or cannot.
LEMMA StartTimerStep ==
    ASSUME IInv, Watched, NEW c \in Commands, StartTimer(c), program # "gone"
    PROVE  IInv'
  <1>1. /\ at[Script(c)] = "start timer" /\ at[Timer(c)] = "out"
        /\ UNCHANGED <<last_tracker, registered, owner, program>>
    BY DEF StartTimer, attributes, tracking
  <1>2. CASE at' = [at EXCEPT ![Script(c)] = "append", ![Timer(c)] = "waiting"]
    <2>1. program = "at exit" => late
      BY <1>1, OnlyAtexit, AgentFacts DEF Busy
    <2> USE <1>1, <1>2, AgentFacts DEF IInv
    <2>2. Types'
      BY DEF Types, AgentSteps
    <2>3. Findable'
      BY DEF Types, Findable
    <2>4. Registration'
      BY DEF Types, Registration
    <2>5. AtExit'
      <3>1. at'[Atexit] = at[Atexit]
        BY DEF Types
      <3> QED
        BY <2>1, <3>1 DEF AtExit, Watched
    <2> QED
      BY <2>2, <2>3, <2>4, <2>5
  <1>3. CASE at' = [at EXCEPT ![Script(c)] = "done"]
    BY <1>1, <1>3, ScriptMoves DEF AgentSteps
  <1> QED
    BY <1>2, <1>3 DEF StartTimer, Raise, Goes

\* The script of a command makes a tracker and enters it, or is refused.
LEMMA EnterStep ==
    ASSUME IInv, Watched, NEW c \in Commands, Enter(c), program # "gone"
    PROVE  IInv'
  <1> USE AgentFacts
  <1>1. at[Script(c)] = "enter" /\ UNCHANGED <<last_tracker, registered, program>>
    BY DEF Enter, attributes
  <1>2. registered
    BY <1>1 DEF IInv, Registration
  <1>3. CASE at' = [at EXCEPT ![Script(c)] = "done"] /\ UNCHANGED owner
    BY <1>1, <1>2, <1>3, ScriptMoves DEF AgentSteps
  <1>4. CASE at' = [at EXCEPT ![Script(c)] = "set last"] /\ owner' = c
    <2>1. program = "at exit" => late
      BY <1>1, OnlyAtexit DEF Busy
    <2> USE <1>1, <1>2, <1>4 DEF IInv
    <2>2. Types'
      BY DEF Types, AgentSteps
    <2>3. Findable'
      BY DEF Types, Findable
    <2>4. Registration'
      BY DEF Types, Registration
    <2>5. AtExit'
      <3>1. at'[Atexit] = at[Atexit]
        BY DEF Types
      <3> QED
        BY <2>1, <3>1 DEF AtExit, Watched
    <2> QED
      BY <2>2, <2>3, <2>4, <2>5
  <1> QED
    BY <1>3, <1>4 DEF Enter, Raise, Goes, tracking, BeginFails, Begin

\* The script of a command names its tracker the last one.
LEMMA SetLastStep ==
    ASSUME IInv, Watched, NEW c \in Commands, SetLast(c), program # "gone"
    PROVE  IInv'
  <1>1. /\ at[Script(c)] = "set last" /\ at' = [at EXCEPT ![Script(c)] = "set threads"]
        /\ last_tracker' = c /\ UNCHANGED <<registered, owner, program>>
    BY DEF SetLast, Goes, CommandsAnd, tracking, target
  <1>2. program = "at exit" => late
    BY <1>1, OnlyAtexit, AgentFacts DEF Busy
  <1> USE <1>1, AgentFacts DEF IInv
  <1>3. Types'
    BY DEF Types, AgentSteps
  <1>4. Findable'
    BY DEF Findable
  <1>5. Registration'
    BY DEF Types, Registration
  <1>6. AtExit'
    <2>1. at'[Atexit] = at[Atexit]
      BY DEF Types
    <2> QED
      BY <1>2, <2>1 DEF AtExit, Watched
  <1> QED
    BY <1>3, <1>4, <1>5, <1>6

\* A timer elapses, unless it was cancelled, and is at work from then on.
LEMMA ElapseStep ==
    ASSUME IInv, Watched, NEW c \in Commands, Elapse(c), program # "gone"
    PROVE  IInv'
  <1>1. /\ at[Timer(c)] = "waiting"
        /\ UNCHANGED <<last_tracker, registered, owner, program>>
    BY DEF Elapse, attributes, tracking
  <1>2. PICK t \in {"get last", "done"} : at' = [at EXCEPT ![Timer(c)] = t]
    BY DEF Elapse, Goes
  <1>3. t \in AgentSteps
    BY DEF AgentSteps
  <1> QED
    BY <1>1, <1>2, <1>3, TimerMoves

\* Every step of the script and of the timer of a command.
LEMMA CommandStep ==
    ASSUME IInv, Watched, NEW c \in Commands, Steps(c)
    PROVE  IInv'
  <1>1. program # "gone" => AtWork(Script(c)) /\ AtWork(Timer(c))
    BY AgentFacts DEF AtWork
  <1>2. CASE program # "gone" /\ (Deactivate(Script(c)) \/ Deactivate(Timer(c)))
    BY <1>1, <1>2, AgentFacts, DeactivateStep
  <1> QED
    BY <1>2, ClientStep, PlainScriptStep, StartTimerStep, EnterStep, SetLastStep, ElapseStep
    DEF Steps, RunScript, RunTimer

-----------------------------------------------------------------------------
(* The target *)

LEMMA TargetStep ==
    ASSUME IInv, Watched, Own \/ LeaveOwn \/ WriteFails \/ EndMain
    PROVE  IInv'
  <1> USE AgentFacts, AgentAssumption DEF attributes, tracking, IInv
  <1>1. CASE Own
    <2>1. /\ UNCHANGED <<at, last_tracker, registered>> /\ program = "running"
          /\ program' \in {"running", "tracking"}
          /\ owner' \in {owner, Program}
      BY <1>1 DEF Own, Begin, BeginFails
    <2> QED
      BY <2>1 DEF Types, Findable, Registration, AtExit, Watched
  <1>2. CASE LeaveOwn
    <2>1. /\ UNCHANGED <<at, last_tracker, registered>> /\ program = "tracking"
          /\ program' = "running" /\ owner' = None
      BY <1>2 DEF LeaveOwn, Destroy
    <2> QED
      BY <2>1 DEF Types, Findable, Registration, AtExit, Watched
  <1>3. CASE WriteFails
    BY <1>3, NobodyMoves DEF WriteFails
  <1>4. CASE EndMain
    <2>1. /\ UNCHANGED <<at, last_tracker, registered, owner>> /\ program = "running"
          /\ program' = "joining"
      BY <1>4 DEF EndMain
    <2> QED
      BY <2>1 DEF Types, Findable, Registration, AtExit, Watched
  <1> QED
    BY <1>1, <1>2, <1>3, <1>4

\* The exit handlers start.
LEMMA JoinStep ==
    ASSUME IInv, Watched, JoinTimers
    PROVE  IInv'
  <1>1. /\ program = "joining" /\ program' = "at exit"
        /\ \A c \in Commands : at[Timer(c)] \in {"out", "done"}
        /\ at' = [at EXCEPT ![Atexit] = IF registered THEN "get last" ELSE "done"]
        /\ UNCHANGED <<last_tracker, registered, owner>>
    BY DEF JoinTimers, Goes, attributes, tracking
  <1>2. at[Atexit] = "out"
    BY <1>1 DEF IInv, AtExit
  <1>3. \A d \in Commands : at'[Timer(d)] = at[Timer(d)] /\ at'[Script(d)] = at[Script(d)]
    BY <1>1, AgentFacts DEF IInv, Types
  <1>4. at'[Atexit] = IF registered THEN "get last" ELSE "done"
    BY <1>1, AgentFacts DEF IInv, Types
  <1> USE AgentFacts DEF IInv
  <1>5. Types'
    BY <1>1 DEF Types, AgentSteps
  <1>6. Findable'
    BY <1>1, <1>2, <1>3, <1>4 DEF Types, Findable
  <1>7. Registration'
    BY <1>1, <1>3, <1>4 DEF Types, Registration
  <1>8. AtExit'
    <2>1. CASE late'
      BY <1>1, <2>1 DEF AtExit
    <2>2. CASE ~late'
      <3>1. \A c \in Commands : Script(c) \notin Busy'
        BY <1>1, <2>2 DEF Watched
      <3>2. \A c \in Commands : at[Script(c)] \notin {"set last", "exit"}
        BY <1>3, <3>1 DEF Busy
      <3>3. owner \in Commands => last_tracker \in Commands
        BY <1>1, <1>2, <3>2 DEF Findable
      <3>4. owner \in Commands => registered
        BY <3>3, AgentAssumption DEF Registration
      <3> QED
        BY <1>1, <1>3, <1>4, <3>1, <3>3, <3>4 DEF AtExit
    <2> QED
      BY <2>1, <2>2
  <1> QED
    BY <1>5, <1>6, <1>7, <1>8

\* The exit function is done, and the interpreter gone.
LEMMA FinalizeStep ==
    ASSUME IInv, Watched, Finalize
    PROVE  IInv'
  <1>1. /\ program = "at exit" /\ at[Atexit] = "done" /\ program' = "gone"
        /\ UNCHANGED <<at, last_tracker, registered, owner>>
    BY DEF Finalize, attributes, tracking
  <1>2. late' <=> late
    BY <1>1 DEF Watched
  <1> QED
    BY <1>1, <1>2 DEF IInv, Types, Findable, Registration, AtExit

-----------------------------------------------------------------------------
\* The invariant holds of every history of commands, timers and exit handlers
\* that meet in the attributes of the module memray.
THEOREM Invariance == Spec => []IInv
<1>1. Init => IInv
  BY AgentFacts, AgentAssumption
  DEF Init, IInv, Types, Findable, Registration, AtExit, AgentSteps
<1>2. IInv /\ [Next]_vars => IInv'
  <2> SUFFICES ASSUME IInv, [Next]_vars PROVE IInv'
    OBVIOUS
  <2>1. CASE UNCHANGED vars
    BY <2>1 DEF vars, attributes, tracking, target, IInv, Types, Findable, Registration, AtExit,
                Busy
  <2>2. CASE Next
    <3>1. Watched
      BY <2>2 DEF Next, Watched
    <3>2. CASE \E c \in Commands : Steps(c)
      BY <3>1, <3>2, CommandStep
    <3>3. CASE program = "at exit" /\ Deactivate(Atexit)
      BY <3>1, <3>3, AgentFacts, DeactivateStep DEF AtWork
    <3> QED
      BY <2>2, <3>1, <3>2, <3>3, TargetStep, JoinStep, FinalizeStep DEF Next, Target, Shutdown
  <2> QED
    BY <2>1, <2>2
<1> QED
  BY <1>1, <1>2, PTL DEF Spec

\* However many commands overlap, detach, the next attach and the exit of the
\* target find something to end when a tracker of attach is active: nobody
\* forgets the last tracker without ending the active one.
THEOREM TrackerIsFindable == Spec => []NoOrphanTracker
<1>1. IInv => NoOrphanTracker
  BY AgentFacts DEF IInv, Findable, NoOrphanTracker, Quiet, Busy
<1> QED
  BY <1>1, Invariance, PTL

\* The exit handler that the first script has registered ends the tracker of
\* the last, unless a script is at work while the exit handlers run.
THEOREM TrackerIsEnded == Spec => []ExitEndsTracker
<1>1. IInv => ExitEndsTracker
  BY DEF IInv, AtExit, ExitEndsTracker
<1> QED
  BY <1>1, Invariance, PTL

-----------------------------------------------------------------------------
(* The second invariant: what holds as long as no two agents have been at  *)
(* work at once.  Its first half does without that.                        *)

Errors ==
    {"none", "BareExceptionMessage", "AttributeError", "OSError", "RuntimeError",
     "AssertionError", "IoError", "CannotStart"}
Idle == {"out", "connecting", "lost", "start", "waiting", "done"}
Deactivating == {"get last", "forget last", "exit", "cancel timers"}

\* A script that has entered its tracker.
Past == {"set last", "set threads", "start timer", "append", "appending", "done"}

\* Where each kind of agent may be.
Kinds ==
    /\ \A c \in Commands : at[Script(c)] # "waiting"
    /\ \A c \in Commands : at[Timer(c)] \in {"out", "waiting", "done"} \cup Deactivating
    /\ at[Atexit] \in {"out", "done"} \cup Deactivating

\* What a script has done before it comes where it is, and its timer after it.
OfCommand(c) ==
    /\ error[c] # "none" => at[Script(c)] = "done"
    /\ owner = c => at[Script(c)] \in Past
    /\ at[Timer(c)] # "out" => at[Script(c)] \in {"append", "appending", "done"}
    /\ c \in canceled => at[Timer(c)] # "out"
    /\ attach_event_threads # Unset /\ c \in attach_event_threads => at[Timer(c)] # "out"
    /\ at[Script(c)] \in {"start timer", "append", "appending"} => mode[c] = "FOR_DURATION"
    /\ at[Script(c)] \in {"append", "appending"} => at[Timer(c)] # "out"
    /\ c \in loaded => at[Script(c)] = "appending" /\ attach_event_threads # Unset
    /\ c \in untimed => /\ at[Script(c)] \in {"append", "appending", "done"}
                        /\ at[Timer(c)] \in {"out", "done"}

Shape ==
    /\ TypeOK
    /\ error \in [Commands -> Errors]
    /\ canceled \subseteq Commands /\ loaded \subseteq Commands /\ untimed \subseteq Commands
    /\ program \in {"running", "tracking", "joining", "at exit", "gone"}
    /\ {writing, intercepted, broken} \subseteq BOOLEAN
    /\ Kinds /\ \A c \in Commands : OfCommand(c)

\* The timer of c will end a tracker.
Runs(c) == at[Timer(c)] = "waiting" /\ c \notin canceled

NothingAttached ==
    /\ last_tracker \notin Commands /\ owner \notin Commands
    /\ \A c \in Commands : ~Runs(c)

\* What does not depend on who is at work.
Always ==
    /\ program = "tracking" <=> owner = Program
    /\ owner = Program => writing \/ broken
    /\ \A c \in Commands : error[c] \in {"AttributeError", "AssertionError"} => broken

\* Before a deactivation has changed anything, and after an activation.
Settled ==
    /\ last_tracker \in Commands \/ owner \in Commands => owner = last_tracker
    /\ \A c \in Commands :
        /\ Runs(c) => owner = c /\ mode[c] = "FOR_DURATION"
        /\ owner = c /\ mode[c] = "FOR_DURATION" =>
              Runs(c) \/ c \in untimed \/ at[Timer(c)] \in {"get last", "forget last"}
        /\ owner = c =>
              attach_event_threads =
                 IF mode[c] = "FOR_DURATION" /\ at[Timer(c)] # "out" THEN {c} ELSE {}
        /\ error[c] # "none" => owner # c \/ c \in untimed

\* In the middle of the one or the other, in whatever agent.
During(a) ==
    /\ at[a] = "forget last" => last_tracker \in Commands
    /\ at[a] = "exit" => last_tracker = None /\ owner \in Commands
    /\ at[a] = "cancel timers" => last_tracker = None /\ owner \notin Commands
    /\ at[a] \in {"exit", "cancel timers"} =>
          \A c \in Commands : Runs(c) => attach_event_threads # Unset /\ c \in attach_event_threads
    /\ at[a] \in {"create", "accepting", "enter"} => NothingAttached

\* In the script of c, while its timer is the only one there is.
DuringScript(c) ==
    /\ at[Script(c)] = "set last" =>
          owner = c /\ last_tracker \notin Commands /\ \A d \in Commands : ~Runs(d)
    /\ at[Script(c)] \in {"set threads", "start timer"} =>
          owner = c /\ last_tracker = c /\ \A d \in Commands : ~Runs(d)
    /\ at[Script(c)] \in {"start timer", "append", "appending"} => attach_event_threads = {}
    /\ at[Script(c)] \in {"append", "appending"} =>
          /\ owner = c /\ last_tracker = c
          /\ Runs(c) \/ c \in untimed
          /\ \A d \in Commands : Runs(d) => d = c
    /\ at[Script(c)] = "appending" => c \in loaded

\* In a timer that has elapsed: the tracker there is is that of its command.
DuringTimer(c) == at[Timer(c)] \in {"get last", "forget last", "exit"} => owner = c

Undisturbed ==
    /\ \A a, b \in Busy : a = b
    /\ Always
    /\ (\A a \in Busy : at[a] \in {"get last", "forget last"}) => Settled
    /\ \A a \in Agents : During(a)
    /\ \A c \in Commands : DuringScript(c) /\ DuringTimer(c)

QInv == Shape /\ (~overlap => Undisturbed)

-----------------------------------------------------------------------------
(* An undisturbed agent is the only one that is at work *)

\* What each step does to overlap.
Together == overlap' = (overlap \/ \E a, b \in Busy' : a # b)

\* Agent a goes to step t.
Only(a, t) ==
    /\ at' \in [Agents -> AgentSteps] /\ at'[a] = t
    /\ \A b \in Agents : b # a => at'[b] = at[b]

\* The parts of the names of agents.
LEMMA AgentNames ==
    /\ \A c \in Commands : Script(c)[1] = c /\ Script(c)[2] = "script" /\ Timer(c)[2] = "timer"
    /\ Atexit[2] = "atexit"
  BY DEF Script, Timer, Atexit

\* What Goes does to the agents.
LEMMA Going ==
    ASSUME Shape, NEW a \in Agents, NEW t \in AgentSteps, Goes(a, t)
    PROVE  Only(a, t)
  BY DEF Shape, TypeOK, Goes, Only

\* Whoever is at work while nothing has overlapped is alone.
LEMMA OthersIdle ==
    ASSUME Together, ~overlap', Undisturbed, NEW a \in Agents, NEW t, Only(a, t),
           at[a] \notin Idle \/ t \notin Idle
    PROVE  \A b \in Agents : b # a => b \notin Busy /\ b \notin Busy'
  BY DEF Together, Undisturbed, Only, Busy, Idle

\* So only that agent matters.
LEMMA Focus ==
    ASSUME NEW a \in Agents, \A b \in Agents : b # a => b \notin Busy',
           Always', at'[a] \in Idle \cup {"get last", "forget last"} => Settled', During(a)',
           \A c \in Commands : a = Script(c) => DuringScript(c)',
           \A c \in Commands : a = Timer(c) => DuringTimer(c)'
    PROVE  Undisturbed'
  <1>1. \A b, d \in Busy' : b = d
    BY DEF Busy
  <1>2. (\A b \in Busy' : at'[b] \in {"get last", "forget last"}) => Settled'
    BY DEF Busy, Idle
  <1>3. \A b \in Agents : During(b)'
    BY DEF During, Busy
  <1>4. \A c \in Commands : DuringScript(c)'
    BY AgentFacts DEF DuringScript, Busy
  <1>5. \A c \in Commands : DuringTimer(c)'
    BY AgentFacts DEF DuringTimer, Busy
  <1> QED
    BY <1>1, <1>2, <1>3, <1>4, <1>5 DEF Undisturbed

\* What each step does to untimed.
Timing == untimed' = untimed \cup {c \in Commands : Untimed(c)}

\* Only the steps that start a timer and that end one can leave a command without.
LEMMA StaysTimed ==
    ASSUME Timing, NEW a, at[a] \notin {"start timer", "waiting"},
           \A b \in Agents : b # a => at'[b] = at[b]
    PROVE  UNCHANGED untimed
  BY AgentFacts DEF Timing, Untimed

\* Where nobody moves nothing is lost either.
LEMMA NobodyIsLeft ==
    ASSUME Timing, UNCHANGED at
    PROVE  UNCHANGED untimed
  BY DEF Timing, Untimed

\* Nobody who is at work moves.
LEMMA NobodyAtWorkMoves ==
    ASSUME Undisturbed, Busy' = Busy, \A a \in Busy : at'[a] = at[a],
           \A c \in Commands : Runs(c)' => Runs(c),
           \A c \in Commands : Runs(c) \/ c \in untimed => Runs(c)' \/ c \in untimed',
           UNCHANGED <<last_tracker, owner, attach_event_threads, loaded>>,
           Always', Settled => Settled'
    PROVE  Undisturbed'
  <1>1. (\A b \in Busy' : at'[b] \in {"get last", "forget last"}) => Settled'
    BY DEF Undisturbed
  <1>2. ASSUME NEW b \in Agents PROVE During(b)'
    <2>1. During(b) /\ (NothingAttached => NothingAttached')
      BY DEF Undisturbed, NothingAttached
    <2> QED
      BY <2>1 DEF During, Busy
  <1>3. \A c \in Commands : DuringScript(c)' /\ DuringTimer(c)'
    BY AgentFacts DEF Undisturbed, DuringScript, DuringTimer, Busy
  <1> QED
    BY <1>1, <1>2, <1>3 DEF Undisturbed

-----------------------------------------------------------------------------
(* The first half *)

LEMMA ClientShape ==
    ASSUME Shape, UNCHANGED untimed, NEW c \in Commands,
           \/ DebuggerFails(c) \/ (\E m \in Modes : Inject(c, m)) \/ RunClient(c)
           \/ CannotConnect(c) \/ Answer(c) \/ HangUp(c)
    PROVE  Shape'
  <1>1. UNCHANGED <<error, attributes, tracking, program>>
    BY DEF DebuggerFails, Inject, RunClient, CannotConnect, Answer, HangUp, target
  <1>2. client' \in [Commands -> {"idle", "accepting", "waiting", "succeeded", "failed"}]
    BY DEF Shape, TypeOK, DebuggerFails, Inject, RunClient, CannotConnect, Answer, HangUp, commands
  <1>3. CASE UNCHANGED <<mode, at>>
    BY <1>1, <1>2, <1>3 DEF Shape, TypeOK, Kinds, OfCommand, attributes, tracking
  <1>4. ASSUME NEW m \in Modes, Inject(c, m) PROVE Shape'
    <2>1. Only(Script(c), "connecting") /\ at[Script(c)] = "out"
      BY <1>4, Going, AgentFacts DEF Inject, AgentSteps
    <2>2. mode' \in [Commands -> Modes] /\ \A d \in Commands : d # c => mode'[d] = mode[d]
      BY <1>4 DEF Inject, Shape, TypeOK
    <2>3. TypeOK'
      BY <1>1, <1>2, <2>1, <2>2 DEF Shape, TypeOK, Only, attributes, tracking
    <2>4. Kinds'
      BY <2>1, AgentFacts DEF Shape, Kinds, Only
    <2>5. ASSUME NEW d \in Commands PROVE OfCommand(d)'
      <3>1. OfCommand(d) /\ at'[Timer(d)] = at[Timer(d)]
        BY <2>1, AgentFacts DEF Shape, Only
      <3>2. CASE d # c
        <4>1. at'[Script(d)] = at[Script(d)]
          BY <2>1, <3>2, AgentFacts DEF Only
        <4> QED
          BY <1>1, <2>2, <3>1, <3>2, <4>1 DEF OfCommand, attributes, tracking
      <3>3. CASE d = c
        BY <1>1, <2>1, <3>1, <3>3, AgentFacts DEF OfCommand, Only, Past, attributes, tracking
      <3> QED
        BY <3>2, <3>3
    <2> QED
      BY <1>1, <2>3, <2>4, <2>5 DEF Shape, attributes, tracking
  <1>5. ASSUME NEW t \in {"start", "lost"}, at[Script(c)] = "connecting", UNCHANGED mode,
               Goes(Script(c), t)
        PROVE  Shape'
    <2>1. Only(Script(c), t)
      <3>1. t \in AgentSteps
        BY DEF AgentSteps
      <3> QED
        BY <1>5, <3>1, Going, AgentFacts
    <2>2. TypeOK'
      BY <1>1, <1>2, <1>5, <2>1 DEF Shape, TypeOK, Only, attributes, tracking
    <2>3. Kinds'
      BY <2>1, AgentFacts DEF Shape, Kinds, Only
    <2>4. ASSUME NEW d \in Commands PROVE OfCommand(d)'
      <3>1. OfCommand(d) /\ at'[Timer(d)] = at[Timer(d)]
        BY <2>1, AgentFacts DEF Shape, Only
      <3>2. d # c => at'[Script(d)] = at[Script(d)]
        BY <2>1, AgentFacts DEF Only
      <3> QED
        BY <1>1, <1>5, <2>1, <3>1, <3>2 DEF OfCommand, Only, Past, attributes, tracking
    <2> QED
      BY <1>1, <2>2, <2>3, <2>4 DEF Shape, attributes, tracking
  <1> QED
    BY <1>3, <1>4, <1>5
    DEF DebuggerFails, RunClient, CannotConnect, Answer, HangUp, commands

\* What it is that __enter__ raises.
LEMMA Raises ==
    /\ EnterRaises = "nothing" <=> ~writing /\ ~intercepted
    /\ EnterRaises = "AssertionError" => ~writing /\ intercepted
    /\ EnterRaises \in {"nothing", "RuntimeError", "AssertionError"}
  <1>1. CASE writing
    BY <1>1 DEF EnterRaises
  <1>2. CASE ~writing /\ intercepted
    BY <1>2 DEF EnterRaises
  <1>3. CASE ~writing /\ ~intercepted
    BY <1>3 DEF EnterRaises
  <1> QED
    BY <1>1, <1>2, <1>3

\* The steps of deactivate_last_tracker keep the shape.
LEMMA DeactivateShape ==
    ASSUME Shape, UNCHANGED untimed, NEW a \in Agents, Deactivate(a)
    PROVE  Shape'
  <1>1. PICK t \in Deactivating \cup {"create", "done"} :
            /\ Only(a, t) /\ at[a] \in Deactivating
            /\ t = "create" => a[2] = "script"
            /\ error' = error \/ (t = "done" /\ Fail(a, "AttributeError"))
    BY Going
    DEF Deactivate, GetLast, ForgetLast, Exit, CancelTimers, CommandsAnd, AfterDeactivation,
        AgentSteps, Deactivating
  <1>2. /\ UNCHANGED <<client, mode, program, broken>>
        /\ last_tracker' \in {last_tracker, None}
        /\ UNCHANGED <<owner, writing, intercepted>> \/ Destroy
    BY DEF Deactivate, GetLast, ForgetLast, Exit, CancelTimers, CommandsAnd, commands, target,
           attributes, tracking
  <1>3. \/ UNCHANGED <<attach_event_threads, canceled, loaded>>
        \/ /\ attach_event_threads' = Unset /\ loaded' = {}
           /\ \E inTime \in SUBSET loaded :
                 canceled' = canceled \cup inTime \cup
                    (IF attach_event_threads = Unset THEN {} ELSE attach_event_threads)
    BY DEF Deactivate, GetLast, ForgetLast, Exit, CancelTimers, CommandsAnd, attributes
  <1> USE DEF Shape
  <1>4. TypeOK'
    <2>1. /\ client' \in [Commands -> {"idle", "accepting", "waiting", "succeeded", "failed"}]
          /\ mode' \in [Commands -> Modes]
          /\ at' \in [Agents -> AgentSteps]
          /\ last_tracker' \in Commands \cup {None, Unset}
          /\ attach_event_threads' = Unset \/ attach_event_threads' \subseteq Commands
      BY <1>1, <1>2, <1>3 DEF TypeOK, Only
    <2>2. /\ owner' \in Commands \cup {Program, None}
          /\ writing' => owner' # None
          /\ owner' # None => intercepted'
          /\ intercepted' => owner' # None \/ broken'
      <3>1. CASE UNCHANGED <<owner, writing, intercepted>>
        BY <1>2, <3>1 DEF TypeOK
      <3>2. CASE Destroy
        BY <3>2 DEF Destroy
      <3> QED
        BY <1>2, <3>1, <3>2
    <2> QED
      BY <2>1, <2>2 DEF TypeOK
  <1>5. canceled' \subseteq Commands /\ loaded' \subseteq Commands
    BY <1>3 DEF TypeOK
  <1>6. error' \in [Commands -> Errors]
    <2>1. \A c \in Commands : a = Script(c) => a[1] = c
      BY AgentNames
    <2> QED
      BY <1>1, <2>1 DEF Fail, Errors
  <1>7. \A c \in Commands : error'[c] = error[c] \/ (a = Script(c) /\ t = "done")
    <2>1. CASE error' = error
      BY <2>1
    <2>2. CASE a[2] # "script"
      BY <1>1, <2>2 DEF Fail
    <2>3. ASSUME NEW d \in Commands, a = Script(d), error' # error
          PROVE  error' = [error EXCEPT ![d] = "AttributeError"] /\ t = "done"
      BY <1>1, <2>3, AgentNames DEF Fail
    <2>4. CASE a[2] = "script" /\ error' # error
      <3>1. \E d \in Commands : a = Script(d)
        BY <2>4, AgentFacts, AgentNames
      <3>2. PICK d \in Commands : a = Script(d)
        BY <3>1
      <3>3. error' = [error EXCEPT ![d] = "AttributeError"] /\ t = "done"
        BY <2>3, <2>4, <3>2
      <3>4. \A c \in Commands : c # d => error'[c] = error[c]
        BY <3>3
      <3> QED
        BY <3>2, <3>3, <3>4
    <2> QED
      BY <2>1, <2>2, <2>4
  <1>8. Kinds'
    <2>1. a[2] # "script" => t \in Deactivating \cup {"done"}
      BY <1>1
    <2>2. ASSUME NEW c \in Commands PROVE at'[Script(c)] # "waiting"
      BY <1>1, AgentFacts DEF Kinds, Only, Deactivating
    <2>3. ASSUME NEW c \in Commands
          PROVE  at'[Timer(c)] \in {"out", "waiting", "done"} \cup Deactivating
      BY <1>1, <2>1, AgentFacts, AgentNames DEF Kinds, Only
    <2>4. at'[Atexit] \in {"out", "done"} \cup Deactivating
      BY <1>1, <2>1, AgentFacts, AgentNames DEF Kinds, Only
    <2> QED
      BY <2>2, <2>3, <2>4 DEF Kinds
  <1>9. ASSUME NEW c \in Commands PROVE OfCommand(c)'
    <2>1. owner' = c => owner = c
      BY <1>2, AgentAssumption DEF Destroy
    <2>2. /\ at[Script(c)] \in Past => at'[Script(c)] = at[Script(c)]
          /\ at'[Script(c)] \in Past => at[Script(c)] \in Past \/ at'[Script(c)] = "done"
      BY <1>1, AgentFacts DEF Only, Past, Deactivating
    <2>3. /\ at'[Timer(c)] # "out" <=> at[Timer(c)] # "out"
          /\ at[Timer(c)] \in {"out", "done"} => at'[Timer(c)] = at[Timer(c)]
      BY <1>1, AgentFacts DEF Only, Deactivating
    <2>4. OfCommand(c)
      OBVIOUS
    <2>5. /\ c \in canceled' => at[Timer(c)] # "out"
          /\ c \in loaded' => c \in loaded /\ UNCHANGED attach_event_threads
      BY <1>3, <2>4 DEF OfCommand
    <2> QED
      BY <1>1, <1>2, <1>3, <1>7, <2>1, <2>2, <2>3, <2>4, <2>5, AgentFacts DEF OfCommand, Past, Only
  <1> QED
    <2>1. {writing', intercepted', broken'} \subseteq BOOLEAN
      BY <1>2 DEF Destroy
    <2> QED
      BY <1>1, <1>2, <1>4, <1>5, <1>6, <1>8, <1>9, <2>1

\* The steps of a script other than those of the deactivation.
LEMMA ScriptShape ==
    ASSUME Shape, NEW c \in Commands,
           \/ Start(c) \/ Create(c) \/ Accept(c) \/ Enter(c) \/ SetLast(c) \/ SetThreads(c)
           \/ (StartTimer(c) /\ Raise(c, "CannotStart")) \/ LoadThreads(c) \/ AppendTimer(c),
           untimed' \subseteq Commands,
           \A d \in untimed' :
              d \in untimed \/ (d = c /\ at'[Script(c)] = "done" /\ at[Timer(c)] = "out")
    PROVE  Shape'
  <1> USE AgentFacts DEF attributes, tracking, target, commands, CommandsAnd
  <1>1. UNCHANGED <<client, mode, canceled, program>>
    BY DEF Start, Create, Accept, Enter, SetLast, SetThreads, StartTimer, LoadThreads, AppendTimer
  <1> DEFINE Effect(t, e) ==
                /\ Only(Script(c), t)
                /\ t \in Past \ {"done"} => at[Script(c)] \in Past \/ t = "set last"
                /\ at[Script(c)] \in Past => t \in Past
                /\ at[Script(c)] \notin {"out", "done"} /\ t \notin {"out", "waiting", "append"}
                /\ at[Script(c)] = "append" => t \in {"appending", "done"}
                /\ at[Script(c)] = "appending" => t = "done"
                /\ t = "appending" => at[Script(c)] = "append"
                /\ t = "start timer" => mode[c] = "FOR_DURATION"
                /\ IF t = "done" THEN error' = [error EXCEPT ![c] = e] ELSE error' = error
  <1>2. PICK t \in AgentSteps, e \in Errors : Effect(t, e)
    <2>1. error = [error EXCEPT ![c] = error[c]] /\ error[c] \in Errors
      BY DEF Shape
    <2> USE Going DEF AgentSteps, Goes
    <2>2. ASSUME NEW e, Raise(c, e)
          PROVE  at' = [at EXCEPT ![Script(c)] = "done"] /\ error' = [error EXCEPT ![c] = e]
      BY <2>2, AgentNames DEF Raise, Fail
    <2>3. CASE Start(c)
      <3>1. CASE Raise(c, "BareExceptionMessage")
        BY <2>2, <2>3, <3>1 DEF Start, Errors, Past
      <3>2. CASE Goes(Script(c), "get last") /\ error' = error
        BY <2>1, <2>3, <3>2 DEF Start, Past
      <3> QED
        BY <2>3, <3>1, <3>2 DEF Start
    <2>4. CASE Create(c)
      <3>1. CASE Raise(c, "OSError")
        BY <2>2, <2>4, <3>1 DEF Create, Errors, Past
      <3>2. ASSUME NEW t \in {"enter", "accepting"}, Goes(Script(c), t), error' = error
            PROVE  \E s \in AgentSteps, e \in Errors : Effect(s, e)
        BY <2>1, <2>4, <3>2 DEF Create, Past
      <3> QED
        BY <2>4, <3>1, <3>2 DEF Create
    <2>5. CASE Enter(c)
      <3>1. ASSUME NEW e \in {"IoError", "RuntimeError", "AssertionError"}, Raise(c, e)
            PROVE  \E s \in AgentSteps, f \in Errors : Effect(s, f)
        BY <2>2, <2>5, <3>1 DEF Enter, Errors, Past
      <3>2. CASE Goes(Script(c), "set last") /\ error' = error
        BY <2>1, <2>5, <3>2 DEF Enter, Past
      <3> QED
        BY <2>5, <3>1, <3>2, Raises DEF Enter
    <2>6. CASE Accept(c) \/ SetLast(c) \/ SetThreads(c)
      BY <2>1, <2>6 DEF Accept, SetLast, SetThreads, Past
    <2>7. CASE LoadThreads(c)
      <3>1. CASE Raise(c, "AttributeError")
        BY <2>2, <2>7, <3>1 DEF LoadThreads, Errors, Past
      <3>2. CASE Goes(Script(c), "appending") /\ error' = error
        BY <2>1, <2>7, <3>2 DEF LoadThreads, Past, Shape, OfCommand
      <3> QED
        BY <2>7, <3>1, <3>2 DEF LoadThreads
    <2>8. CASE AppendTimer(c)
      BY <2>1, <2>8 DEF AppendTimer, Past
    <2>9. CASE StartTimer(c) /\ Raise(c, "CannotStart")
      BY <2>2, <2>9 DEF StartTimer, Errors, Past
    <2> QED
      BY <2>3, <2>4, <2>5, <2>6, <2>7, <2>8, <2>9
  <1> USE DEF Shape
  <1>3. \/ UNCHANGED <<owner, writing, intercepted, broken>>
        \/ BeginFails
        \/ Begin(c) /\ t = "set last"
    <2>1. CASE Enter(c)
      BY <1>2, <2>1 DEF Enter, Only, Goes, TypeOK, AgentSteps
    <2>2. CASE ~Enter(c)
      BY <2>2 DEF Start, Create, Accept, SetLast, SetThreads, StartTimer, LoadThreads, AppendTimer
    <2> QED
      BY <2>1, <2>2
  <1>4. /\ last_tracker' \in {last_tracker, c}
        /\ \/ attach_event_threads' \in {attach_event_threads, {}}
           \/ /\ at[Script(c)] = "appending" /\ attach_event_threads # Unset
              /\ attach_event_threads' = attach_event_threads \cup {c}
    <2>1. CASE AppendTimer(c)
      <3>1. OfCommand(c)
        OBVIOUS
      <3> QED
        BY <2>1, <3>1 DEF AppendTimer, OfCommand
    <2>2. CASE ~AppendTimer(c)
      BY <2>2 DEF Start, Create, Accept, Enter, SetLast, SetThreads, StartTimer, LoadThreads
    <2> QED
      BY <2>1, <2>2
  <1>10. /\ loaded' \subseteq Commands
         /\ attach_event_threads' # attach_event_threads /\ attach_event_threads' = {} =>
               loaded' = {}
         /\ c \in loaded' => t = "appending" /\ attach_event_threads' # Unset
         /\ \A d \in loaded' : d \in loaded \/ d = c
    <2>1. OfCommand(c)
      OBVIOUS
    <2>2. CASE LoadThreads(c)
      <3>1. UNCHANGED attach_event_threads /\ at[Script(c)] = "append"
        BY <2>2 DEF LoadThreads
      <3>2. c \notin loaded
        BY <2>1, <3>1 DEF OfCommand
      <3>3. CASE UNCHANGED loaded
        BY <3>1, <3>2, <3>3
      <3>4. CASE /\ attach_event_threads # Unset
                 /\ Goes(Script(c), "appending") /\ loaded' = loaded \cup {c}
        <4>1. t = "appending"
          BY <1>2, <3>4 DEF Goes, Only, TypeOK
        <4> QED
          BY <3>1, <3>4, <4>1
      <3> QED
        BY <2>2, <3>3, <3>4 DEF LoadThreads
    <2>3. CASE AppendTimer(c)
      BY <2>1, <2>3 DEF AppendTimer, OfCommand
    <2>4. CASE SetThreads(c)
      BY <2>4 DEF SetThreads
    <2>5. CASE /\ UNCHANGED <<loaded, attach_event_threads>>
               /\ at[Script(c)] # "appending"
      BY <2>1, <2>5 DEF OfCommand
    <2> QED
      BY <2>2, <2>3, <2>4, <2>5 DEF Start, Create, Accept, Enter, SetLast, StartTimer
  <1>5. TypeOK'
    <2>1. /\ client' \in [Commands -> {"idle", "accepting", "waiting", "succeeded", "failed"}]
          /\ mode' \in [Commands -> Modes]
          /\ at' \in [Agents -> AgentSteps]
          /\ last_tracker' \in Commands \cup {None, Unset}
          /\ attach_event_threads' = Unset \/ attach_event_threads' \subseteq Commands
      BY <1>1, <1>2, <1>4 DEF TypeOK, Only
    <2>2. /\ owner' \in Commands \cup {Program, None}
          /\ writing' => owner' # None
          /\ owner' # None => intercepted'
          /\ intercepted' => owner' # None \/ broken'
      <3>1. CASE UNCHANGED <<owner, writing, intercepted, broken>>
        BY <3>1 DEF TypeOK
      <3>2. CASE BeginFails
        BY <3>2 DEF TypeOK, BeginFails
      <3>3. CASE Begin(c)
        BY <3>3, AgentAssumption DEF Begin
      <3> QED
        BY <1>3, <3>1, <3>2, <3>3
    <2> QED
      BY <2>1, <2>2 DEF TypeOK
  <1>6. error' \in [Commands -> Errors]
    BY <1>2
  <1>7. {writing', intercepted', broken'} \subseteq BOOLEAN
    BY <1>3 DEF BeginFails, Begin
  <1>8. Kinds'
    BY <1>2 DEF Kinds, Only
  <1>9. ASSUME NEW d \in Commands PROVE OfCommand(d)'
    <2>1. OfCommand(d) /\ OfCommand(c) /\ at'[Timer(d)] = at[Timer(d)]
      BY <1>2 DEF Only
    <2>2. owner' = owner \/ (owner' = c /\ t = "set last")
      BY <1>3 DEF BeginFails, Begin
    <2>3. d # c => at'[Script(d)] = at[Script(d)] /\ error'[d] = error[d]
      BY <1>2 DEF Only
    <2>4. attach_event_threads' # Unset /\ d \in attach_event_threads' => at[Timer(d)] # "out"
      <3>1. CASE attach_event_threads' \in {attach_event_threads, {}}
        BY <2>1, <3>1 DEF OfCommand
      <3>2. CASE attach_event_threads' = attach_event_threads \cup {c}
                 /\ attach_event_threads # Unset /\ at[Script(c)] = "appending"
        BY <2>1, <3>2 DEF OfCommand
      <3> QED
        BY <1>4, <3>1, <3>2
    <2>5. d \in loaded' /\ d # c => d \in loaded /\ attach_event_threads' # Unset
      <3> SUFFICES ASSUME d \in loaded', d # c
                   PROVE  d \in loaded /\ attach_event_threads' # Unset
        OBVIOUS
      <3>1. d \in loaded
        BY <1>10
      <3>2. attach_event_threads # Unset
        BY <2>1, <3>1 DEF OfCommand
      <3>3. CASE attach_event_threads' = attach_event_threads
        BY <3>1, <3>2, <3>3
      <3>4. CASE attach_event_threads' = {} /\ attach_event_threads' # attach_event_threads
        BY <1>10, <3>4
      <3>5. CASE attach_event_threads' = attach_event_threads \cup {c} /\ attach_event_threads # Unset
        <4>1. attach_event_threads \subseteq Commands
          BY <3>5 DEF TypeOK
        <4> QED
          BY <3>1, <3>5, <4>1, AgentAssumption
      <3> QED
        BY <1>4, <3>3, <3>4, <3>5
    <2>6. CASE d # c
      BY <1>1, <2>1, <2>2, <2>3, <2>4, <2>5, <2>6 DEF OfCommand
    <2>7. CASE d = c
      BY <1>1, <1>2, <1>10, <2>1, <2>2, <2>4, <2>7 DEF OfCommand, Only, Past
    <2> QED
      BY <2>6, <2>7
  <1> QED
    BY <1>1, <1>5, <1>6, <1>7, <1>8, <1>9, <1>10

\* To start a timer, and its elapsing, keep the shape.
LEMMA TimerShape ==
    ASSUME Shape, Timing, NEW c \in Commands, StartTimer(c) \/ Elapse(c)
    PROVE  Shape'
  <1> USE AgentFacts DEF attributes, tracking, target, commands, CommandsAnd, Shape
  <1>1. UNCHANGED <<client, mode, last_tracker, attach_event_threads, canceled, loaded,
                    owner, writing, intercepted, broken, program>>
    BY DEF StartTimer, Elapse
  <1>2. CASE StartTimer(c) /\ Raise(c, "CannotStart")
    <2>1. Only(Script(c), "done")
      BY <1>2, Going, AgentNames DEF Raise, AgentSteps
    <2>2. \A d \in Commands : Untimed(d) => d = c
      BY <1>2, <2>1 DEF Untimed, Only
    <2>3. at'[Script(c)] = "done" /\ at[Timer(c)] = "out"
      BY <1>2, <2>1 DEF StartTimer, Only
    <2> QED
      BY <1>2, <2>2, <2>3, ScriptShape DEF Timing
  <1>3. CASE at' = [at EXCEPT ![Script(c)] = "append", ![Timer(c)] = "waiting"] /\ StartTimer(c)
             /\ UNCHANGED error
    <2>1. /\ at[Script(c)] = "start timer" /\ at[Timer(c)] = "out"
          /\ at' \in [Agents -> AgentSteps]
          /\ at'[Script(c)] = "append" /\ at'[Timer(c)] = "waiting"
          /\ \A a \in Agents : a # Script(c) /\ a # Timer(c) => at'[a] = at[a]
      BY <1>3 DEF StartTimer, TypeOK, AgentSteps
    <2>2. TypeOK' /\ Kinds'
      BY <1>1, <2>1 DEF TypeOK, Kinds
    <2>3. \A d \in Commands : ~Untimed(d)
      <3>1. \A d \in Commands :
               d # c => at'[Script(d)] = at[Script(d)] /\ at'[Timer(d)] = at[Timer(d)]
        BY <2>1
      <3> QED
        BY <2>1, <3>1 DEF Untimed
    <2>4. untimed' = untimed
      BY <2>3 DEF Timing
    <2>5. ASSUME NEW d \in Commands PROVE OfCommand(d)'
      <3>1. OfCommand(d) /\ OfCommand(c)
        OBVIOUS
      <3>2. d # c => at'[Script(d)] = at[Script(d)] /\ at'[Timer(d)] = at[Timer(d)]
        BY <2>1
      <3> QED
        BY <1>1, <1>3, <2>1, <2>4, <3>1, <3>2 DEF OfCommand, Past
    <2> QED
      BY <1>1, <1>3, <2>2, <2>4, <2>5
  <1>4. CASE Elapse(c)
    <2>1. PICK t \in {"done", "get last"} : Only(Timer(c), t) /\ at[Timer(c)] = "waiting"
      BY <1>4, Going DEF Elapse, AgentSteps
    <2>2. UNCHANGED error /\ TypeOK' /\ Kinds'
      <3>1. UNCHANGED error
        BY <1>4 DEF Elapse
      <3>2. TypeOK' /\ Kinds'
        BY <1>1, <2>1 DEF TypeOK, Kinds, Only, Deactivating
      <3> QED
        BY <3>1, <3>2
    <2>3. \A d \in Commands : Untimed(d) => d = c /\ t = "done"
      BY <2>1 DEF Untimed, Only
    <2>4. untimed' \subseteq Commands /\ \A d \in untimed' : d \in untimed \/ (d = c /\ t = "done")
      BY <2>3 DEF Timing
    <2>5. ASSUME NEW d \in Commands PROVE OfCommand(d)'
      <3>1. OfCommand(d) /\ at'[Script(d)] = at[Script(d)]
        BY <2>1 DEF Only
      <3>2. at'[Timer(d)] # "out" <=> at[Timer(d)] # "out"
        BY <2>1 DEF Only
      <3>3. d \in untimed' => /\ at[Script(d)] \in {"append", "appending", "done"}
                             /\ at'[Timer(d)] \in {"out", "done"}
        BY <2>1, <2>4, <3>1 DEF OfCommand, Only
      <3> QED
        BY <1>1, <2>2, <3>1, <3>2, <3>3 DEF OfCommand
    <2> QED
      BY <1>1, <2>2, <2>4, <2>5
  <1> QED
    BY <1>2, <1>3, <1>4 DEF StartTimer

\* The steps of the target's own program keep the shape.
LEMMA TargetShape ==
    ASSUME Shape, UNCHANGED untimed,
           Own \/ LeaveOwn \/ WriteFails \/ EndMain \/ JoinTimers \/ Finalize
    PROVE  Shape'
  <1> USE AgentFacts, AgentAssumption DEF attributes, tracking, target, commands, Shape
  <1>1. /\ UNCHANGED <<client, mode, error, last_tracker, attach_event_threads, canceled, loaded>>
        /\ program' \in {"running", "tracking", "joining", "at exit", "gone"}
        /\ {writing', intercepted', broken'} \subseteq BOOLEAN
    BY DEF Own, LeaveOwn, WriteFails, EndMain, JoinTimers, Finalize, Begin, BeginFails, Destroy
  <1>2. owner' \in {owner, Program, None}
    BY DEF Own, LeaveOwn, WriteFails, EndMain, JoinTimers, Finalize, Begin, BeginFails, Destroy
  <1>3. (writing' => owner' # None) /\ (owner' # None => intercepted')
        /\ (intercepted' => owner' # None \/ broken')
    <2>1. CASE Own
      BY <2>1, Raises DEF Own, Begin, BeginFails
    <2>2. CASE LeaveOwn
      BY <2>2 DEF LeaveOwn, Destroy
    <2>3. CASE WriteFails
      BY <2>3 DEF WriteFails, TypeOK
    <2>4. CASE EndMain \/ JoinTimers \/ Finalize
      <3>1. UNCHANGED <<owner, writing, intercepted, broken>>
        BY <2>4 DEF EndMain, JoinTimers, Finalize
      <3> QED
        BY <3>1 DEF TypeOK
    <2> QED
      BY <2>1, <2>2, <2>3, <2>4
  <1>4. /\ at' \in [Agents -> AgentSteps]
        /\ \A c \in Commands : at'[Script(c)] = at[Script(c)] /\ at'[Timer(c)] = at[Timer(c)]
        /\ at'[Atexit] \in {at[Atexit], "get last", "done"}
    BY DEF TypeOK, Own, LeaveOwn, WriteFails, EndMain, JoinTimers, Finalize, Goes, AgentSteps
  <1>5. TypeOK'
    BY <1>1, <1>2, <1>3, <1>4 DEF TypeOK
  <1>6. Kinds'
    BY <1>4 DEF Kinds, Deactivating
  <1>7. ASSUME NEW c \in Commands PROVE OfCommand(c)'
    <2>1. owner' = c => owner = c
      BY <1>2
    <2>2. OfCommand(c)
      OBVIOUS
    <2> QED
      BY <1>1, <1>4, <2>1, <2>2 DEF OfCommand
  <1> QED
    BY <1>1, <1>5, <1>6, <1>7

-----------------------------------------------------------------------------
(* The second half: the deactivation *)

LEMMA GetLastUndisturbed ==
    ASSUME Shape, Undisturbed, UNCHANGED untimed, Together, ~overlap',
           NEW a \in Agents, GetLast(a)
    PROVE  Undisturbed'
  <1> USE AgentFacts
  <1>1. /\ at[a] = "get last"
        /\ UNCHANGED <<last_tracker, attach_event_threads, canceled, owner, writing, broken>>
        /\ UNCHANGED <<mode, error, program>>
    BY DEF GetLast, CommandsAnd, commands, attributes, tracking, target
  <1>2. PICK t \in {"forget last", "create", "done"} :
            Only(a, t) /\ (t = "forget last" <=> last_tracker \in Commands)
    BY Going DEF GetLast, AfterDeactivation, AgentSteps
  <1>3. \A b \in Agents : b # a => b \notin Busy /\ b \notin Busy'
    BY <1>1, <1>2, OthersIdle DEF Idle
  <1>4. Settled
    BY <1>1, <1>3 DEF Undisturbed, Busy
  <1>5. \A c \in Commands : Runs(c)' <=> Runs(c)
    BY <1>1, <1>2 DEF Runs, Only
  <1>6. last_tracker \notin Commands => NothingAttached'
    <2>1. last_tracker \notin Commands => owner \notin Commands
      BY <1>4 DEF Settled
    <2>2. \A c \in Commands : Runs(c) => owner = c
      BY <1>4 DEF Settled
    <2> QED
      BY <1>1, <1>5, <2>1, <2>2 DEF NothingAttached
  <1>7. Always'
    BY <1>1 DEF Undisturbed, Always
  <1>8. Settled'
    <2>1. ASSUME NEW c \in Commands, at[Timer(c)] \in {"get last", "forget last"}, owner = c
          PROVE  at'[Timer(c)] \in {"get last", "forget last"}
      BY <1>1, <1>2, <1>4, <2>1 DEF Only, Settled
    <2>2. \A c \in Commands : at'[Timer(c)] # "out" <=> at[Timer(c)] # "out"
      BY <1>1, <1>2 DEF Only
    <2> QED
      BY <1>1, <1>4, <1>5, <2>1, <2>2 DEF Settled
  <1>9. During(a)'
    BY <1>1, <1>2, <1>6 DEF During, Only
  <1>10. \A c \in Commands : a = Script(c) => DuringScript(c)'
    BY <1>2 DEF DuringScript, Only
  <1>11. \A c \in Commands : a = Timer(c) => DuringTimer(c)'
    BY <1>1, <1>2 DEF Undisturbed, DuringTimer, Only
  <1> QED
    BY <1>3, <1>7, <1>8, <1>9, <1>10, <1>11, Focus

\* While no two commands ever overlap, to forget the last tracker disturbs no one.
LEMMA ForgetLastUndisturbed ==
    ASSUME Shape, Undisturbed, UNCHANGED untimed, Together, ~overlap',
           NEW a \in Agents, ForgetLast(a)
    PROVE  Undisturbed'
  <1> USE AgentFacts
  <1>1. /\ at[a] = "forget last" /\ Only(a, "exit") /\ last_tracker' = None
        /\ UNCHANGED <<attach_event_threads, canceled, owner, writing, broken>>
        /\ UNCHANGED <<mode, error, program>>
    BY Going DEF ForgetLast, CommandsAnd, commands, tracking, target, AgentSteps
  <1>2. \A b \in Agents : b # a => b \notin Busy /\ b \notin Busy'
    BY <1>1, OthersIdle DEF Idle
  <1>3. Settled
    BY <1>1, <1>2 DEF Undisturbed, Busy
  <1>4. \A c \in Commands : Runs(c)' <=> Runs(c)
    BY <1>1 DEF Runs, Only
  <1>5. owner \in Commands
    <2>1. During(a)
      BY DEF Undisturbed
    <2> QED
      BY <1>1, <1>3, <2>1 DEF During, Settled
  <1>6. \A c \in Commands : Runs(c) => attach_event_threads = {c}
    BY <1>3 DEF Settled, Runs
  <1>7. \A c \in Commands : {c} # Unset
    BY AgentAssumption
  <1>8. Always'
    BY <1>1 DEF Undisturbed, Always
  <1>9. During(a)'
    <2>1. at'[a] = "exit" /\ owner' \in Commands /\ last_tracker' = None
      BY <1>1, <1>5 DEF Only
    <2>2. \A c \in Commands : Runs(c)' => attach_event_threads' = {c} /\ {c} # Unset
      BY <1>1, <1>4, <1>6, <1>7
    <2> QED
      BY <2>1, <2>2 DEF During
  <1>10. \A c \in Commands : a = Script(c) => DuringScript(c)'
    BY <1>1 DEF DuringScript, Only
  <1>11. \A c \in Commands : a = Timer(c) => DuringTimer(c)'
    BY <1>1 DEF Undisturbed, DuringTimer, Only
  <1>12. at'[a] \notin Idle \cup {"get last", "forget last"}
    BY <1>1 DEF Only, Idle
  <1> QED
    BY <1>2, <1>8, <1>9, <1>10, <1>11, <1>12, Focus

\* Nor does to end it: it is the tracker that was read.
LEMMA ExitUndisturbed ==
    ASSUME Shape, Undisturbed, UNCHANGED untimed, Together, ~overlap',
           NEW a \in Agents, Exit(a)
    PROVE  Undisturbed'
  <1> USE AgentFacts
  <1>1. at[a] = "exit" /\ last_tracker = None /\ owner \in Commands
    BY DEF Exit, Undisturbed, During
  <1>2. intercepted
    BY <1>1, AgentAssumption DEF Shape, TypeOK
  <1>3. /\ Only(a, "cancel timers") /\ owner' = None /\ writing' = FALSE
        /\ UNCHANGED <<last_tracker, attach_event_threads, canceled, broken, mode, error, program>>
    BY <1>2, Going DEF Exit, Destroy, CommandsAnd, commands, attributes, target, AgentSteps
  <1>4. \A b \in Agents : b # a => b \notin Busy /\ b \notin Busy'
    BY <1>1, <1>3, OthersIdle DEF Idle
  <1>5. \A c \in Commands : Runs(c)' <=> Runs(c)
    BY <1>1, <1>3 DEF Runs, Only
  <1>6. Always'
    BY <1>1, <1>3, AgentAssumption DEF Undisturbed, Always
  <1>7. During(a)'
    BY <1>1, <1>3, <1>5, AgentAssumption DEF Undisturbed, During, Only
  <1>8. \A c \in Commands : a = Script(c) => DuringScript(c)'
    BY <1>3 DEF DuringScript, Only
  <1>9. \A c \in Commands : a = Timer(c) => DuringTimer(c)'
    BY <1>3 DEF DuringTimer, Only
  <1>10. at'[a] \notin Idle \cup {"get last", "forget last"}
    BY <1>3 DEF Only, Idle
  <1> QED
    BY <1>4, <1>6, <1>7, <1>8, <1>9, <1>10, Focus

\* Nor does to cancel the timers.
LEMMA CancelUndisturbed ==
    ASSUME Shape, Undisturbed, UNCHANGED untimed, Together, ~overlap',
           NEW a \in Agents, CancelTimers(a)
    PROVE  Undisturbed'
  <1> USE AgentFacts
  <1>1. /\ at[a] = "cancel timers"
        /\ \A c \in Commands :
              c \in canceled \/ (attach_event_threads # Unset /\ c \in attach_event_threads) =>
                 c \in canceled'
        /\ UNCHANGED <<last_tracker, owner, writing, broken, mode, error, program>>
    BY DEF CancelTimers, CommandsAnd, commands, tracking, target
  <1>2. PICK t \in {"create", "done"} : Only(a, t)
    BY Going DEF CancelTimers, AfterDeactivation, AgentSteps
  <1>3. \A b \in Agents : b # a => b \notin Busy /\ b \notin Busy'
    BY <1>1, <1>2, OthersIdle DEF Idle
  <1>4. During(a)
    BY DEF Undisturbed
  <1>5. \A c \in Commands : ~Runs(c)'
    BY <1>1, <1>2, <1>4 DEF During, Runs, Only
  <1>6. NothingAttached'
    BY <1>1, <1>4, <1>5, AgentAssumption DEF During, NothingAttached
  <1>7. Always'
    BY <1>1 DEF Undisturbed, Always
  <1>8. Settled'
    BY <1>6 DEF Settled, NothingAttached, Runs
  <1>9. During(a)'
    BY <1>2, <1>6 DEF During, Only
  <1>10. \A c \in Commands : a = Script(c) => DuringScript(c)'
    BY <1>2 DEF DuringScript, Only
  <1>11. \A c \in Commands : a = Timer(c) => DuringTimer(c)'
    BY <1>2 DEF DuringTimer, Only
  <1> QED
    BY <1>3, <1>7, <1>8, <1>9, <1>10, <1>11, Focus

-----------------------------------------------------------------------------
(* The second half: the script and its timer *)

\* A script that raises goes to its end.
LEMMA Raising ==
    ASSUME Shape, NEW c \in Commands, NEW e, Raise(c, e)
    PROVE  Only(Script(c), "done") /\ error' = [error EXCEPT ![c] = e]
  BY Going, AgentFacts, AgentNames DEF Raise, Fail, AgentSteps

\* What a script that is through leaves is settled when it has raised nothing,
\* or has got no tracker.
LEMMA StartUndisturbed ==
    ASSUME Shape, Undisturbed, UNCHANGED untimed, Together, ~overlap',
           NEW c \in Commands, Start(c)
    PROVE  Undisturbed'
  <1> USE AgentFacts DEF CommandsAnd, commands, tracking, target
  <1>1. /\ at[Script(c)] = "start"
        /\ UNCHANGED <<last_tracker, attach_event_threads, canceled, loaded>>
        /\ UNCHANGED <<owner, writing, broken, mode, program>>
    BY DEF Start
  <1>2. PICK t \in {"get last", "done"} :
            /\ Only(Script(c), t)
            /\ IF t = "done" THEN error' = [error EXCEPT ![c] = "BareExceptionMessage"]
                             ELSE error' = error
    <2>1. CASE Raise(c, "BareExceptionMessage")
      BY <2>1, Raising
    <2>2. CASE Goes(Script(c), "get last") /\ error' = error
      BY <2>2, Going DEF AgentSteps
    <2> QED
      BY <2>1, <2>2 DEF Start
  <1>3. \A d \in Commands : error'[d] = error[d] \/ (d = c /\ error'[d] = "BareExceptionMessage")
    BY <1>2 DEF Shape
  <1>4. owner # c
    BY <1>1 DEF Shape, OfCommand, Past
  <1>5. \A d \in Commands : Runs(d)' <=> Runs(d)
    BY <1>1, <1>2 DEF Runs, Only
  <1>6. Always'
    BY <1>1, <1>3 DEF Undisturbed, Always
  <1>7. Settled => Settled'
    <2>1. \A d \in Commands : at'[Timer(d)] = at[Timer(d)]
      BY <1>2 DEF Only
    <2>2. SUFFICES ASSUME Settled PROVE Settled'
      OBVIOUS
    <2>3. ASSUME NEW d \in Commands, error'[d] # "none" PROVE owner # d \/ d \in untimed
      BY <1>3, <1>4, <2>2, <2>3 DEF Settled
    <2>4. last_tracker' \in Commands \/ owner' \in Commands => owner' = last_tracker'
      BY <1>1, <2>2 DEF Settled
    <2>5. ASSUME NEW d \in Commands
          PROVE  /\ Runs(d)' => owner' = d /\ mode'[d] = "FOR_DURATION"
                 /\ owner' = d /\ mode'[d] = "FOR_DURATION" =>
                       \/ Runs(d)' \/ d \in untimed'
                       \/ at'[Timer(d)] \in {"get last", "forget last"}
      BY <1>1, <1>5, <2>1, <2>2 DEF Settled
    <2>6. ASSUME NEW d \in Commands, owner' = d
          PROVE  attach_event_threads' =
                    IF mode'[d] = "FOR_DURATION" /\ at'[Timer(d)] # "out" THEN {d} ELSE {}
      BY <1>1, <2>1, <2>2, <2>6 DEF Settled
    <2> QED
      BY <1>1, <2>3, <2>4, <2>5, <2>6 DEF Settled
  <1>8. CASE t = "done"
    <2>1. Busy' = Busy /\ \A a \in Busy : at'[a] = at[a]
      BY <1>1, <1>2, <1>8 DEF Busy, Only
    <2> QED
      BY <1>1, <1>5, <1>6, <1>7, <2>1, NobodyAtWorkMoves
  <1>9. CASE t = "get last"
    <2>1. \A b \in Agents : b # Script(c) => b \notin Busy /\ b \notin Busy'
      BY <1>2, <1>9, OthersIdle DEF Idle
    <2>2. Settled
      BY <1>1, <2>1 DEF Undisturbed, Busy
    <2>3. During(Script(c))'
      BY <1>2, <1>9 DEF During, Only
    <2>4. \A d \in Commands : Script(c) = Script(d) => DuringScript(d)'
      BY <1>2, <1>9 DEF DuringScript, Only
    <2> QED
      BY <1>6, <1>7, <2>1, <2>2, <2>3, <2>4, Focus
  <1> QED
    BY <1>8, <1>9

\* Nor does to open the destination of the records.
LEMMA CreateUndisturbed ==
    ASSUME Shape, Undisturbed, UNCHANGED untimed, Together, ~overlap',
           NEW c \in Commands, Create(c) \/ Accept(c)
    PROVE  Undisturbed'
  <1> USE AgentFacts DEF CommandsAnd, commands, tracking, attributes, target
  <1>1. /\ at[Script(c)] \in {"create", "accepting"}
        /\ UNCHANGED <<last_tracker, attach_event_threads, canceled, owner, writing, broken>>
        /\ UNCHANGED <<mode, program>>
    BY DEF Create, Accept
  <1>2. PICK t \in {"accepting", "enter", "done"} :
            /\ Only(Script(c), t)
            /\ error' = error \/ error' = [error EXCEPT ![c] = "OSError"]
    <2>1. CASE Raise(c, "OSError")
      BY <2>1, Raising
    <2>2. ASSUME NEW t \in {"accepting", "enter"}, Goes(Script(c), t), error' = error
          PROVE  Only(Script(c), t)
      <3>1. t \in AgentSteps
        BY DEF AgentSteps
      <3> QED
        BY <2>2, <3>1, Going
    <2>3. \/ Raise(c, "OSError")
          \/ Goes(Script(c), "accepting") /\ error' = error
          \/ Goes(Script(c), "enter") /\ error' = error
      BY DEF Create, Accept
    <2>4. CASE Raise(c, "OSError")
      BY <2>1, <2>4
    <2>5. CASE Goes(Script(c), "accepting") /\ error' = error
      BY <2>2, <2>5
    <2>6. CASE Goes(Script(c), "enter") /\ error' = error
      BY <2>2, <2>6
    <2> QED
      BY <2>3, <2>4, <2>5, <2>6
  <1>3. \A d \in Commands : error'[d] = error[d] \/ error'[d] = "OSError"
    BY <1>2 DEF Shape
  <1>4. \A b \in Agents : b # Script(c) => b \notin Busy /\ b \notin Busy'
    BY <1>1, <1>2, OthersIdle DEF Idle
  <1>5. During(Script(c))
    BY DEF Undisturbed
  <1>6. NothingAttached'
    <2>1. NothingAttached
      BY <1>1, <1>5 DEF During
    <2>2. \A d \in Commands : at'[Timer(d)] = at[Timer(d)]
      BY <1>2 DEF Only
    <2> QED
      BY <1>1, <2>1, <2>2 DEF NothingAttached, Runs
  <1>7. Always'
    BY <1>1, <1>3 DEF Undisturbed, Always
  <1>8. Settled'
    BY <1>6 DEF Settled, NothingAttached
  <1>9. During(Script(c))'
    BY <1>2, <1>6 DEF During, Only
  <1>10. \A d \in Commands : Script(c) = Script(d) => DuringScript(d)'
    BY <1>2 DEF DuringScript, Only
  <1> QED
    BY <1>4, <1>7, <1>8, <1>9, <1>10, Focus

\* Nor does to enter a tracker.
LEMMA EnterUndisturbed ==
    ASSUME Shape, Undisturbed, UNCHANGED untimed, Together, ~overlap',
           NEW c \in Commands, Enter(c)
    PROVE  Undisturbed'
  <1> USE AgentFacts DEF commands, tracking, attributes
  <1>1. /\ at[Script(c)] = "enter"
        /\ UNCHANGED <<last_tracker, attach_event_threads, canceled, mode, program>>
    BY DEF Enter
  <1>2. NothingAttached
    BY <1>1 DEF Undisturbed, During
  <1>3. Always
    BY DEF Undisturbed
  <1>4. ASSUME NEW e, Raise(c, e), owner' = owner, Always'
        PROVE  Undisturbed'
    <2>1. Only(Script(c), "done")
      BY <1>4, Raising
    <2>2. \A b \in Agents : b # Script(c) => b \notin Busy /\ b \notin Busy'
      BY <1>1, <2>1, OthersIdle DEF Idle
    <2>3. NothingAttached'
      <3>1. \A d \in Commands : at'[Timer(d)] = at[Timer(d)]
        BY <2>1 DEF Only
      <3> QED
        BY <1>1, <1>2, <1>4, <3>1 DEF NothingAttached, Runs
    <2>4. Settled'
      BY <2>3 DEF Settled, NothingAttached
    <2>5. During(Script(c))'
      BY <2>1 DEF During, Only
    <2>6. \A d \in Commands : Script(c) = Script(d) => DuringScript(d)'
      BY <2>1 DEF DuringScript, Only
    <2> QED
      BY <1>4, <2>2, <2>4, <2>5, <2>6, Focus
  <1>5. CASE EnterRaises # "nothing" /\ Raise(c, EnterRaises) /\ UNCHANGED tracking
    <2>1. \A d \in Commands : error'[d] = error[d] \/ error'[d] = EnterRaises
      <3>1. error' = [error EXCEPT ![c] = EnterRaises]
        BY <1>5, Raising
      <3> QED
        BY <3>1 DEF Shape
    <2>2. EnterRaises = "AssertionError" => broken
      BY <1>2, <1>3, Raises DEF Shape, TypeOK, NothingAttached, Always
    <2>3. EnterRaises # "AttributeError"
      BY Raises
    <2>4. Always'
      BY <1>1, <1>3, <1>5, <2>1, <2>2, <2>3 DEF Always
    <2> QED
      BY <1>4, <1>5, <2>4
  <1>6. CASE BeginFails /\ Raise(c, "IoError")
    <2>1. \A d \in Commands : error'[d] = error[d] \/ error'[d] = "IoError"
      <3>1. error' = [error EXCEPT ![c] = "IoError"]
        BY <1>6, Raising
      <3> QED
        BY <3>1 DEF Shape
    <2>2. Always'
      BY <1>1, <1>3, <1>6, <2>1 DEF Always, BeginFails
    <2> QED
      BY <1>4, <1>6, <2>2 DEF BeginFails
  <1>7. CASE /\ EnterRaises = "nothing" /\ Begin(c)
             /\ Goes(Script(c), "set last") /\ UNCHANGED error
    <2>1. Only(Script(c), "set last") /\ owner' = c
      BY <1>7, Going DEF Begin, AgentSteps
    <2>2. \A b \in Agents : b # Script(c) => b \notin Busy /\ b \notin Busy'
      BY <1>1, <2>1, OthersIdle DEF Idle
    <2>3. \A d \in Commands : ~Runs(d)'
      <3>1. \A d \in Commands : at'[Timer(d)] = at[Timer(d)]
        BY <2>1 DEF Only
      <3> QED
        BY <1>1, <1>2, <3>1 DEF NothingAttached, Runs
    <2>4. owner = None
      BY <1>7, Raises DEF Shape, TypeOK
    <2>5. Always'
      BY <1>1, <1>3, <1>7, <2>1, <2>4, AgentAssumption DEF Always, Begin
    <2>6. During(Script(c))'
      BY <2>1 DEF During, Only
    <2>7. \A d \in Commands : Script(c) = Script(d) => DuringScript(d)'
      BY <1>1, <1>2, <2>1, <2>3 DEF DuringScript, Only, NothingAttached
    <2>8. at'[Script(c)] \notin Idle \cup {"get last", "forget last"}
      BY <2>1 DEF Only, Idle
    <2> QED
      BY <2>2, <2>5, <2>6, <2>7, <2>8, Focus
  <1> QED
    BY <1>5, <1>6, <1>7 DEF Enter

\* Nor does to name it the last one.
LEMMA SetLastUndisturbed ==
    ASSUME Shape, Undisturbed, UNCHANGED untimed, Together, ~overlap',
           NEW c \in Commands, SetLast(c)
    PROVE  Undisturbed'
  <1> USE AgentFacts DEF CommandsAnd, commands, tracking, target
  <1>1. /\ at[Script(c)] = "set last" /\ last_tracker' = c
        /\ UNCHANGED <<attach_event_threads, canceled, owner, writing, broken>>
        /\ UNCHANGED <<mode, error, program>>
    BY DEF SetLast
  <1>2. Only(Script(c), "set threads")
    BY Going DEF SetLast, AgentSteps
  <1>3. \A b \in Agents : b # Script(c) => b \notin Busy /\ b \notin Busy'
    BY <1>1, <1>2, OthersIdle DEF Idle
  <1>4. owner = c /\ \A d \in Commands : ~Runs(d)
    BY <1>1 DEF Undisturbed, DuringScript
  <1>5. \A d \in Commands : ~Runs(d)'
    BY <1>1, <1>2, <1>4 DEF Runs, Only
  <1>6. Always'
    BY <1>1 DEF Undisturbed, Always
  <1>7. During(Script(c))'
    BY <1>2 DEF During, Only
  <1>8. \A d \in Commands : Script(c) = Script(d) => DuringScript(d)'
    BY <1>1, <1>2, <1>4, <1>5 DEF DuringScript, Only
  <1>9. at'[Script(c)] \notin Idle \cup {"get last", "forget last"}
    BY <1>2 DEF Only, Idle
  <1> QED
    BY <1>3, <1>6, <1>7, <1>8, <1>9, Focus

\* Nor does to make the new list of timers.
LEMMA SetThreadsUndisturbed ==
    ASSUME Shape, Undisturbed, UNCHANGED untimed, Together, ~overlap',
           NEW c \in Commands, SetThreads(c)
    PROVE  Undisturbed'
  <1> USE AgentFacts DEF CommandsAnd, commands, tracking, target
  <1>1. /\ at[Script(c)] = "set threads" /\ attach_event_threads' = {}
        /\ UNCHANGED <<last_tracker, canceled, owner, writing, broken, mode, error, program>>
    BY DEF SetThreads
  <1>2. PICK t \in {"start timer", "done"} :
            Only(Script(c), t) /\ (t = "start timer" <=> mode[c] = "FOR_DURATION")
    BY Going DEF SetThreads, AgentSteps
  <1>3. \A b \in Agents : b # Script(c) => b \notin Busy /\ b \notin Busy'
    BY <1>1, <1>2, OthersIdle DEF Idle
  <1>4. owner = c /\ last_tracker = c /\ \A d \in Commands : ~Runs(d)
    BY <1>1 DEF Undisturbed, DuringScript
  <1>5. \A d \in Commands : ~Runs(d)'
    BY <1>1, <1>2, <1>4 DEF Runs, Only
  <1>6. Always'
    BY <1>1 DEF Undisturbed, Always
  <1>7. t = "done" => Settled'
    <2>1. error[c] = "none"
      BY <1>1 DEF Shape, OfCommand
    <2>2. \A d \in Commands : d # c => owner # d
      BY <1>4
    <2> QED
      BY <1>1, <1>2, <1>4, <1>5, <2>1, <2>2 DEF Settled
  <1>8. During(Script(c))'
    BY <1>2 DEF During, Only
  <1>9. \A d \in Commands : Script(c) = Script(d) => DuringScript(d)'
    BY <1>1, <1>2, <1>4, <1>5 DEF DuringScript, Only
  <1>10. at'[Script(c)] \in Idle \cup {"get last", "forget last"} => t = "done"
    BY <1>2 DEF Only, Idle
  <1> QED
    BY <1>3, <1>6, <1>7, <1>8, <1>9, <1>10, Focus

\* The timer starts while nobody else is at work, and is not at work itself.  When
\* it cannot, the tracker stays, without a timer and with an empty list.
LEMMA StartTimerUndisturbed ==
    ASSUME Shape, Undisturbed, Together, Timing, ~overlap', NEW c \in Commands, StartTimer(c)
    PROVE  Undisturbed'
  <1> USE AgentFacts DEF commands, attributes, tracking
  <1>1. /\ at[Script(c)] = "start timer" /\ at[Timer(c)] = "out"
        /\ UNCHANGED <<last_tracker, attach_event_threads, canceled, owner, writing, broken>>
        /\ UNCHANGED <<mode, program>>
    BY DEF StartTimer
  <1>2. /\ owner = c /\ last_tracker = c /\ attach_event_threads = {}
        /\ \A d \in Commands : ~Runs(d)
    BY <1>1 DEF Undisturbed, DuringScript
  <1>3. CASE /\ at' = [at EXCEPT ![Script(c)] = "append", ![Timer(c)] = "waiting"]
             /\ UNCHANGED error
    <2>1. /\ at'[Script(c)] = "append" /\ at'[Timer(c)] = "waiting"
          /\ \A a \in Agents : a # Script(c) /\ a # Timer(c) => at'[a] = at[a]
      BY <1>3 DEF Shape, TypeOK
    <2>2. \A b \in Agents : b # Script(c) => b \notin Busy /\ b \notin Busy'
      BY <1>1, <2>1 DEF Undisturbed, Busy
    <2>3. c \notin canceled
      BY <1>1 DEF Shape, OfCommand
    <2>4. Runs(c)' /\ \A d \in Commands : Runs(d)' => d = c
      BY <1>1, <1>2, <2>1, <2>3 DEF Runs
    <2>5. Always'
      BY <1>1, <1>3 DEF Undisturbed, Always
    <2>6. During(Script(c))'
      BY <2>1 DEF During
    <2>7. \A d \in Commands : Script(c) = Script(d) => DuringScript(d)'
      BY <1>1, <1>2, <2>1, <2>4 DEF DuringScript
    <2>8. at'[Script(c)] \notin Idle \cup {"get last", "forget last"}
      BY <2>1 DEF Idle
    <2> QED
      BY <2>2, <2>5, <2>6, <2>7, <2>8, Focus
  <1>4. CASE Raise(c, "CannotStart")
    <2>1. Only(Script(c), "done") /\ error' = [error EXCEPT ![c] = "CannotStart"]
      BY <1>4, Raising
    <2>2. \A d \in Commands : error'[d] = error[d] \/ (d = c /\ error'[d] = "CannotStart")
      BY <2>1 DEF Shape
    <2>3. \A b \in Agents : b # Script(c) => b \notin Busy /\ b \notin Busy'
      BY <1>1, <2>1, OthersIdle DEF Idle
    <2>4. at'[Timer(c)] = "out" /\ \A d \in Commands : ~Runs(d)'
      BY <1>1, <1>2, <2>1 DEF Runs, Only
    <2>5. c \in untimed'
      BY <1>1, <2>1 DEF Timing, Untimed, Only
    <2>6. Always'
      BY <1>1, <2>2 DEF Undisturbed, Always
    <2>7. Settled'
      <3>1. \A d \in Commands : owner = d => d = c
        BY <1>2
      <3> QED
        BY <1>1, <1>2, <2>4, <2>5, <3>1 DEF Settled
    <2>8. During(Script(c))'
      BY <2>1 DEF During, Only
    <2>9. \A d \in Commands : Script(c) = Script(d) => DuringScript(d)'
      BY <2>1 DEF DuringScript, Only
    <2> QED
      BY <2>3, <2>6, <2>7, <2>8, <2>9, Focus
  <1> QED
    BY <1>3, <1>4 DEF StartTimer

\* Nor does to read the list that the timer will be appended to: there is one.
LEMMA LoadUndisturbed ==
    ASSUME Shape, Undisturbed, UNCHANGED untimed, Together, ~overlap',
           NEW c \in Commands,
           LoadThreads(c)
    PROVE  Undisturbed'
  <1> USE AgentFacts DEF CommandsAnd, commands, tracking, target
  <1>1. /\ at[Script(c)] = "append"
        /\ UNCHANGED <<last_tracker, attach_event_threads, canceled, owner, writing, broken>>
        /\ UNCHANGED <<mode, program>>
    BY DEF LoadThreads
  <1>2. /\ owner = c /\ last_tracker = c /\ attach_event_threads = {}
        /\ Runs(c) \/ c \in untimed
        /\ \A d \in Commands : Runs(d) => d = c
    BY <1>1 DEF Undisturbed, DuringScript
  <1>3. attach_event_threads # Unset
    BY <1>2, AgentAssumption
  <1>4. Only(Script(c), "appending") /\ UNCHANGED error /\ c \in loaded'
    BY <1>3, Going DEF LoadThreads, AgentSteps
  <1>5. \A b \in Agents : b # Script(c) => b \notin Busy /\ b \notin Busy'
    BY <1>1, <1>4, OthersIdle DEF Idle
  <1>6. \A d \in Commands : Runs(d)' <=> Runs(d)
    BY <1>1, <1>4 DEF Runs, Only
  <1>7. Always'
    BY <1>1, <1>4 DEF Undisturbed, Always
  <1>8. During(Script(c))'
    BY <1>4 DEF During, Only
  <1>9. \A d \in Commands : Script(c) = Script(d) => DuringScript(d)'
    BY <1>1, <1>2, <1>4, <1>6 DEF DuringScript, Only
  <1>10. at'[Script(c)] \notin Idle \cup {"get last", "forget last"}
    BY <1>4 DEF Only, Idle
  <1> QED
    BY <1>5, <1>7, <1>8, <1>9, <1>10, Focus

\* Nor does to append a timer to the list, which nobody has popped.
LEMMA AppendUndisturbed ==
    ASSUME Shape, Undisturbed, UNCHANGED untimed, Together, ~overlap',
           NEW c \in Commands,
           AppendTimer(c)
    PROVE  Undisturbed'
  <1> USE AgentFacts DEF CommandsAnd, commands, tracking, target
  <1>1. /\ at[Script(c)] = "appending"
        /\ UNCHANGED <<last_tracker, canceled, owner, writing, broken, mode, error, program>>
    BY DEF AppendTimer
  <1>2. /\ owner = c /\ last_tracker = c /\ attach_event_threads = {} /\ c \in loaded
        /\ Runs(c) \/ c \in untimed
        /\ \A d \in Commands : Runs(d) => d = c
    BY <1>1 DEF Undisturbed, DuringScript
  <1>3. Only(Script(c), "done") /\ attach_event_threads' = {c}
    BY <1>2, Going DEF AppendTimer, AgentSteps
  <1>4. \A b \in Agents : b # Script(c) => b \notin Busy /\ b \notin Busy'
    BY <1>1, <1>3, OthersIdle DEF Idle
  <1>5. \A d \in Commands : at'[Timer(d)] = at[Timer(d)] /\ (Runs(d)' <=> Runs(d))
    BY <1>1, <1>3 DEF Runs, Only
  <1>6. Always'
    BY <1>1, <1>3 DEF Undisturbed, Always
  <1>7. Settled'
    <2>1. error[c] = "none" /\ mode[c] = "FOR_DURATION" /\ at[Timer(c)] # "out"
      BY <1>1 DEF Shape, OfCommand
    <2>2. \A d \in Commands : owner = d => d = c
      BY <1>2
    <2> QED
      BY <1>1, <1>2, <1>3, <1>5, <2>1, <2>2 DEF Settled
  <1>8. During(Script(c))'
    BY <1>3 DEF During, Only
  <1>9. \A d \in Commands : Script(c) = Script(d) => DuringScript(d)'
    BY <1>3 DEF DuringScript, Only
  <1> QED
    BY <1>4, <1>6, <1>7, <1>8, <1>9, Focus

\* Nor does the elapsing of a timer, or its failure before it does anything.
LEMMA ElapseUndisturbed ==
    ASSUME Shape, Undisturbed, Together, Timing, ~overlap', NEW c \in Commands, Elapse(c)
    PROVE  Undisturbed'
  <1> USE AgentFacts DEF commands, attributes, tracking
  <1>1. /\ at[Timer(c)] = "waiting"
        /\ UNCHANGED <<last_tracker, attach_event_threads, canceled, loaded>>
        /\ UNCHANGED <<owner, writing, broken, mode, error, program>>
    BY DEF Elapse
  <1>2. PICK t \in {"done", "get last"} : Only(Timer(c), t) /\ (t = "get last" => c \notin canceled)
    BY Going DEF Elapse, AgentSteps
  <1>3. Always'
    BY <1>1 DEF Undisturbed, Always
  <1>4. CASE t = "done"
    <2>1. ~Runs(c)' /\ \A d \in Commands : d # c => (Runs(d)' <=> Runs(d))
      BY <1>1, <1>2, <1>4 DEF Runs, Only
    <2>2. Busy' = Busy /\ \A a \in Busy : at'[a] = at[a]
      BY <1>1, <1>2, <1>4 DEF Busy, Only
    <2>3. untimed \subseteq untimed' /\ (Runs(c) => c \in untimed')
      BY <1>1, <1>2, <1>4 DEF Timing, Untimed, Runs, Only
    <2>4. ASSUME NEW d \in Commands
          PROVE  /\ Runs(d)' => Runs(d)
                 /\ Runs(d) \/ d \in untimed => Runs(d)' \/ d \in untimed'
      BY <2>1, <2>3
    <2>5. Settled => Settled'
      <3>1. ASSUME NEW d \in Commands
            PROVE  /\ at[Timer(d)] \in {"get last", "forget last"} => at'[Timer(d)] = at[Timer(d)]
                   /\ at'[Timer(d)] # "out" <=> at[Timer(d)] # "out"
                   /\ d \in untimed => d \in untimed'
        BY <1>1, <1>2, <2>3 DEF Only
      <3> QED
        BY <1>1, <2>4, <3>1 DEF Settled
    <2> QED
      BY <1>1, <1>3, <2>2, <2>4, <2>5, NobodyAtWorkMoves
  <1>5. CASE t = "get last"
    <2>1. \A b \in Agents : b # Timer(c) => b \notin Busy /\ b \notin Busy'
      BY <1>2, <1>5, OthersIdle DEF Idle
    <2>2. Settled
      BY <1>1, <2>1 DEF Undisturbed, Busy
    <2>3. Runs(c)
      BY <1>1, <1>2, <1>5 DEF Runs
    <2>4. owner = c
      BY <2>2, <2>3 DEF Settled
    <2>5. \A d \in Commands : d # c => (Runs(d)' <=> Runs(d))
      BY <1>1, <1>2 DEF Runs, Only
    <2>6. ~Runs(c)' /\ at'[Timer(c)] = "get last"
      BY <1>2, <1>5 DEF Runs, Only
    <2>7. Settled'
      <3>1. \A d \in Commands : d # c => owner # d
        BY <2>4
      <3>2. untimed \subseteq untimed' /\ \A d \in Commands : Runs(d)' => Runs(d)
        BY <2>5, <2>6 DEF Timing
      <3>3. at[Timer(c)] # "out"
        BY <1>1
      <3> QED
        BY <1>1, <2>2, <2>4, <2>6, <3>1, <3>2, <3>3 DEF Settled
    <2>8. During(Timer(c))'
      BY <2>6 DEF During
    <2>9. \A d \in Commands : Timer(c) = Timer(d) => DuringTimer(d)'
      BY <1>1, <2>4 DEF DuringTimer
    <2> QED
      BY <1>3, <2>1, <2>7, <2>8, <2>9, Focus
  <1> QED
    BY <1>4, <1>5

-----------------------------------------------------------------------------
(* The second half: the commands and the target *)

LEMMA ClientUndisturbed ==
    ASSUME Shape, Undisturbed, UNCHANGED untimed, NEW c \in Commands,
           \/ DebuggerFails(c) \/ (\E m \in Modes : Inject(c, m)) \/ RunClient(c)
           \/ CannotConnect(c) \/ Answer(c) \/ HangUp(c)
    PROVE  Undisturbed'
  <1> USE AgentFacts
  <1>1. /\ UNCHANGED <<last_tracker, attach_event_threads, canceled, loaded>>
        /\ UNCHANGED <<owner, writing, broken, error, program>>
    BY DEF DebuggerFails, Inject, RunClient, CannotConnect, Answer, HangUp, attributes, tracking,
           target
  <1>2. \/ UNCHANGED at
        \/ \E t \in {"connecting", "start", "lost"} :
              at[Script(c)] \in {"out", "connecting"} /\ Only(Script(c), t)
    <2>1. ASSUME NEW t \in {"connecting", "start", "lost"}, Goes(Script(c), t)
          PROVE  Only(Script(c), t)
      <3>1. t \in AgentSteps
        BY DEF AgentSteps
      <3> QED
        BY <2>1, <3>1, Going
    <2>2. CASE DebuggerFails(c) \/ Answer(c) \/ HangUp(c)
      BY <2>2 DEF DebuggerFails, Answer, HangUp
    <2>3. CASE \E m \in Modes : Inject(c, m)
      BY <2>1, <2>3 DEF Inject
    <2>4. CASE RunClient(c)
      BY <2>1, <2>4 DEF RunClient
    <2>5. CASE CannotConnect(c)
      BY <2>1, <2>5 DEF CannotConnect
    <2> QED
      BY <2>2, <2>3, <2>4, <2>5
  <1>3. Busy' = Busy /\ \A a \in Busy : at'[a] = at[a]
    BY <1>2 DEF Busy, Only
  <1>4. \A d \in Commands : at'[Timer(d)] = at[Timer(d)]
    BY <1>2 DEF Only
  <1>5. \A d \in Commands : Runs(d)' <=> Runs(d)
    BY <1>1, <1>4 DEF Runs
  <1>6. \A d \in Commands : owner = d \/ Runs(d) => mode'[d] = mode[d]
    <2>1. CASE UNCHANGED mode
      BY <2>1
    <2>2. ASSUME NEW m \in Modes, Inject(c, m)
          PROVE  \A d \in Commands : owner = d \/ Runs(d) => mode'[d] = mode[d]
      <3>1. owner # c /\ ~Runs(c)
        BY <2>2 DEF Inject, Shape, OfCommand, Past, Runs
      <3>2. \A d \in Commands : d # c => mode'[d] = mode[d]
        BY <2>2 DEF Inject, Shape, TypeOK
      <3> QED
        BY <3>1, <3>2
    <2> QED
      BY <2>1, <2>2 DEF DebuggerFails, RunClient, CannotConnect, Answer, HangUp, commands
  <1>7. Always'
    BY <1>1 DEF Undisturbed, Always
  <1>8. Settled => Settled'
    <2>1. SUFFICES ASSUME Settled PROVE Settled'
      OBVIOUS
    <2>2. ASSUME NEW d \in Commands
          PROVE  /\ Runs(d)' => owner = d /\ mode'[d] = "FOR_DURATION"
                 /\ owner = d /\ mode'[d] = "FOR_DURATION" =>
                       \/ Runs(d)' \/ d \in untimed
                       \/ at[Timer(d)] \in {"get last", "forget last"}
      BY <1>5, <1>6, <2>1 DEF Settled
    <2>3. ASSUME NEW o \in Commands, owner = o
          PROVE  attach_event_threads' =
                    IF mode'[o] = "FOR_DURATION" /\ at'[Timer(o)] # "out" THEN {o} ELSE {}
      <3>1. mode'[o] = mode[o]
        BY <1>6, <2>3
      <3>2. attach_event_threads =
               IF mode[o] = "FOR_DURATION" /\ at[Timer(o)] # "out" THEN {o} ELSE {}
        BY <2>1, <2>3 DEF Settled
      <3> QED
        BY <1>1, <1>4, <3>1, <3>2
    <2> QED
      BY <1>1, <1>4, <2>1, <2>2, <2>3 DEF Settled
  <1> QED
    BY <1>1, <1>3, <1>5, <1>7, <1>8, NobodyAtWorkMoves

\* A tracker of the program's own comes and goes while there is none of attach.
LEMMA OwnUndisturbed ==
    ASSUME Shape, Undisturbed, UNCHANGED untimed, Own \/ LeaveOwn
    PROVE  Undisturbed'
  <1> USE AgentFacts, AgentAssumption
  <1>1. UNCHANGED <<mode, error, at, last_tracker, attach_event_threads, canceled, loaded>>
    BY DEF Own, LeaveOwn, commands, attributes
  <1>2. Always /\ \A a \in Agents : During(a)
    BY DEF Undisturbed
  <1>3. owner \notin Commands /\ owner' \notin Commands /\ Always'
    <2>1. CASE Own
      <3>1. owner = None /\ program = "running"
        BY <2>1, Raises DEF Own, Shape, TypeOK
      <3>2. CASE Begin(Program) /\ program' = "tracking"
        BY <1>1, <1>2, <3>1, <3>2 DEF Always, Begin
      <3>3. CASE BeginFails /\ UNCHANGED program
        BY <1>1, <1>2, <3>1, <3>3 DEF Always, BeginFails
      <3> QED
        BY <2>1, <3>2, <3>3 DEF Own
    <2>2. CASE LeaveOwn
      BY <1>1, <1>2, <2>2 DEF LeaveOwn, Always, Destroy
    <2> QED
      BY <2>1, <2>2
  <1>4. (\A a \in Busy' : at'[a] \in {"get last", "forget last"}) => Settled'
    <2>1. SUFFICES ASSUME Settled PROVE Settled'
      BY <1>1 DEF Undisturbed, Busy
    <2>2. last_tracker \notin Commands
      BY <1>3, <2>1 DEF Settled
    <2>3. \A c \in Commands : ~Runs(c)
      BY <1>3, <2>1 DEF Settled
    <2>4. \A c \in Commands : ~Runs(c)'
      BY <1>1, <2>3 DEF Runs
    <2> QED
      BY <1>1, <1>3, <2>2, <2>4 DEF Settled
  <1>5. ASSUME NEW a \in Agents PROVE During(a)'
    <2>1. \A c \in Commands : Runs(c)' <=> Runs(c)
      BY <1>1 DEF Runs
    <2>2. NothingAttached => NothingAttached'
      BY <1>1, <1>3, <2>1 DEF NothingAttached
    <2>3. During(a)
      BY <1>2
    <2> QED
      BY <1>1, <1>3, <2>1, <2>2, <2>3 DEF During
  <1>6. ASSUME NEW c \in Commands PROVE DuringScript(c)' /\ DuringTimer(c)'
    <2>1. DuringScript(c) /\ DuringTimer(c)
      BY DEF Undisturbed
    <2> QED
      BY <1>1, <1>3, <2>1 DEF DuringScript, DuringTimer
  <1>7. \A a, b \in Busy' : a = b
    BY <1>1 DEF Undisturbed, Busy
  <1> QED
    BY <1>3, <1>4, <1>5, <1>6, <1>7 DEF Undisturbed

\* The steps of the target's own program disturb no agent.
LEMMA TargetUndisturbed ==
    ASSUME Shape, Undisturbed, UNCHANGED untimed, WriteFails \/ EndMain \/ Finalize
    PROVE  Undisturbed'
  <1>1. UNCHANGED <<mode, error, at, last_tracker, attach_event_threads, canceled, loaded,
                  owner>>
    BY DEF WriteFails, EndMain, Finalize, commands, attributes, tracking
  <1>2. Always
    BY DEF Undisturbed
  <1>3. Always'
    <2>1. CASE WriteFails
      BY <1>1, <1>2, <2>1 DEF WriteFails, Always
    <2>2. CASE EndMain \/ Finalize
      <3>1. /\ UNCHANGED <<writing, broken>>
            /\ program # "tracking" /\ program' # "tracking"
        BY <2>2 DEF EndMain, Finalize, tracking
      <3> QED
        BY <1>1, <1>2, <3>1 DEF Always
    <2> QED
      BY <2>1, <2>2
  <1>4. Busy' = Busy /\ \A a \in Busy : at'[a] = at[a]
    BY <1>1 DEF Busy
  <1>5. \A c \in Commands : Runs(c)' <=> Runs(c)
    BY <1>1 DEF Runs
  <1>6. Settled => Settled'
    BY <1>1, <1>5 DEF Settled
  <1> QED
    BY <1>1, <1>3, <1>4, <1>5, <1>6, NobodyAtWorkMoves

\* The main thread has waited for the timers: the exit function is alone.
LEMMA JoinUndisturbed ==
    ASSUME IInv, Shape, Undisturbed, UNCHANGED untimed, Together, ~overlap', JoinTimers
    PROVE  Undisturbed'
  <1> USE AgentFacts
  <1>1. /\ UNCHANGED <<mode, error, last_tracker, attach_event_threads, canceled, owner, writing>>
        /\ UNCHANGED <<loaded, broken>>
        /\ program = "joining" /\ program' = "at exit"
    BY DEF JoinTimers, commands, attributes, tracking
  <1>2. PICK t \in {"get last", "done"} : Only(Atexit, t)
    BY Going DEF JoinTimers, AgentSteps
  <1>3. at[Atexit] = "out"
    BY <1>1 DEF IInv, AtExit
  <1>4. \A c \in Commands : at'[Timer(c)] = at[Timer(c)]
    BY <1>2 DEF Only
  <1>5. \A c \in Commands : Runs(c)' <=> Runs(c)
    BY <1>1, <1>4 DEF Runs
  <1>6. Always'
    BY <1>1 DEF Undisturbed, Always
  <1>7. Settled => Settled'
    BY <1>1, <1>4, <1>5 DEF Settled
  <1>8. CASE t = "get last"
    <2>1. \A b \in Agents : b # Atexit => b \notin Busy /\ b \notin Busy'
      BY <1>2, <1>8, OthersIdle DEF Idle
    <2>2. Settled
      BY <1>3, <2>1 DEF Undisturbed, Busy
    <2>3. During(Atexit)'
      BY <1>2, <1>8 DEF During, Only
    <2> QED
      BY <1>6, <1>7, <2>1, <2>2, <2>3, Focus
  <1>9. CASE t = "done"
    <2>1. Busy' = Busy /\ \A a \in Busy : at'[a] = at[a]
      BY <1>2, <1>3, <1>9 DEF Busy, Only
    <2> QED
      BY <1>1, <1>5, <1>6, <1>7, <2>1, NobodyAtWorkMoves
  <1> QED
    BY <1>8, <1>9

-----------------------------------------------------------------------------
\* The second invariant holds of every history as well.
THEOREM Undisturbance == Spec => []QInv
<1>1. Init => QInv
  <2> SUFFICES ASSUME Init PROVE QInv
    OBVIOUS
  <2> USE AgentFacts, AgentAssumption DEF Init
  <2>1. Shape
    BY DEF Shape, TypeOK, Modes, AgentSteps, Errors, Kinds, OfCommand
  <2>2. Busy = {}
    BY DEF Busy
  <2>3. Settled
    BY DEF Settled, Runs
  <2>4. Undisturbed
    BY <2>2, <2>3 DEF Undisturbed, Always, During, DuringScript, DuringTimer
  <2> QED
    BY <2>1, <2>4 DEF QInv
<1>2. IInv /\ QInv /\ [Next]_vars => QInv'
  <2> SUFFICES ASSUME IInv, QInv, [Next]_vars PROVE QInv'
    OBVIOUS
  <2>1. CASE UNCHANGED vars
    <3> USE <2>1 DEF vars, commands, attributes, tracking, target
    <3>1. Shape'
      BY DEF QInv, Shape, TypeOK, Kinds, OfCommand
    <3>2. Undisturbed => Undisturbed'
      <4>1. Busy' = Busy /\ \A c \in Commands : Runs(c)' <=> Runs(c)
        BY DEF Busy, Runs
      <4>2. Undisturbed => Always' /\ (Settled => Settled')
        BY <4>1 DEF Undisturbed, Always, Settled
      <4> QED
        BY <4>1, <4>2, NobodyAtWorkMoves
    <3> QED
      BY <3>1, <3>2 DEF QInv
  <2>2. CASE Next
    <3>1. Together
      BY <2>2 DEF Next, Together
    <3>2. Shape
      BY DEF QInv
    <3>3. ~overlap' => Undisturbed
      BY <3>1 DEF QInv, Together
    <3>4. Timing
      BY <2>2 DEF Next, Timing
    <3>5. ASSUME NEW a \in Agents, Deactivate(a) PROVE QInv'
      <4>1. UNCHANGED untimed
        <5>1. /\ at[a] \in Deactivating
              /\ \A b \in Agents : b # a => at'[b] = at[b]
          BY <3>2, <3>5
          DEF Deactivate, GetLast, ForgetLast, Exit, CancelTimers, Goes, Deactivating, Shape, TypeOK
        <5> QED
          BY <3>4, <5>1, StaysTimed DEF Deactivating
      <4> QED
        BY <3>1, <3>2, <3>3, <3>5, <4>1, DeactivateShape, GetLastUndisturbed,
           ForgetLastUndisturbed, ExitUndisturbed, CancelUndisturbed
        DEF QInv, Deactivate
    <3>6. ASSUME NEW c \in Commands, Steps(c) PROVE QInv'
      <4>1. CASE \/ DebuggerFails(c) \/ (\E m \in Modes : Inject(c, m)) \/ RunClient(c)
                 \/ CannotConnect(c) \/ Answer(c) \/ HangUp(c)
        <5>1. UNCHANGED at \/ (/\ at[Script(c)] \in {"out", "connecting"}
                              /\ \A b \in Agents : b # Script(c) => at'[b] = at[b])
          BY <3>2, <4>1
          DEF DebuggerFails, Inject, RunClient, CannotConnect, Answer, HangUp, Goes, Shape, TypeOK
        <5>2. UNCHANGED untimed
          BY <3>4, <5>1, StaysTimed, NobodyIsLeft
        <5> QED
          BY <3>2, <3>3, <4>1, <5>2, ClientShape, ClientUndisturbed DEF QInv
      <4>2. CASE \/ Start(c) \/ Create(c) \/ Accept(c) \/ Enter(c) \/ SetLast(c) \/ SetThreads(c)
                 \/ LoadThreads(c) \/ AppendTimer(c)
        <5>1. /\ at[Script(c)] \notin {"start timer", "waiting"}
              /\ \A b \in Agents : b # Script(c) => at'[b] = at[b]
          BY <3>2, <4>2
          DEF Start, Create, Accept, Enter, SetLast, SetThreads, LoadThreads, AppendTimer, Raise,
              Goes, Shape, TypeOK
        <5>2. UNCHANGED untimed
          BY <3>4, <5>1, StaysTimed
        <5>3. Shape'
          BY <3>2, <4>2, <5>2, ScriptShape DEF Shape
        <5> QED
          BY <3>1, <3>2, <3>3, <4>2, <5>2, <5>3, StartUndisturbed, CreateUndisturbed,
             EnterUndisturbed, SetLastUndisturbed, SetThreadsUndisturbed, LoadUndisturbed,
             AppendUndisturbed
          DEF QInv
      <4>3. CASE StartTimer(c) \/ Elapse(c)
        BY <3>1, <3>2, <3>3, <3>4, <4>3, TimerShape, StartTimerUndisturbed, ElapseUndisturbed
        DEF QInv
      <4> QED
        BY <3>5, <3>6, <4>1, <4>2, <4>3, AgentFacts DEF Steps, RunScript, RunTimer
    <3>7. CASE Own \/ LeaveOwn \/ WriteFails \/ EndMain \/ JoinTimers \/ Finalize
      <4>1. UNCHANGED untimed
        <5>1. CASE UNCHANGED at
          BY <3>4, <5>1, NobodyIsLeft
        <5>2. CASE JoinTimers
          <6>1. at[Atexit] = "out"
            BY <5>2 DEF JoinTimers, IInv, AtExit
          <6>2. \A b \in Agents : b # Atexit => at'[b] = at[b]
            BY <3>2, <5>2 DEF JoinTimers, Goes, Shape, TypeOK
          <6> QED
            BY <3>4, <6>1, <6>2, StaysTimed
        <5> QED
          BY <3>7, <5>1, <5>2 DEF Own, LeaveOwn, WriteFails, EndMain, Finalize
      <4> QED
        BY <3>1, <3>2, <3>3, <3>7, <4>1, TargetShape, OwnUndisturbed, TargetUndisturbed,
           JoinUndisturbed
        DEF QInv
    <3> QED
      BY <2>2, <3>5, <3>6, <3>7, AgentFacts DEF Next, Target, Shutdown
  <2> QED
    BY <2>1, <2>2
<1> QED
  BY <1>1, <1>2, Invariance, PTL DEF Spec

\* Between two deactivations or activations that have never overlapped with
\* others, what detach would end is the tracker there is, the attached tracker has
\* its timer just when it has a duration, and a script that failed has left none;
\* but for a tracker whose timer could not start, or failed before it ended it.
THEOREM QuietTargetIsCoherent == Spec => []QuietIsCoherent
<1>1. QInv => QuietIsCoherent
  <2> SUFFICES ASSUME QInv PROVE QuietIsCoherent
    OBVIOUS
  <2>1. TypeOK
    BY DEF QInv, Shape
  <2>2. FailureHasReason
    BY DEF QInv, Undisturbed, Always, FailureHasReason
  <2>3. ASSUME Quiet, ~overlap PROVE Settled /\ \A c \in Commands : at[Timer(c)] \in Idle
    BY <2>3, AgentFacts DEF QInv, Undisturbed, Quiet, Busy, Idle
  <2>4. ASSUME Quiet, ~overlap, NEW c \in Commands
        PROVE  /\ error[c] # "none" => owner # c \/ c \in untimed
               /\ (at[Timer(c)] = "waiting" /\ c \notin canceled) <=>
                     (owner = c /\ mode[c] = "FOR_DURATION" /\ c \notin untimed)
               /\ owner = c =>
                     attach_event_threads =
                        IF mode[c] = "FOR_DURATION" /\ at[Timer(c)] # "out" THEN {c} ELSE {}
    <3>1. Settled /\ at[Timer(c)] \notin {"get last", "forget last"}
      BY <2>3, <2>4 DEF Idle
    <3>2. at[Timer(c)] = "waiting" => c \notin untimed
      BY DEF QInv, Shape, OfCommand
    <3> QED
      BY <3>1, <3>2 DEF Settled, Runs
  <2>5. ASSUME Quiet, ~overlap
        PROVE  last_tracker \in Commands \/ owner \in Commands => owner = last_tracker
    BY <2>3, <2>5 DEF Settled
  <2> QED
    BY <2>1, <2>2, <2>4, <2>5 DEF QuietIsCoherent
<1> QED
  BY <1>1, Undisturbance, PTL

\* Unless two agents have been at work at once, the timer of one attach never
\* ends the tracker of another, and nobody's __exit__ of attach a tracker that the
\* program has started.
THEOREM OthersAreLeftAlone == Spec => TrackersOfOthersKept
<1> DEFINE Kept ==
        /\ \A c, o \in Commands : Ended(o, Timer(c)) /\ o # c => overlap
        /\ \A a \in Agents : Ended(Program, a) => overlap
<1>1. QInv => Kept
  <2> SUFFICES ASSUME QInv, ~overlap PROVE Kept
    BY DEF Ended
  <2>1. \A c \in Commands : at[Timer(c)] = "exit" => owner = c
    BY DEF QInv, Undisturbed, DuringTimer
  <2>2. \A a \in Agents : at[a] = "exit" => owner \in Commands
    BY DEF QInv, Undisturbed, During
  <2> QED
    BY <2>1, <2>2, AgentAssumption DEF Ended
<1>2. QInv => [Kept]_vars
  BY <1>1
<1> QED
  BY <1>2, Undisturbance, PTL DEF TrackersOfOthersKept

-----------------------------------------------------------------------------
(* The output of a report command *)

\* The user has agreed to lose what was there, or there was nothing.
MayOverwrite == command.force \/ command.tilde \/ before = "none"

\* What is known of the command where it is.
Named ==
    /\ pc # "start" => command \in CommandLines
    /\ pc = "validate" => ~command.magic
    /\ pc = "read" => command.name # "stats"
    /\ pc = "histogram" => command.name = "stats"
    /\ pc \in {"target", "create", "script"} => command.name = "run"
    /\ pc = "output" => WritesFile

\* The output is the user's where it has not been opened yet.
Untouched ==
    /\ pc \in {"start", "validate"} => before = "none" /\ output \in {"none", "old"}
    /\ pc # "start" /\ command.magic => before = "none"
    /\ output \in {"torn", "report"} => pc \in {"render", "script", "done"}
    /\ output = "cut" => pc = "done"
    /\ pc = "render" /\ output = "torn" => WritesFile

\* Whoever is about to write has been allowed to; stats looks later.
Allowed ==
    /\ pc \in {"open", "read"} /\ WritesFile /\ command.name # "stats" => MayOverwrite
    /\ pc \in {"histogram", "output", "render"} /\ WritesFile => MayOverwrite
    /\ pc = "script" => MayOverwrite

\* The inductive invariant.
OutputInv == OutputIsSafe /\ Named /\ Untouched /\ Allowed

-----------------------------------------------------------------------------
(* The rest of the world. *)

\* The writer of the capture leaves the command and its output alone.
LEMMA WriteRecordInv == ASSUME OutputInv, WriteRecord PROVE OutputInv'
<1> USE DEF OutputInv, OutputIsSafe, WriteRecord
<1>1. PICK e \in Writes[format][Len(file) + 1] : file' = Append(file, e)
  OBVIOUS
<1>2. Len(file) + 1 \in 1..Len(Writes[format]) /\ Writes[format] \in Seq(SUBSET Writable)
  BY WritesAssumption DEF ReportTypeOK
<1>3. e \in Writable
  BY <1>1, <1>2
<1>4. file' \in Seq(Writable) /\ Len(file') <= Len(Writes[format])
  BY <1>1, <1>2, <1>3 DEF ReportTypeOK
<1>5. ReportTypeOK'
  BY <1>4 DEF ReportTypeOK
<1>6. ExistingOutputKept' /\ TornOnlyByWriting' /\ MagicIsSupported'
  BY DEF ExistingOutputKept, TornOnlyByWriting, Is, MagicIsSupported, Unsupported
<1>7. Named' /\ Untouched' /\ Allowed'
  BY DEF Named, Untouched, Allowed, WritesFile, MayOverwrite
<1> QED
  BY <1>5, <1>6, <1>7

\* Who creates the output file takes the place of no one's.
LEMMA SomeoneWritesOutputInv == ASSUME OutputInv, SomeoneWritesOutput PROVE OutputInv'
<1> USE DEF OutputInv, OutputIsSafe, SomeoneWritesOutput
<1>1. ReportTypeOK'
  BY DEF ReportTypeOK, capture
<1>2. ExistingOutputKept' /\ TornOnlyByWriting' /\ MagicIsSupported'
  BY DEF ExistingOutputKept, TornOnlyByWriting, MagicIsSupported, Unsupported, capture
<1>3. Named' /\ Untouched' /\ Allowed'
  BY DEF Named, Untouched, Allowed, WritesFile, MayOverwrite
<1> QED
  BY <1>1, <1>2, <1>3

-----------------------------------------------------------------------------
(* The beginnings of the commands. *)

\* A command that begins has not looked for its output yet.
LEMMA BeginInv ==
    ASSUME OutputInv, NEW c \in CommandLines, Run(c) \/ RunCell(c) \/ RunProgram(c)
    PROVE  OutputInv'
<1> USE DEF OutputInv, OutputIsSafe, Run, RunCell, RunProgram, MagicFormat
<1>1. ReportTypeOK'
  BY CommandAssumption DEF ReportTypeOK, capture
<1>2. ExistingOutputKept' /\ TornOnlyByWriting' /\ MagicIsSupported'
  BY CommandAssumption DEF ReportTypeOK, ExistingOutputKept, TornOnlyByWriting, Is,
     MagicIsSupported, Unsupported,
     Named, Untouched, Allowed, MayOverwrite, capture
<1>3. Named' /\ Untouched' /\ Allowed'
  BY CommandAssumption DEF ReportTypeOK, ExistingOutputKept, Named, Untouched, Allowed, MayOverwrite,
     WritesFile, capture
<1> QED
  BY <1>1, <1>2, <1>3

-----------------------------------------------------------------------------
(* The steps that look, and those that read. *)

\* What Validate finds is what it leaves, and it lets no one pass who may not overwrite.
LEMMA ValidateInv ==
    ASSUME OutputInv, Validate
    PROVE  OutputInv'
<1> USE DEF OutputInv, OutputIsSafe, Validate, WillNotOverwrite, Exists
<1>1. ReportTypeOK'
  BY DEF ReportTypeOK, Untouched, capture
<1>2. ExistingOutputKept' /\ TornOnlyByWriting' /\ MagicIsSupported'
  BY DEF ReportTypeOK, ExistingOutputKept, TornOnlyByWriting, Is, MagicIsSupported, Unsupported,
     Named, Untouched, Allowed, MayOverwrite, capture, WritesFile
<1>3. Named' /\ Untouched' /\ Allowed'
  BY DEF ReportTypeOK, ExistingOutputKept, Named, Untouched, Allowed, MayOverwrite,
     WritesFile, capture
<1> QED
  BY <1>1, <1>2, <1>3

\* To open the capture, or to fail to, is nothing to the output.
LEMMA OpenInv ==
    ASSUME OutputInv, NoSuchFile \/ FailToOpen \/ OpenReader
    PROVE  OutputInv'
<1> USE DEF OutputInv, OutputIsSafe, NoSuchFile, FailToOpen, OpenReader, Goto, Exits, Transforms
<1>1. ReportTypeOK'
  BY DEF ReportTypeOK, capture
<1>2. ExistingOutputKept' /\ TornOnlyByWriting' /\ MagicIsSupported'
  BY DEF ReportTypeOK, ExistingOutputKept, TornOnlyByWriting, Is, MagicIsSupported, Unsupported,
     Named, Untouched, Allowed, MayOverwrite, capture
<1>3. Named' /\ Untouched' /\ Allowed'
  BY DEF ReportTypeOK, ExistingOutputKept, Named, Untouched, Allowed, MayOverwrite,
     WritesFile, capture
<1> QED
  BY <1>1, <1>2, <1>3

\* Only the commands that write while they read fail with the output torn.
LEMMA FailToReopenInv ==
    ASSUME OutputInv, FailToReopen
    PROVE  OutputInv'
<1> USE DEF OutputInv, OutputIsSafe
<1>1. /\ pc = "read" \/ (pc = "render" /\ Transforms)
      /\ pc' = "done" /\ exit' \in {"1", "uncaught"}
      /\ Transforms => exit' = "uncaught"
      /\ UNCHANGED <<format, native_traces, file, command, output, before>>
  BY DEF FailToReopen, Exits, capture
<1>2. ReportTypeOK'
  BY <1>1 DEF ReportTypeOK
<1>3. TornOnlyByWriting'
  <2>1. output' # "cut"
    BY <1>1 DEF Untouched
  <2>2. output' = "torn" => Transforms /\ command' \in CommandLines
    BY <1>1 DEF Untouched, Named
  <2> QED
    BY <1>1, <2>1, <2>2, CommandAssumption DEF TornOnlyByWriting, Is, Transforms
<1>4. ExistingOutputKept' /\ MagicIsSupported'
  BY <1>1 DEF ReportTypeOK, ExistingOutputKept, MagicIsSupported, Unsupported
<1>5. Named' /\ Untouched' /\ Allowed'
  BY <1>1 DEF ReportTypeOK, Named, Untouched, Allowed
<1> QED
  BY <1>2, <1>3, <1>4, <1>5

\* The records that are read are nothing to the output.
LEMMA ReadInv ==
    ASSUME OutputInv, ReadToWrite \/ ReadTree \/ ReadSummary \/ ReadCell
    PROVE  OutputInv'
<1> USE DEF OutputInv, OutputIsSafe
<1>1. pc = "read" /\ UNCHANGED <<format, native_traces, file, command, output, before, exit>>
  BY DEF ReadToWrite, ReadTree, ReadSummary, ReadCell, Reports, Goto, capture
<1>2. \/ pc' = "output" /\ WritesFile
      \/ pc' = "render" /\ command.name \in {"tree", "summary"}
  <2>1. CASE ReadCell
    BY <1>1, <2>1, CommandAssumption DEF ReadCell, Reports, Goto, Named, WritesFile
  <2> QED
    BY <2>1 DEF ReadToWrite, ReadTree, ReadSummary, Reports, Goto
<1>3. ReportTypeOK'
  BY <1>1, <1>2 DEF ReportTypeOK
<1>4. ExistingOutputKept' /\ TornOnlyByWriting' /\ MagicIsSupported'
  BY <1>1, <1>2 DEF ReportTypeOK, ExistingOutputKept, TornOnlyByWriting, MagicIsSupported, Unsupported,
     Untouched
<1>5. Named' /\ Untouched'
  BY <1>1, <1>2 DEF ReportTypeOK, Named, Untouched, WritesFile
<1>6. Allowed'
  BY <1>1, <1>2 DEF Named, Allowed, MayOverwrite, WritesFile
<1> QED
  BY <1>3, <1>4, <1>5, <1>6

\* stats goes on only if it may overwrite.
LEMMA StatisticsInv ==
    ASSUME OutputInv, ReadStatistics \/ RenderHistogram
    PROVE  OutputInv'
<1> USE DEF OutputInv, OutputIsSafe
<1>1. /\ pc \in {"open", "histogram"} /\ command.name = "stats"
      /\ UNCHANGED <<format, native_traces, file, command, output, before>>
  BY DEF ReadStatistics, RenderHistogram, Goto, Exits, capture, Named
<1>2. \/ pc' = "done" /\ exit' \in {"1", "uncaught"}
      \/ pc' \in {"histogram", "output", "render"} /\ exit' = exit
  BY DEF ReadStatistics, RenderHistogram, Goto, Exits
<1>3. pc' = "output" => WritesFile
  BY <1>1 DEF ReadStatistics, RenderHistogram, Goto, Exits, WritesFile
<1>4. pc' # "done" /\ WritesFile => MayOverwrite
  <2>1. CASE ReadStatistics
    <3> SUFFICES ASSUME pc' # "done", command.json, ~command.force PROVE MayOverwrite
      BY <1>1 DEF WritesFile, MayOverwrite
    <3>1. output = "none"
      BY <1>1, <2>1 DEF ReadStatistics, Exits, Exists
    <3> QED
      BY <1>1, <2>1, <3>1, CommandAssumption DEF ExistingOutputKept, Named, MayOverwrite
  <2> QED
    BY <2>1 DEF RenderHistogram, Allowed
<1>5. ReportTypeOK'
  BY <1>1, <1>2 DEF ReportTypeOK
<1>6. ExistingOutputKept' /\ TornOnlyByWriting' /\ MagicIsSupported'
  BY <1>1, <1>2 DEF ReportTypeOK, ExistingOutputKept, TornOnlyByWriting, MagicIsSupported,
     Unsupported, Untouched
<1>7. Named' /\ Untouched'
  BY <1>1, <1>2, <1>3 DEF ReportTypeOK, Named, Untouched, WritesFile
<1>8. Allowed'
  BY <1>1, <1>2, <1>4 DEF Allowed, MayOverwrite, WritesFile
<1> QED
  BY <1>5, <1>6, <1>7, <1>8

-----------------------------------------------------------------------------
(* The steps that write. *)

\* Who opens the output may overwrite it.
LEMMA OpenOutputInv ==
    ASSUME OutputInv, OpenOutput
    PROVE  OutputInv'
<1> USE DEF OutputInv, OutputIsSafe, OpenOutput, Goto, Exits
<1>1. ReportTypeOK'
  BY CommandAssumption DEF ReportTypeOK, capture, WritesFile
<1>2. ExistingOutputKept' /\ TornOnlyByWriting' /\ MagicIsSupported'
  BY CommandAssumption DEF ReportTypeOK, ExistingOutputKept, TornOnlyByWriting, Is,
     MagicIsSupported, Unsupported,
     Named, Untouched, Allowed, MayOverwrite, capture, WritesFile
<1>3. Named' /\ Untouched' /\ Allowed'
  BY CommandAssumption DEF ReportTypeOK, ExistingOutputKept, Named, Untouched, Allowed, MayOverwrite,
     WritesFile, capture
<1> QED
  BY <1>1, <1>2, <1>3

\* A report that is written replaces the torn file, one that cannot be is an error.
LEMMA RenderInv ==
    ASSUME OutputInv, Render \/ RenderTransform \/ FailToWrite
    PROVE  OutputInv'
<1> USE DEF OutputInv, OutputIsSafe, Render, RenderTransform, FailToWrite, Exits, Transforms
<1>1. ReportTypeOK'
  BY DEF ReportTypeOK, Untouched, capture
<1>2. ExistingOutputKept' /\ TornOnlyByWriting' /\ MagicIsSupported'
  BY DEF ReportTypeOK, ExistingOutputKept, TornOnlyByWriting, Is, MagicIsSupported, Unsupported,
     Named, Untouched, Allowed, MayOverwrite, capture, WritesFile
<1>3. Named' /\ Untouched' /\ Allowed'
  BY DEF ReportTypeOK, ExistingOutputKept, Named, Untouched, Allowed, MayOverwrite,
     WritesFile, capture
<1> QED
  BY <1>1, <1>2, <1>3

\* The Tracker of run looks for the file and creates it in one step.
LEMMA RunInv ==
    ASSUME OutputInv, validate_target_file \/ CreateOutput \/ ScriptEnds
    PROVE  OutputInv'
<1> USE DEF OutputInv, OutputIsSafe, validate_target_file, CreateOutput, ScriptEnds, Goto, Exits
<1>1. ReportTypeOK'
  BY CommandAssumption DEF ReportTypeOK, Untouched, Named, capture
<1>2. ExistingOutputKept' /\ TornOnlyByWriting' /\ MagicIsSupported'
  BY CommandAssumption DEF ReportTypeOK, ExistingOutputKept, TornOnlyByWriting, Is,
     MagicIsSupported, Unsupported,
     Named, Untouched, Allowed, MayOverwrite, capture
<1>3. Named' /\ Untouched' /\ Allowed'
  BY CommandAssumption DEF ReportTypeOK, ExistingOutputKept, Named, Untouched, Allowed, MayOverwrite,
     WritesFile, capture
<1> QED
  BY <1>1, <1>2, <1>3

-----------------------------------------------------------------------------
(* The theorems. *)

\* The invariant holds in every state: the command lines, the captures, what
\* happens to the files and to the calls of the system may be any.
THEOREM OutputInvariance == ReportSpec => []OutputInv
<1>1. ReportInit => OutputInv
  BY DEF ReportInit, OutputInv, OutputIsSafe, ReportTypeOK, ExistingOutputKept, TornOnlyByWriting,
     MagicIsSupported,
     Named, Untouched, Allowed
<1>2. ASSUME OutputInv, [ReportNext]_reportVars PROVE OutputInv'
  <2>1. ASSUME Command PROVE OutputInv'
    BY <1>2, <2>1, BeginInv, ValidateInv, OpenInv, FailToReopenInv, ReadInv, StatisticsInv,
       OpenOutputInv,
       RenderInv, RunInv DEF Command
  <2>2. ASSUME UNCHANGED reportVars PROVE OutputInv'
    BY <1>2, <2>2 DEF reportVars, capture, OutputInv, OutputIsSafe, ReportTypeOK,
       ExistingOutputKept, TornOnlyByWriting, Is,
       MagicIsSupported, Unsupported, Named, Untouched, Allowed, MayOverwrite, WritesFile
  <2> QED
    BY <1>2, <2>1, <2>2, WriteRecordInv, SomeoneWritesOutputInv DEF ReportNext, Done
<1> QED
  BY <1>1, <1>2, PTL DEF ReportSpec

\* Without --force no command writes over a file that was there when it looked,
\* none but transform that fails before it writes leaves a file without its
\* report, none that has written half a report ends as if it were there, and the
\* magic never asks for what its capture cannot give.
THEOREM TheOutputIsSafe == ReportSpec => []OutputIsSafe
<1>1. OutputInv => OutputIsSafe
  BY DEF OutputInv
<1> QED
  BY <1>1, OutputInvariance, PTL

-----------------------------------------------------------------------------
(* Places in increasing order *)

Rank(S, i) == Cardinality({j \in S : j < i})

\* The k-th of some numbers is the one with k - 1 of them below it.
LEMMA InOrderUnfolds ==
    ASSUME NEW S
    PROVE  InOrder(S) = [k \in 1..Cardinality(S) |-> CHOOSE i \in S : Rank(S, i) = k - 1]
BY DEF InOrder, Rank

\* Numbers have different ranks, and their ranks have their order.
LEMMA RanksAre ==
    ASSUME NEW S \in SUBSET Nat, IsFiniteSet(S)
    PROVE  /\ \A i \in S : Rank(S, i) \in 0..Cardinality(S) - 1
           /\ \A i, j \in S : i < j => Rank(S, i) < Rank(S, j)
           /\ \A i, j \in S : Rank(S, i) = Rank(S, j) => i = j
<1> DEFINE B(i) == {j \in S : j < i}
<1>1. \A i \in S : IsFiniteSet(B(i)) /\ Rank(S, i) = Cardinality(B(i))
  BY FS_Subset DEF Rank
<1>2. ASSUME NEW i \in S
      PROVE  /\ IsFiniteSet(B(i) \cup {i})
             /\ Cardinality(B(i) \cup {i}) = Cardinality(B(i)) + 1
             /\ Cardinality(B(i)) \in Nat
  <2>1. IsFiniteSet(B(i)) /\ i \notin B(i)
    BY <1>1
  <2> HIDE DEF B
  <2> QED BY <2>1, FS_AddElement, FS_CardinalityType
<1>3. Cardinality(S) \in Nat
  BY FS_CardinalityType
<1>4. ASSUME NEW i \in S PROVE Rank(S, i) \in 0..Cardinality(S) - 1
  <2>1. Cardinality(B(i) \cup {i}) <= Cardinality(S)
    BY FS_Subset
  <2> HIDE DEF B
  <2> QED BY <1>1, <1>2, <1>3, <2>1
<1>5. ASSUME NEW i \in S, NEW j \in S, i < j PROVE Rank(S, i) < Rank(S, j)
  <2>1. B(i) \cup {i} \in SUBSET B(j)
    <3> SUFFICES ASSUME NEW x \in B(i) \cup {i} PROVE x \in B(j)
      OBVIOUS
    <3>1. x \in S /\ (x = i \/ x < i) /\ x \in Int /\ i \in Int /\ j \in Int
      OBVIOUS
    <3>2. x < j
      BY <1>5, <3>1
    <3> QED BY <3>1, <3>2
  <2>2. Cardinality(B(i) \cup {i}) <= Cardinality(B(j))
    <3> HIDE DEF B
    <3> QED BY <1>1, <2>1, FS_Subset
  <2>3. Rank(S, i) = Cardinality(B(i)) /\ Rank(S, j) = Cardinality(B(j))
    BY <1>1
  <2>4. Cardinality(B(i)) \in Nat /\ Cardinality(B(j)) \in Nat
    BY <1>2
  <2>5. Cardinality(B(i) \cup {i}) = Cardinality(B(i)) + 1
    BY <1>2
  <2> HIDE DEF B
  <2> QED BY <2>2, <2>3, <2>4, <2>5
<1>6. ASSUME NEW i \in S, NEW j \in S, Rank(S, i) = Rank(S, j) PROVE i = j
  <2>1. Rank(S, i) \in Int /\ i \in Int /\ j \in Int
    BY <1>4
  <2>2. ~(i < j) /\ ~(j < i)
    BY <1>5, <1>6, <2>1
  <2> QED BY <2>1, <2>2
<1> QED BY <1>4, <1>5, <1>6

\* The numbers in order are all of them, each once, each at its rank.
LEMMA InOrderIs ==
    ASSUME NEW S \in SUBSET Nat, IsFiniteSet(S)
    PROVE  /\ Cardinality(S) \in Nat
           /\ InOrder(S) \in [1..Cardinality(S) -> S]
           /\ \A k \in 1..Cardinality(S) : Rank(S, InOrder(S)[k]) = k - 1
           /\ \A i \in S : Rank(S, i) + 1 \in 1..Cardinality(S) /\ InOrder(S)[Rank(S, i) + 1] = i
<1> DEFINE n == Cardinality(S)
           D == 1..n
           r == [i \in S |-> Rank(S, i) + 1]
           o == InOrder(S)
<1>1. n \in Nat
  BY FS_CardinalityType
<1>2. \A i \in S : r[i] \in D /\ Rank(S, i) \in Int /\ r[i] = Rank(S, i) + 1
  BY <1>1, RanksAre
<1>3. r \in Injection(S, D)
  <2>1. \A i, j \in S : r[i] = r[j] => i = j
    <3> HIDE DEF r
    <3> QED BY <1>2, RanksAre
  <2>2. r \in [S -> D]
    BY <1>2
  <2> HIDE DEF r, D
  <2> QED BY <2>1, <2>2 DEF Injection, IsInjective
<1>4. r \in Surjection(S, D)
  <2>1. IsFiniteSet(D) /\ Cardinality(D) = n
    BY <1>1, 1 \in Int, n \in Int, FS_Interval
  <2> HIDE DEF r, D
  <2> QED BY <1>3, <2>1, FS_Injection DEF n
<1>5. ASSUME NEW k \in D PROVE \E i \in S : Rank(S, i) = k - 1
  <2>1. PICK i \in S : r[i] = k
    <3> HIDE DEF r, D
    <3> QED BY <1>4 DEF Surjection
  <2>2. Rank(S, i) + 1 = k /\ Rank(S, i) \in Int
    BY <1>2, <2>1
  <2> HIDE DEF r
  <2> QED BY <1>1, <2>2
<1>6. o = [k \in D |-> CHOOSE i \in S : Rank(S, i) = k - 1]
  BY InOrderUnfolds
<1> HIDE DEF o
<1>7. \A k \in D : o[k] \in S /\ Rank(S, o[k]) = k - 1
  <2> SUFFICES ASSUME NEW k \in D PROVE o[k] \in S /\ Rank(S, o[k]) = k - 1
    OBVIOUS
  <2>1. o[k] = CHOOSE i \in S : Rank(S, i) = k - 1
    BY <1>6
  <2> HIDE DEF r, D
  <2> QED BY <1>5, <2>1
<1>8. ASSUME NEW i \in S PROVE Rank(S, i) + 1 \in D /\ o[Rank(S, i) + 1] = i
  <2>1. Rank(S, i) + 1 \in D /\ Rank(S, i) \in Int
    BY <1>2
  <2>2. Rank(S, o[Rank(S, i) + 1]) = Rank(S, i) /\ o[Rank(S, i) + 1] \in S
    <3> HIDE DEF r, D
    <3> QED BY <1>7, <2>1
  <2>3. \A p, q \in S : Rank(S, p) = Rank(S, q) => p = q
    BY RanksAre
  <2> HIDE DEF r, D
  <2> QED BY <2>1, <2>2, <2>3
<1>9. o \in [D -> S]
  <2> HIDE DEF r, D
  <2> QED BY <1>6, <1>7
<1> HIDE DEF r
<1> QED BY <1>1, <1>7, <1>8, <1>9 DEF o

\* A number above the others comes after them.
LEMMA InOrderGrows ==
    ASSUME NEW S \in SUBSET Nat, IsFiniteSet(S), NEW m \in Nat, \A i \in S : i < m
    PROVE  /\ Cardinality(S \cup {m}) = Cardinality(S) + 1
           /\ \A k \in 1..Cardinality(S) : InOrder(S \cup {m})[k] = InOrder(S)[k]
<1> DEFINE T == S \cup {m}
           n == Cardinality(S)
<1>1. T \in SUBSET Nat /\ IsFiniteSet(T) /\ Cardinality(T) = n + 1
  <2>1. m \notin S
    OBVIOUS
  <2> QED BY <2>1, FS_AddElement
<1>2. ASSUME NEW i \in S PROVE Rank(T, i) = Rank(S, i)
  <2>1. {j \in T : j < i} = {j \in S : j < i}
    OBVIOUS
  <2> HIDE DEF T
  <2> QED BY <2>1 DEF Rank
<1>3. ASSUME NEW k \in 1..n PROVE InOrder(T)[k] = InOrder(S)[k]
  <2> DEFINE i == InOrder(S)[k]
  <2>1. i \in S /\ Rank(S, i) = k - 1 /\ n \in Nat
    BY InOrderIs
  <2>2. i \in T /\ Rank(T, i) = k - 1
    BY <1>2, <2>1
  <2> HIDE DEF i, T, n
  <2>3. InOrder(T)[Rank(T, i) + 1] = i
    BY <1>1, <2>2, InOrderIs
  <2>4. Rank(T, i) + 1 = k
    BY <2>1, <2>2
  <2> QED BY <2>3, <2>4 DEF i
<1> QED BY <1>1, <1>3

-----------------------------------------------------------------------------
(* Events of a growing file *)

\* The lesser of two numbers.
LEMMA MinOfTwo ==
    ASSUME NEW a \in Int, NEW b \in Int, a <= b
    PROVE  Min({a, b}) = a /\ Min({b, a}) = a
<1>1. \E x \in {a, b} : \A y \in {a, b} : x <= y
  OBVIOUS
<1>2. Min({a, b}) \in {a, b} /\ \A y \in {a, b} : Min({a, b}) <= y
  BY <1>1 DEF Min
<1>3. {b, a} = {a, b}
  OBVIOUS
<1> QED BY <1>2, <1>3

EventPlaces(f) == {i \in DOMAIN f : IsEvent(f[i])}
AggregatedPlaces(f) == {i \in DOMAIN f : IsAggregated(f[i])}

\* The selected elements of a sequence are a sequence of some of its elements.
LEMMA SelectedIs ==
    ASSUME NEW X, NEW f \in Seq(X), NEW P \in SUBSET DOMAIN f
    PROVE  /\ Selected(f, P) \in Seq(X)
           /\ P \in SUBSET Nat /\ IsFiniteSet(P) /\ Cardinality(P) \in Nat
           /\ Len(Selected(f, P)) = Cardinality(P)
           /\ \A k \in 1..Cardinality(P) : /\ InOrder(P)[k] \in P
                                           /\ Selected(f, P)[k] = f[InOrder(P)[k]]
<1> DEFINE n == Cardinality(P)
           o == InOrder(P)
           s == [k \in 1..n |-> f[o[k]]]
<1>1. Len(f) \in Nat /\ DOMAIN f = 1..Len(f) /\ \A i \in DOMAIN f : f[i] \in X
  OBVIOUS
<1>2. P \in SUBSET Nat
  BY <1>1
<1>3. IsFiniteSet(P)
  BY <1>1, 1 \in Int, Len(f) \in Int, FS_Interval, FS_Subset
<1>4. n \in Nat /\ \A k \in 1..n : o[k] \in P
  BY <1>2, <1>3, InOrderIs
<1>5. Selected(f, P) = s
  BY DEF Selected
<1> HIDE DEF n, o
<1>6. \A k \in 1..n : s[k] \in X
  BY <1>1, <1>4
<1>7. s \in [1..n -> X]
  BY <1>6
<1>8. s \in Seq(X) /\ Len(s) = n
  BY <1>4, <1>7
<1> QED BY <1>2, <1>3, <1>4, <1>5, <1>8 DEF n, o

\* The events of a file are those of its records that are events.
LEMMA EventsAre ==
    ASSUME NEW X, NEW f \in Seq(X)
    PROVE  /\ Events(f) \in Seq(X) /\ Len(Events(f)) = Cardinality(EventPlaces(f))
           /\ \A k \in 1..Len(Events(f)) : /\ InOrder(EventPlaces(f))[k] \in EventPlaces(f)
                                           /\ Events(f)[k] = f[InOrder(EventPlaces(f))[k]]
<1>1. EventPlaces(f) \in SUBSET DOMAIN f /\ Events(f) = Selected(f, EventPlaces(f))
  BY DEF EventPlaces, Events
<1> QED BY <1>1, SelectedIs

\* A record more leaves the events that there were where they were.
LEMMA EventsGrow ==
    ASSUME NEW X, NEW f \in Seq(X), NEW e \in X
    PROVE  /\ Len(Events(f)) <= Len(Events(Append(f, e)))
           /\ \A k \in 1..Len(Events(f)) : Events(Append(f, e))[k] = Events(f)[k]
<1> DEFINE g == Append(f, e)
           P == EventPlaces(f)
           Q == EventPlaces(g)
           m == Len(f) + 1
<1>1. /\ g \in Seq(X) /\ Len(f) \in Nat /\ DOMAIN f = 1..Len(f) /\ DOMAIN g = 1..m
      /\ \A i \in 1..Len(f) : g[i] = f[i]
  OBVIOUS
<1> HIDE DEF g
<1>2. /\ P \in SUBSET DOMAIN f /\ P \in SUBSET Nat /\ IsFiniteSet(P)
      /\ Len(Events(f)) = Cardinality(P) /\ Cardinality(P) \in Nat
      /\ \A i \in P : i < m
  <2>1. P \in SUBSET DOMAIN f
    BY DEF EventPlaces
  <2>2. \A i \in DOMAIN f : i < m
    BY <1>1
  <2> HIDE DEF P, m
  <2>3. P \in SUBSET Nat /\ IsFiniteSet(P) /\ Cardinality(P) \in Nat
    BY <2>1, SelectedIs
  <2> QED BY <2>1, <2>2, <2>3, EventsAre DEF P
<1>3. Q = P \/ Q = P \cup {m}
  <2>1. \A i \in 1..Len(f) : i \in Q <=> i \in P
    BY <1>1 DEF EventPlaces
  <2>2. Q \in SUBSET (1..m) /\ P \in SUBSET (1..Len(f)) /\ 1..m = 1..Len(f) \cup {m}
    BY <1>1 DEF EventPlaces
  <2> HIDE DEF P, Q, m
  <2> QED BY <2>1, <2>2
<1>4. /\ Cardinality(P) <= Cardinality(Q)
      /\ \A k \in 1..Cardinality(P) : InOrder(Q)[k] = InOrder(P)[k]
  <2>1. m \in Nat
    BY <1>1
  <2> HIDE DEF P, Q, m
  <2>2. CASE Q = P
    BY <1>2, <2>2
  <2>3. CASE Q = P \cup {m}
    <3>1. /\ Cardinality(P \cup {m}) = Cardinality(P) + 1
          /\ \A k \in 1..Cardinality(P) : InOrder(P \cup {m})[k] = InOrder(P)[k]
      BY <1>2, <2>1, InOrderGrows
    <3>2. Cardinality(P) <= Cardinality(P \cup {m})
      BY <1>2, <3>1
    <3> QED BY <2>3, <3>1, <3>2, Zenon
  <2> QED BY <1>3, <2>2, <2>3
<1>5. /\ Len(Events(g)) = Cardinality(Q)
      /\ \A k \in 1..Cardinality(Q) : Events(g)[k] = g[InOrder(Q)[k]]
  BY <1>1, EventsAre
<1>6. \A k \in 1..Cardinality(P) : InOrder(P)[k] \in P /\ Events(f)[k] = f[InOrder(P)[k]]
  BY <1>2, EventsAre
<1>7. Cardinality(Q) \in Nat
  <2>1. Q \in SUBSET DOMAIN g
    BY DEF EventPlaces
  <2> HIDE DEF Q
  <2> QED BY <1>1, <2>1, SelectedIs
<1> HIDE DEF P, Q, m
<1>8. ASSUME NEW k \in 1..Cardinality(P) PROVE Events(g)[k] = Events(f)[k]
  <2>1. k \in 1..Cardinality(Q)
    BY <1>2, <1>4, <1>7
  <2>2. InOrder(P)[k] \in 1..Len(f)
    BY <1>1, <1>2, <1>6
  <2>3. Events(g)[k] = g[InOrder(Q)[k]] /\ InOrder(Q)[k] = InOrder(P)[k]
    BY <1>4, <1>5, <2>1
  <2>4. g[InOrder(P)[k]] = f[InOrder(P)[k]]
    BY <1>1, <2>2
  <2> QED BY <1>6, <2>3, <2>4
<1> QED BY <1>2, <1>4, <1>5, <1>8 DEF g

\* The first of the events that there are, when there are as many.
LEMMA FirstEventsAre ==
    ASSUME NEW X, NEW f \in Seq(X), NEW n \in 0..Len(Events(f))
    PROVE  /\ FirstEvents(f, n) = SubSeq(Events(f), 1, n)
           /\ FirstEvents(f, n) \in Seq(X) /\ Len(FirstEvents(f, n)) = n
           /\ \A k \in 1..n : FirstEvents(f, n)[k] = Events(f)[k]
<1>1. Events(f) \in Seq(X) /\ Len(Events(f)) \in Nat
  BY EventsAre
<1>2. Min({n, Len(Events(f))}) = n
  BY <1>1, MinOfTwo
<1>3. FirstEvents(f, n) = SubSeq(Events(f), 1, n)
  BY <1>2 DEF FirstEvents
<1> DEFINE E == Events(f)
<1> HIDE DEF E
<1>4. /\ SubSeq(E, 1, n) \in Seq(X) /\ Len(SubSeq(E, 1, n)) = n
      /\ \A k \in 1..n : SubSeq(E, 1, n)[k] = E[k]
  BY <1>1 DEF E
<1> QED BY <1>3, <1>4 DEF E

\* They stay the same when the file grows.
LEMMA FirstEventsStay ==
    ASSUME NEW X, NEW f \in Seq(X), NEW e \in X, NEW n \in 0..Len(Events(f))
    PROVE  /\ n \in 0..Len(Events(Append(f, e)))
           /\ FirstEvents(Append(f, e), n) = FirstEvents(f, n)
<1> DEFINE g == Append(f, e)
           F == FirstEvents(f, n)
           G == FirstEvents(g, n)
<1>1. g \in Seq(X)
  OBVIOUS
<1>2. /\ Len(Events(f)) <= Len(Events(g)) /\ Len(Events(f)) \in Nat /\ Len(Events(g)) \in Nat
      /\ \A k \in 1..Len(Events(f)) : Events(g)[k] = Events(f)[k]
  <2>1. Len(Events(f)) \in Nat /\ Len(Events(g)) \in Nat
    <3> HIDE DEF g
    <3> QED BY <1>1, EventsAre
  <2> QED BY <2>1, EventsGrow
<1> HIDE DEF g
<1>3. n \in 0..Len(Events(g))
  BY <1>2
<1>4. F \in Seq(X) /\ Len(F) = n /\ \A k \in 1..n : F[k] = Events(f)[k]
  BY FirstEventsAre
<1>5. G \in Seq(X) /\ Len(G) = n /\ \A k \in 1..n : G[k] = Events(g)[k]
  BY <1>1, <1>3, FirstEventsAre
<1> HIDE DEF F, G
<1>6. \A k \in 1..n : F[k] = G[k]
  BY <1>2, <1>4, <1>5
<1>7. F = G
  BY <1>4, <1>5, <1>6
<1> QED BY <1>3, <1>7 DEF g, F, G

\* The first of the first events are the first events.
LEMMA FirstOfFirst ==
    ASSUME NEW X, NEW f \in Seq(X), NEW n \in 0..Len(Events(f)), NEW m \in 0..n
    PROVE  FirstEvents(f, m) = SubSeq(FirstEvents(f, n), 1, m)
<1> DEFINE F == FirstEvents(f, n)
           G == FirstEvents(f, m)
<1>1. F \in Seq(X) /\ Len(F) = n /\ \A k \in 1..n : F[k] = Events(f)[k]
  BY FirstEventsAre
<1>2. G \in Seq(X) /\ Len(G) = m /\ \A k \in 1..m : G[k] = Events(f)[k]
  <2>1. Len(Events(f)) \in Nat
    BY EventsAre
  <2>2. m \in 0..Len(Events(f))
    BY <2>1
  <2> QED BY <2>2, FirstEventsAre
<1> HIDE DEF F, G
<1>3. /\ SubSeq(F, 1, m) \in Seq(X) /\ Len(SubSeq(F, 1, m)) = m
      /\ \A k \in 1..m : SubSeq(F, 1, m)[k] = F[k]
  BY <1>1
<1>4. \A k \in 1..m : SubSeq(F, 1, m)[k] = G[k]
  BY <1>1, <1>2, <1>3
<1>5. SubSeq(F, 1, m) = G
  BY <1>2, <1>3, <1>4
<1> QED BY <1>5 DEF F, G

-----------------------------------------------------------------------------
(* Folds that add up *)

\* g adds up f over the parts of S, and takes c of a part first.
Picks(g, f, S, c) ==
    \A T \in SUBSET S :
        /\ T = {} => g[T] = 0
        /\ T # {} => /\ c[T] \in T
                     /\ g[T] \in {f[c[T]] + g[T \ {c[T]}], g[T \ {c[T]}] + f[c[T]]}

\* In whatever order a function adds up, it tells the sum.
LEMMA SumPicked ==
    ASSUME NEW f, NEW S, Adds(f, S), NEW c, NEW g, Picks(g, f, S, c)
    PROVE  g[S] = SumFunctionOnSet(f, S)
<1> DEFINE Sum(T) == SumFunctionOnSet(f, T)
           C == {T \in SUBSET S : g[T] # Sum(T)}
<1>1. C = {}
  <2> SUFFICES ASSUME C # {} PROVE FALSE
    OBVIOUS
  <2>1. IsFiniteSet(S)
    BY DEF Adds
  <2>2. PICK T \in C : \A U \in C : Cardinality(T) <= Cardinality(U)
    <3>1. C \in SUBSET (SUBSET S)
      OBVIOUS
    <3> HIDE DEF C
    <3> QED BY <2>1, <3>1, Smallest
  <2>3. T \in SUBSET S /\ g[T] # Sum(T)
    OBVIOUS
  <2> HIDE DEF C
  <2>4. T # {}
    BY <2>3, SumOfNothing DEF Picks
  <2> DEFINE x == c[T]
  <2>5. x \in T /\ g[T] \in {f[x] + g[T \ {x}], g[T \ {x}] + f[x]}
    BY <2>3, <2>4 DEF Picks
  <2> HIDE DEF x
  <2>6. /\ T \ {x} \in SUBSET S /\ Cardinality(T) \in Nat /\ Cardinality(T \ {x}) \in Nat
        /\ Cardinality(T \ {x}) < Cardinality(T)
    BY <2>1, <2>3, <2>5, OneFewer
  <2>7. T \ {x} \notin C
    BY <2>2, <2>6
  <2>8. g[T \ {x}] = Sum(T \ {x})
    BY <2>6, <2>7 DEF C
  <2>9. Adds(f, T)
    BY <2>3, AddsPart
  <2>10. Sum(T) = f[x] + Sum(T \ {x})
    BY <2>5, <2>9, SumWithout
  <2>11. f[x] \in Int /\ Sum(T \ {x}) \in Int
    <3>1. Adds(f, T \ {x})
      BY <2>6, AddsPart
    <3> QED BY <2>3, <2>5, <3>1, SumType DEF Adds
  <2> HIDE DEF Sum
  <2> QED BY <2>3, <2>5, <2>8, <2>10, <2>11
<1> QED BY <1>1

\* c chooses an element of each part of S, and h adds up in that order.
Chooses(c, S) == \A T \in SUBSET S : T # {} => c[T] \in T
TellsSums(h, f, S, c) ==
    \A T \in SUBSET S :
        /\ T = {} => h[T] = 0
        /\ T # {} => /\ h[T] = f[c[T]] + h[T \ {c[T]}]
                     /\ h[T] = h[T \ {c[T]}] + f[c[T]]

\* There is a function that adds up in a given order.
LEMMA SumInOrder ==
    ASSUME NEW f, NEW S, Adds(f, S), NEW c, Chooses(c, S)
    PROVE  TellsSums([T \in SUBSET S |-> SumFunctionOnSet(f, T)], f, S, c)
<1> DEFINE Sum(T) == SumFunctionOnSet(f, T)
           h == [T \in SUBSET S |-> Sum(T)]
<1>1. ASSUME NEW T \in SUBSET S
      PROVE  /\ T = {} => h[T] = 0
             /\ T # {} => /\ h[T] = f[c[T]] + h[T \ {c[T]}]
                          /\ h[T] = h[T \ {c[T]}] + f[c[T]]
  <2>1. h[T] = Sum(T) /\ h[T \ {c[T]}] = Sum(T \ {c[T]})
    OBVIOUS
  <2>2. T = {} => Sum(T) = 0
    BY SumOfNothing
  <2>3. Adds(f, T)
    BY AddsPart
  <2>4. ASSUME T # {}
        PROVE  /\ Sum(T) = f[c[T]] + Sum(T \ {c[T]})
               /\ f[c[T]] \in Int /\ Sum(T \ {c[T]}) \in Int
    <3>1. c[T] \in T /\ T \ {c[T]} \in SUBSET S
      BY <2>4 DEF Chooses
    <3>2. Adds(f, T \ {c[T]})
      BY <3>1, AddsPart
    <3> QED BY <2>3, <3>1, <3>2, SumWithout, SumType DEF Adds
  <2> HIDE DEF Sum, h
  <2> QED BY <2>1, <2>2, <2>4
<1> HIDE DEF h
<1>2. TellsSums(h, f, S, c)
  BY <1>1 DEF TellsSums
<1> QED BY <1>2 DEF h

\* What each element of a sequence counts.
SizeValues(s) == [i \in DOMAIN s |-> s[i].size]
NumberValues(s) == [i \in DOMAIN s |-> s[i].n_allocations]

\* Of some places, the last is one of them.
LEMMA LastOfPlaces ==
    ASSUME NEW n \in Nat, NEW T \in SUBSET (1..n), T # {}
    PROVE  Max(T) \in T
<1>1. IsFiniteSet(T)
  <2>1. IsFiniteSet(1..n)
    BY 1 \in Int, n \in Int, FS_Interval
  <2> QED BY <2>1, FS_Subset
<1> DEFINE id == [i \in T |-> i]
<1>2. PICK m \in T : \A x \in T : id[x] <= id[m]
  <2>1. \A x \in T : id[x] \in Int
    OBVIOUS
  <2> HIDE DEF id
  <2> QED BY <1>1, <2>1, Greatest
<1>3. \A x \in T : m >= x
  BY <1>2
<1> QED BY <1>3 DEF Max

\* The sums of what some elements of a sequence count.
SizesOf(s, S) == MapThenSumSet(LAMBDA j : s[j].size, S)
NumbersOf(s, S) == MapThenSumSet(LAMBDA j : s[j].n_allocations, S)

SizesBody(g, s, T) == IF T = {} THEN 0 ELSE g[T \ {Max(T)}] + s[Max(T)].size
SizesFolds(g, s, D) == g = [T \in SUBSET D |-> SizesBody(g, s, T)]

\* The sizes of some records are what such a function tells of all of them.
LEMMA SizesUnfold ==
    ASSUME NEW s
    PROVE  Sizes(s) = (CHOOSE g : SizesFolds(g, s, DOMAIN s))[DOMAIN s]
BY Zenon DEF Sizes, FoldLeft, MapThenFoldSet, SizesFolds, SizesBody

\* The sizes of some records are the sum of those of each.
LEMMA SizesAre ==
    ASSUME NEW n \in Nat, NEW s, DOMAIN s = 1..n, \A i \in DOMAIN s : s[i].size \in Int
    PROVE  Adds(SizeValues(s), DOMAIN s) /\ Sizes(s) = SumFunctionOnSet(SizeValues(s), DOMAIN s)
<1> DEFINE D == DOMAIN s
           f == SizeValues(s)
           c == [T \in SUBSET D |-> Max(T)]
           h == [T \in SUBSET D |-> SumFunctionOnSet(f, T)]
           g == CHOOSE g : SizesFolds(g, s, D)
<1>1. Adds(f, D) /\ \A i \in D : f[i] = s[i].size
  BY 1 \in Int, n \in Int, FS_Interval DEF SizeValues, Adds
<1>2. \A T \in SUBSET D : c[T] = Max(T) /\ (T # {} => Max(T) \in T)
  BY LastOfPlaces
<1> HIDE DEF f, c, D
<1>3. \A T \in SUBSET D : h[T] = SizesBody(h, s, T)
  <2>1. TellsSums(h, f, D, c)
    <3>1. Chooses(c, D)
      BY <1>2 DEF Chooses
    <3> QED BY <1>1, <3>1, SumInOrder
  <2> HIDE DEF h
  <2>2. \A T \in SUBSET D : T # {} => f[c[T]] = s[Max(T)].size
    BY <1>1, <1>2
  <2> QED BY <1>2, <2>1, <2>2 DEF SizesBody, TellsSums
<1>4. SizesFolds(h, s, D)
  <2>1. h = [T \in SUBSET D |-> h[T]]
    OBVIOUS
  <2> HIDE DEF h
  <2> QED BY <1>3, <2>1 DEF SizesFolds
<1>5. SizesFolds(g, s, D)
  <2> HIDE DEF h
  <2> QED BY <1>4, Zenon
<1> HIDE DEF g, h
<1>6. Picks(g, f, D, c)
  <2>1. \A T \in SUBSET D : g[T] = SizesBody(g, s, T)
    BY <1>5 DEF SizesFolds
  <2>2. \A T \in SUBSET D : T # {} => f[c[T]] = s[Max(T)].size
    BY <1>1, <1>2
  <2> QED BY <1>2, <2>1, <2>2 DEF SizesBody, Picks
<1>7. g[D] = SumFunctionOnSet(f, D)
  BY <1>1, <1>6, SumPicked
<1>8. Sizes(s) = g[D]
  BY SizesUnfold DEF g, D
<1> QED BY <1>1, <1>7, <1>8 DEF f, D

CountsBody(g, s, T) == IF T = {} THEN 0 ELSE g[T \ {Max(T)}] + s[Max(T)].n_allocations
CountsFolds(g, s, D) == g = [T \in SUBSET D |-> CountsBody(g, s, T)]

\* The numbers of allocations of some records are what such a function tells of all of them.
LEMMA CountsUnfold ==
    ASSUME NEW s
    PROVE  Counts(s) = (CHOOSE g : CountsFolds(g, s, DOMAIN s))[DOMAIN s]
BY Zenon DEF Counts, FoldLeft, MapThenFoldSet, CountsFolds, CountsBody

\* The numbers of allocations of some records are the sum of those of each.
LEMMA CountsAre ==
    ASSUME NEW n \in Nat, NEW s, DOMAIN s = 1..n, \A i \in DOMAIN s : s[i].n_allocations \in Int
    PROVE  Adds(NumberValues(s), DOMAIN s) /\ Counts(s) = SumFunctionOnSet(NumberValues(s), DOMAIN s)
<1> DEFINE D == DOMAIN s
           f == NumberValues(s)
           c == [T \in SUBSET D |-> Max(T)]
           h == [T \in SUBSET D |-> SumFunctionOnSet(f, T)]
           g == CHOOSE g : CountsFolds(g, s, D)
<1>1. Adds(f, D) /\ \A i \in D : f[i] = s[i].n_allocations
  BY 1 \in Int, n \in Int, FS_Interval DEF NumberValues, Adds
<1>2. \A T \in SUBSET D : c[T] = Max(T) /\ (T # {} => Max(T) \in T)
  BY LastOfPlaces
<1> HIDE DEF f, c, D
<1>3. \A T \in SUBSET D : h[T] = CountsBody(h, s, T)
  <2>1. TellsSums(h, f, D, c)
    <3>1. Chooses(c, D)
      BY <1>2 DEF Chooses
    <3> QED BY <1>1, <3>1, SumInOrder
  <2> HIDE DEF h
  <2>2. \A T \in SUBSET D : T # {} => f[c[T]] = s[Max(T)].n_allocations
    BY <1>1, <1>2
  <2> QED BY <1>2, <2>1, <2>2 DEF CountsBody, TellsSums
<1>4. CountsFolds(h, s, D)
  <2>1. h = [T \in SUBSET D |-> h[T]]
    OBVIOUS
  <2> HIDE DEF h
  <2> QED BY <1>3, <2>1 DEF CountsFolds
<1>5. CountsFolds(g, s, D)
  <2> HIDE DEF h
  <2> QED BY <1>4, Zenon
<1> HIDE DEF g, h
<1>6. Picks(g, f, D, c)
  <2>1. \A T \in SUBSET D : g[T] = CountsBody(g, s, T)
    BY <1>5 DEF CountsFolds
  <2>2. \A T \in SUBSET D : T # {} => f[c[T]] = s[Max(T)].n_allocations
    BY <1>1, <1>2
  <2> QED BY <1>2, <2>1, <2>2 DEF CountsBody, Picks
<1>7. g[D] = SumFunctionOnSet(f, D)
  BY <1>1, <1>6, SumPicked
<1>8. Counts(s) = g[D]
  BY CountsUnfold DEF g, D
<1> QED BY <1>1, <1>7, <1>8 DEF f, D

SizesSumBody(g, s, T) == IF T = {} THEN 0 ELSE s[CHOOSE x \in T : TRUE].size + g[T \ {CHOOSE x \in T : TRUE}]
SizesSumFolds(g, s, D) == g = [T \in SUBSET D |-> SizesSumBody(g, s, T)]

\* The sizes of some elements are what such a function tells of all of them.
LEMMA SizesSumUnfold ==
    ASSUME NEW s, NEW S
    PROVE  SizesOf(s, S) = (CHOOSE g : SizesSumFolds(g, s, S))[S]
BY Zenon DEF SizesOf, MapThenSumSet, MapThenFoldSet, SizesSumFolds, SizesSumBody

\* The sizes of some elements are the sum of those of each.
LEMMA SizesSumAre ==
    ASSUME NEW s, NEW S, IsFiniteSet(S), S \subseteq DOMAIN s, \A i \in S : s[i].size \in Int
    PROVE  Adds(SizeValues(s), S) /\ SizesOf(s, S) = SumFunctionOnSet(SizeValues(s), S)
<1> DEFINE D == S
           f == SizeValues(s)
           c == [T \in SUBSET D |-> (CHOOSE x \in T : TRUE)]
           h == [T \in SUBSET D |-> SumFunctionOnSet(f, T)]
           g == CHOOSE g : SizesSumFolds(g, s, D)
<1>1. Adds(f, D) /\ \A i \in D : f[i] = s[i].size
  BY DEF SizeValues, Adds
<1>2. \A T \in SUBSET D : c[T] = (CHOOSE x \in T : TRUE) /\ (T # {} => (CHOOSE x \in T : TRUE) \in T)
  OBVIOUS
<1> HIDE DEF f, c, D
<1>3. \A T \in SUBSET D : h[T] = SizesSumBody(h, s, T)
  <2>1. TellsSums(h, f, D, c)
    <3>1. Chooses(c, D)
      BY <1>2 DEF Chooses
    <3> QED BY <1>1, <3>1, SumInOrder
  <2> HIDE DEF h
  <2> SUFFICES ASSUME NEW T \in SUBSET D PROVE h[T] = SizesSumBody(h, s, T)
    OBVIOUS
  <2>2. CASE T = {}
    BY <2>1, <2>2 DEF SizesSumBody, TellsSums
  <2>3. CASE T # {}
    <3>1. c[T] = (CHOOSE x \in T : TRUE) /\ c[T] \in D
      BY <1>2, <2>3
    <3>2. h[T] = f[c[T]] + h[T \ {c[T]}]
      BY <2>1, <2>3 DEF TellsSums
    <3>3. f[c[T]] = s[c[T]].size
      BY <1>1, <3>1
    <3>4. SizesSumBody(h, s, T) = s[c[T]].size + h[T \ {c[T]}]
      BY <2>3, <3>1, Zenon DEF SizesSumBody
    <3> QED BY <3>2, <3>3, <3>4
  <2> QED BY <2>2, <2>3
<1>4. SizesSumFolds(h, s, D)
  <2>1. h = [T \in SUBSET D |-> h[T]]
    OBVIOUS
  <2> HIDE DEF h
  <2> QED BY <1>3, <2>1 DEF SizesSumFolds
<1>5. SizesSumFolds(g, s, D)
  <2> HIDE DEF h
  <2> QED BY <1>4, Zenon
<1> HIDE DEF g, h
<1>6. Picks(g, f, D, c)
  <2>1. \A T \in SUBSET D : g[T] = SizesSumBody(g, s, T)
    BY <1>5 DEF SizesSumFolds
  <2> SUFFICES ASSUME NEW T \in SUBSET D
               PROVE  /\ T = {} => g[T] = 0
                      /\ T # {} => c[T] \in T /\ g[T] = f[c[T]] + g[T \ {c[T]}]
    BY Zenon DEF Picks
  <2>2. ASSUME T = {} PROVE g[T] = 0
    BY <2>1, <2>2 DEF SizesSumBody
  <2>3. ASSUME T # {} PROVE c[T] \in T /\ g[T] = f[c[T]] + g[T \ {c[T]}]
    <3>1. c[T] = (CHOOSE x \in T : TRUE) /\ c[T] \in T
      BY <1>2, <2>3
    <3>2. f[c[T]] = s[c[T]].size
      BY <1>1, <3>1
    <3>3. g[T] = SizesSumBody(g, s, T)
      BY <2>1
    <3>4. SizesSumBody(g, s, T) = s[c[T]].size + g[T \ {c[T]}]
      BY <2>3, <3>1, Zenon DEF SizesSumBody
    <3> QED BY <3>1, <3>2, <3>3, <3>4
  <2> QED BY <2>2, <2>3
<1>7. g[D] = SumFunctionOnSet(f, D)
  BY <1>1, <1>6, SumPicked
<1>8. SizesOf(s, S) = g[D]
  BY SizesSumUnfold DEF g, D
<1> QED BY <1>1, <1>7, <1>8 DEF f, D

NumbersSumBody(g, s, T) == IF T = {} THEN 0 ELSE s[CHOOSE x \in T : TRUE].n_allocations + g[T \ {CHOOSE x \in T : TRUE}]
NumbersSumFolds(g, s, D) == g = [T \in SUBSET D |-> NumbersSumBody(g, s, T)]

\* The numbers of allocations of some elements are what such a function tells of all of them.
LEMMA NumbersSumUnfold ==
    ASSUME NEW s, NEW S
    PROVE  NumbersOf(s, S) = (CHOOSE g : NumbersSumFolds(g, s, S))[S]
BY Zenon DEF NumbersOf, MapThenSumSet, MapThenFoldSet, NumbersSumFolds, NumbersSumBody

\* The numbers of allocations of some elements are the sum of those of each.
LEMMA NumbersSumAre ==
    ASSUME NEW s, NEW S, IsFiniteSet(S), S \subseteq DOMAIN s, \A i \in S : s[i].n_allocations \in Int
    PROVE  Adds(NumberValues(s), S) /\ NumbersOf(s, S) = SumFunctionOnSet(NumberValues(s), S)
<1> DEFINE D == S
           f == NumberValues(s)
           c == [T \in SUBSET D |-> (CHOOSE x \in T : TRUE)]
           h == [T \in SUBSET D |-> SumFunctionOnSet(f, T)]
           g == CHOOSE g : NumbersSumFolds(g, s, D)
<1>1. Adds(f, D) /\ \A i \in D : f[i] = s[i].n_allocations
  BY DEF NumberValues, Adds
<1>2. \A T \in SUBSET D : c[T] = (CHOOSE x \in T : TRUE) /\ (T # {} => (CHOOSE x \in T : TRUE) \in T)
  OBVIOUS
<1> HIDE DEF f, c, D
<1>3. \A T \in SUBSET D : h[T] = NumbersSumBody(h, s, T)
  <2>1. TellsSums(h, f, D, c)
    <3>1. Chooses(c, D)
      BY <1>2 DEF Chooses
    <3> QED BY <1>1, <3>1, SumInOrder
  <2> HIDE DEF h
  <2> SUFFICES ASSUME NEW T \in SUBSET D PROVE h[T] = NumbersSumBody(h, s, T)
    OBVIOUS
  <2>2. CASE T = {}
    BY <2>1, <2>2 DEF NumbersSumBody, TellsSums
  <2>3. CASE T # {}
    <3>1. c[T] = (CHOOSE x \in T : TRUE) /\ c[T] \in D
      BY <1>2, <2>3
    <3>2. h[T] = f[c[T]] + h[T \ {c[T]}]
      BY <2>1, <2>3 DEF TellsSums
    <3>3. f[c[T]] = s[c[T]].n_allocations
      BY <1>1, <3>1
    <3>4. NumbersSumBody(h, s, T) = s[c[T]].n_allocations + h[T \ {c[T]}]
      BY <2>3, <3>1, Zenon DEF NumbersSumBody
    <3> QED BY <3>2, <3>3, <3>4
  <2> QED BY <2>2, <2>3
<1>4. NumbersSumFolds(h, s, D)
  <2>1. h = [T \in SUBSET D |-> h[T]]
    OBVIOUS
  <2> HIDE DEF h
  <2> QED BY <1>3, <2>1 DEF NumbersSumFolds
<1>5. NumbersSumFolds(g, s, D)
  <2> HIDE DEF h
  <2> QED BY <1>4, Zenon
<1> HIDE DEF g, h
<1>6. Picks(g, f, D, c)
  <2>1. \A T \in SUBSET D : g[T] = NumbersSumBody(g, s, T)
    BY <1>5 DEF NumbersSumFolds
  <2> SUFFICES ASSUME NEW T \in SUBSET D
               PROVE  /\ T = {} => g[T] = 0
                      /\ T # {} => c[T] \in T /\ g[T] = f[c[T]] + g[T \ {c[T]}]
    BY Zenon DEF Picks
  <2>2. ASSUME T = {} PROVE g[T] = 0
    BY <2>1, <2>2 DEF NumbersSumBody
  <2>3. ASSUME T # {} PROVE c[T] \in T /\ g[T] = f[c[T]] + g[T \ {c[T]}]
    <3>1. c[T] = (CHOOSE x \in T : TRUE) /\ c[T] \in T
      BY <1>2, <2>3
    <3>2. f[c[T]] = s[c[T]].n_allocations
      BY <1>1, <3>1
    <3>3. g[T] = NumbersSumBody(g, s, T)
      BY <2>1
    <3>4. NumbersSumBody(g, s, T) = s[c[T]].n_allocations + g[T \ {c[T]}]
      BY <2>3, <3>1, Zenon DEF NumbersSumBody
    <3> QED BY <3>1, <3>2, <3>3, <3>4
  <2> QED BY <2>2, <2>3
<1>7. g[D] = SumFunctionOnSet(f, D)
  BY <1>1, <1>6, SumPicked
<1>8. NumbersOf(s, S) = g[D]
  BY NumbersSumUnfold DEF g, D
<1> QED BY <1>1, <1>7, <1>8 DEF f, D

-----------------------------------------------------------------------------
(* One record for each location *)

Here(s, merge, i) == <<s[i].site, IF merge THEN NO_THREAD_INFO ELSE s[i].tid>>
SameAs(s, merge, i) == {j \in DOMAIN s : Here(s, merge, j) = Here(s, merge, i)}
Firsts(s, merge) == {i \in DOMAIN s : i = Min(SameAs(s, merge, i))}

\* The record of each allocation's location.
PlaceOf(s, merge) == [j \in DOMAIN s |-> Rank(Firsts(s, merge), Min(SameAs(s, merge, j))) + 1]

\* There is a record for each first allocation of a location.
LEMMA RecordsUnfold ==
    ASSUME NEW s, NEW merge, NEW first, first = InOrder(Firsts(s, merge))
    PROVE  RecordsOf(s, merge) =
             [k \in DOMAIN first |->
                 Record(s[first[k]].tid, s[first[k]].site,
                        SizesOf(s, SameAs(s, merge, first[k])),
                        NumbersOf(s, SameAs(s, merge, first[k])))]
BY DEF RecordsOf, Firsts, SameAs, Here, SizesOf, NumbersOf

\* Of some places, the first is one of them.
LEMMA FirstOfPlaces ==
    ASSUME NEW T \in SUBSET Nat, T # {}
    PROVE  Min(T) \in T
<1>1. PICK m \in T : \A k \in T : m <= k
  BY LeastNumber
<1> QED BY <1>1 DEF Min

\* Each allocation is of the location of one record, that of its first one.
LEMMA GroupsAre ==
    ASSUME NEW n \in Nat, NEW s, DOMAIN s = 1..n, NEW merge,
           NEW first, first = InOrder(Firsts(s, merge)),
           NEW count, count = Cardinality(Firsts(s, merge)),
           NEW place, place = PlaceOf(s, merge)
    PROVE  /\ count \in Nat /\ DOMAIN first = 1..count
           /\ \A j \in 1..n : place[j] \in 1..count
           /\ \A k \in 1..count : /\ first[k] \in 1..n
                                  /\ SameAs(s, merge, first[k]) = {j \in 1..n : place[j] = k}
<1> DEFINE D == 1..n
           F == Firsts(s, merge)
           Same(i) == SameAs(s, merge, i)
           Least(i) == Min(Same(i))
<1>1. F \in SUBSET D /\ F \in SUBSET Nat /\ IsFiniteSet(F)
  <2>1. F \in SUBSET D
    BY DEF Firsts
  <2>2. IsFiniteSet(D) /\ D \in SUBSET Nat
    BY 1 \in Int, n \in Int, FS_Interval
  <2> HIDE DEF D, F
  <2> QED BY <2>1, <2>2, FS_Subset
<1>2. \A i, j \in D : j \in Same(i) <=> Here(s, merge, j) = Here(s, merge, i)
  BY DEF SameAs
<1>3. \A i \in D : Same(i) \in SUBSET D
  BY DEF SameAs
<1>4. \A i, j \in D : j \in Same(i) => Same(j) = Same(i)
  BY DEF SameAs
<1>5. ASSUME NEW i \in D PROVE Least(i) \in Same(i)
  <2>1. i \in Same(i)
    BY <1>2
  <2>2. Same(i) \in SUBSET Nat
    BY <1>3
  <2> HIDE DEF Same
  <2> QED BY <2>1, <2>2, FirstOfPlaces
<1>6. ASSUME NEW i \in D PROVE Least(i) \in F /\ Least(i) \in D
  <2>1. Least(i) \in D
    BY <1>3, <1>5
  <2>2. Same(Least(i)) = Same(i)
    BY <1>4, <1>5, <2>1
  <2>3. Least(i) = Min(Same(Least(i)))
    BY <2>2
  <2> QED BY <2>1, <2>3 DEF Firsts
<1>7. \A i \in F : Least(i) = i
  BY DEF Firsts
<1>8. /\ count \in Nat /\ first \in [1..count -> F]
      /\ \A k \in 1..count : Rank(F, first[k]) = k - 1
      /\ \A i \in F : Rank(F, i) + 1 \in 1..count /\ first[Rank(F, i) + 1] = i
  <2> HIDE DEF F
  <2>1. first = InOrder(F) /\ count = Cardinality(F)
    BY DEF F
  <2> QED BY <1>1, <2>1, InOrderIs
<1>9. \A j \in D : place[j] = Rank(F, Least(j)) + 1
  BY DEF PlaceOf
<1> HIDE DEF F, Least, D, Same
<1>10. \A j \in D : place[j] \in 1..count /\ first[place[j]] = Least(j)
  BY <1>6, <1>8, <1>9
<1>11. ASSUME NEW k \in 1..count
       PROVE  first[k] \in D /\ Same(first[k]) = {j \in D : place[j] = k}
  <2>1. first[k] \in F /\ first[k] \in D
    BY <1>1, <1>8
  <2>2. ASSUME NEW j \in D PROVE j \in Same(first[k]) <=> place[j] = k
    <3>1. ASSUME place[j] = k PROVE j \in Same(first[k])
      <4>1. first[k] = Least(j)
        BY <1>10, <3>1
      <4>2. first[k] \in Same(j)
        BY <1>5, <4>1
      <4> QED BY <1>2, <2>1, <4>2
    <3>2. ASSUME j \in Same(first[k]) PROVE place[j] = k
      <4>1. Same(j) = Same(first[k])
        BY <1>4, <2>1, <3>2
      <4>2. Least(j) = first[k]
        BY <1>7, <2>1, <4>1 DEF Least
      <4>3. place[j] = Rank(F, first[k]) + 1 /\ Rank(F, first[k]) = k - 1
        BY <1>8, <1>9, <4>2
      <4> QED BY <4>3
    <3> QED BY <3>1, <3>2
  <2>3. Same(first[k]) \in SUBSET D
    BY <1>3, <2>1
  <2> QED BY <2>1, <2>2, <2>3
<1> QED BY <1>8, <1>10, <1>11 DEF D, Same

\* Of each location together, and of all.
RecordValues(values, s, merge, n, count) ==
    [k \in 1..count |-> SumFunctionOnSet(values, {j \in 1..n : PlaceOf(s, merge)[j] = k})]

\* What the records count together is what the allocations count.
LEMMA ValuesAddUp ==
    ASSUME NEW n \in Nat, NEW s, DOMAIN s = 1..n, NEW merge,
           NEW count, count = Cardinality(Firsts(s, merge)),
           NEW values, Adds(values, 1..n)
    PROVE  /\ Adds(RecordValues(values, s, merge, n, count), 1..count)
           /\ SumFunctionOnSet(RecordValues(values, s, merge, n, count), 1..count)
                = SumFunctionOnSet(values, 1..n)
<1> DEFINE place == PlaceOf(s, merge)
           D == 1..n
           K == 1..count
           Group(k) == {j \in D : place[j] = k}
<1>1. count \in Nat /\ \A j \in D : place[j] \in K
  BY GroupsAre
<1>2. IsFiniteSet(K)
  BY <1>1, 1 \in Int, count \in Int, FS_Interval
<1> HIDE DEF D, K, place
<1>3. LET g == [k \in K |-> SumFunctionOnSet(values, {x \in D : place[x] = k})] IN
      Adds(g, K) /\ SumFunctionOnSet(g, K) = SumFunctionOnSet(values, D)
  <2>1. Adds(values, D)
    BY DEF D
  <2> QED BY <1>1, <1>2, <2>1, SumOfGroups
<1> QED BY <1>3 DEF RecordValues, D, K, place

\* The records of some allocations count together what these do.
LEMMA RecordsAddUp ==
    ASSUME NEW n \in Nat, NEW s, DOMAIN s = 1..n, NEW merge,
           \A i \in 1..n : s[i].size \in Nat /\ s[i].n_allocations \in Nat
    PROVE  /\ Sizes(RecordsOf(s, merge)) = SumFunctionOnSet(SizeValues(s), 1..n)
           /\ Counts(RecordsOf(s, merge)) = SumFunctionOnSet(NumberValues(s), 1..n)
<1> DEFINE D == 1..n
           count == Cardinality(Firsts(s, merge))
           K == 1..count
           first == InOrder(Firsts(s, merge))
           R == RecordsOf(s, merge)
           sizes == SizeValues(s)
           numbers == NumberValues(s)
           Same(k) == {j \in D : PlaceOf(s, merge)[j] = k}
<1>1. /\ count \in Nat /\ DOMAIN first = K
      /\ \A k \in K : first[k] \in D /\ SameAs(s, merge, first[k]) = Same(k)
  BY GroupsAre
<1>2. IsFiniteSet(D)
  BY 1 \in Int, n \in Int, FS_Interval
<1>3. /\ Adds(sizes, D) /\ Adds(numbers, D)
      /\ \A i \in D : /\ sizes[i] = s[i].size /\ sizes[i] \in Nat
                      /\ numbers[i] = s[i].n_allocations /\ numbers[i] \in Nat
  <2>1. \A i \in D : /\ sizes[i] = s[i].size /\ sizes[i] \in Nat
                     /\ numbers[i] = s[i].n_allocations /\ numbers[i] \in Nat
    BY DEF SizeValues, NumberValues
  <2> HIDE DEF sizes, numbers, D
  <2> QED BY <1>2, <2>1 DEF Adds
<1>4. R = [k \in K |-> Record(s[first[k]].tid, s[first[k]].site,
                              SizesOf(s, SameAs(s, merge, first[k])),
                              NumbersOf(s, SameAs(s, merge, first[k])))]
  <2> HIDE DEF K
  <2> QED BY <1>1, RecordsUnfold
<1>5. DOMAIN s = D
  OBVIOUS
<1> HIDE DEF first, R, sizes, numbers, D
<1>6. ASSUME NEW k \in K
      PROVE  /\ R[k].size = SumFunctionOnSet(sizes, Same(k))
             /\ R[k].n_allocations = SumFunctionOnSet(numbers, Same(k))
             /\ R[k].size \in Nat /\ R[k].n_allocations \in Nat
  <2>1. Same(k) \in SUBSET D
    OBVIOUS
  <2>2. IsFiniteSet(Same(k)) /\ Same(k) \subseteq DOMAIN s
    <3> HIDE DEF Same
    <3> QED BY <1>2, <1>5, <2>1, FS_Subset
  <2>3. /\ R[k].size = SizesOf(s, Same(k))
        /\ R[k].n_allocations = NumbersOf(s, Same(k))
    <3> HIDE DEF Same
    <3> QED BY <1>1, <1>4 DEF Record
  <2> HIDE DEF Same
  <2>4. \A i \in Same(k) : s[i].size \in Int /\ s[i].n_allocations \in Int
    BY <1>3, <2>1
  <2>5. SizesOf(s, Same(k)) = SumFunctionOnSet(sizes, Same(k))
    BY <2>2, <2>4, SizesSumAre DEF sizes
  <2>6. NumbersOf(s, Same(k)) = SumFunctionOnSet(numbers, Same(k))
    BY <2>2, <2>4, NumbersSumAre DEF numbers
  <2>7. /\ SumFunctionOnSet(sizes, Same(k)) \in Nat
        /\ SumFunctionOnSet(numbers, Same(k)) \in Nat
    <3>1. \A i \in Same(k) : sizes[i] \in Nat /\ numbers[i] \in Nat
      BY <1>3, <2>1
    <3> QED BY <2>2, <3>1, SumOfNaturals
  <2> QED BY <2>3, <2>5, <2>6, <2>7
<1>7. DOMAIN R = K
  BY <1>4
<1> DEFINE s1 == RecordValues(sizes, s, merge, n, count)
           s2 == RecordValues(numbers, s, merge, n, count)
<1>8. /\ Adds(s1, K) /\ SumFunctionOnSet(s1, K) = SumFunctionOnSet(sizes, D)
      /\ Adds(s2, K) /\ SumFunctionOnSet(s2, K) = SumFunctionOnSet(numbers, D)
  BY <1>3, ValuesAddUp DEF D
<1>9. \A k \in K : /\ s1[k] = SumFunctionOnSet(sizes, Same(k))
                   /\ s2[k] = SumFunctionOnSet(numbers, Same(k))
  BY DEF RecordValues, D
<1>10. \A k \in K : SizeValues(R)[k] = s1[k] /\ NumberValues(R)[k] = s2[k]
  <2>1. \A k \in K : SizeValues(R)[k] = R[k].size /\ NumberValues(R)[k] = R[k].n_allocations
    BY <1>7 DEF SizeValues, NumberValues
  <2> HIDE DEF K, Same, s1, s2
  <2> QED BY <1>6, <1>9, <2>1
<1>11. Sizes(R) = SumFunctionOnSet(SizeValues(R), K) /\ Counts(R) = SumFunctionOnSet(NumberValues(R), K)
  <2>1. \A k \in DOMAIN R : R[k].size \in Int /\ R[k].n_allocations \in Int
    <3> HIDE DEF K, Same, count
    <3>1. \A k \in K : R[k].size \in Nat /\ R[k].n_allocations \in Nat
      BY <1>6
    <3>2. Nat \subseteq Int
      OBVIOUS
    <3> QED BY <1>7, <3>1, <3>2
  <2> HIDE DEF count
  <2> QED BY <1>1, <1>7, <2>1, SizesAre, CountsAre
<1> HIDE DEF K, s1, s2
<1>12. /\ SumFunctionOnSet(SizeValues(R), K) = SumFunctionOnSet(s1, K)
       /\ SumFunctionOnSet(NumberValues(R), K) = SumFunctionOnSet(s2, K)
  BY <1>8, <1>10, SumSame
<1> QED BY <1>8, <1>11, <1>12 DEF D, R, sizes, numbers

-----------------------------------------------------------------------------
(* The heap after some events *)

\* Events whose allocations have sizes.
Sized(evs) ==
    /\ Len(evs) \in Nat /\ DOMAIN evs = 1..Len(evs)
    /\ \A i \in DOMAIN evs : evs[i].kind = "allocation" => evs[i].size \in Nat

\* The heap has the allocations that are not freed, and their bytes.
LEMMA HeapIs ==
    ASSUME NEW evs, Sized(evs)
    PROVE  /\ Live(evs) \in SUBSET DOMAIN evs /\ IsFiniteSet(Live(evs))
           /\ Cardinality(Live(evs)) \in Nat
           /\ \A i \in Live(evs) : evs[i].size \in Nat /\ SizeValues(evs)[i] = evs[i].size
           /\ Adds(SizeValues(evs), Live(evs))
           /\ HeapSize(evs) = SumFunctionOnSet(SizeValues(evs), Live(evs))
           /\ HeapSize(evs) \in Nat
<1> DEFINE L == Live(evs)
           f == SizeValues(evs)
<1>1. L \in SUBSET DOMAIN evs /\ \A i \in L : evs[i].kind = "allocation"
  BY DEF Live
<1> HIDE DEF L
<1>2. IsFiniteSet(DOMAIN evs)
  BY 1 \in Int, Len(evs) \in Int, FS_Interval DEF Sized
<1>3. IsFiniteSet(L) /\ Cardinality(L) \in Nat
  BY <1>1, <1>2, FS_Subset, FS_CardinalityType
<1>4. \A i \in L : evs[i].size \in Nat /\ f[i] = evs[i].size
  BY <1>1 DEF Sized, SizeValues
<1> HIDE DEF f
<1>5. Adds(f, L) /\ SumFunctionOnSet(f, L) \in Nat
  BY <1>3, <1>4, SumOfNaturals
<1>6. HeapSize(evs) = SizesOf(evs, L)
  BY DEF HeapSize, SizesOf, L
<1>7. SizesOf(evs, L) = SumFunctionOnSet(f, L)
  <2>1. \A i \in L : evs[i].size \in Int
    BY <1>4
  <2> QED BY <1>1, <1>3, <2>1, SizesSumAre DEF f
<1> QED BY <1>1, <1>3, <1>4, <1>5, <1>6, <1>7 DEF L, f

\* What the second pass gives, after so many events, is the heap after them,
\* whatever the order of the table and whether threads are merged.
LEMMA SnapshotAddsUp ==
    ASSUME NEW f, NEW n, NEW merge, NEW evs, evs = FirstEvents(f, n), Sized(evs),
           NEW rs \in SnapshotAllocations(f, n, merge)
    PROVE  /\ Sizes(rs) = HeapSize(evs)
           /\ Counts(rs) = Cardinality(Live(evs))
<1> DEFINE L == Live(evs)
           c == Cardinality(L)
           D == 1..c
<1>1. PICK p \in SetToSeqs(L) : rs = RecordsOf([k \in DOMAIN p |-> One(evs[p[k]])], merge)
  BY DEF SnapshotAllocations
<1>2. p \in [D -> L] /\ \A i, j \in D : i # j => p[i] # p[j]
  BY DEF SetToSeqs
<1>3. /\ IsFiniteSet(L) /\ c \in Nat /\ L \in SUBSET DOMAIN evs
      /\ \A i \in L : evs[i].size \in Nat /\ SizeValues(evs)[i] = evs[i].size
      /\ HeapSize(evs) = SumFunctionOnSet(SizeValues(evs), L)
  BY HeapIs
<1>4. IsFiniteSet(D) /\ Cardinality(D) = c
  BY <1>3, 1 \in Int, c \in Int, FS_Interval
<1>5. {p[k] : k \in D} = L
  <2>1. p \in Injection(D, L)
    BY <1>2 DEF Injection, IsInjective
  <2>2. p \in Surjection(D, L)
    <3> HIDE DEF D, L
    <3> QED BY <1>3, <1>4, <2>1, FS_Injection DEF c
  <2> HIDE DEF D, L
  <2> QED BY <1>2, <2>2 DEF Surjection
<1> DEFINE s == [k \in D |-> One(evs[p[k]])]
<1>6. rs = RecordsOf(s, merge)
  <2>1. DOMAIN p = D
    BY <1>2
  <2> QED BY <1>1, <2>1
<1>7. \A k \in D : s[k].size = evs[p[k]].size /\ s[k].n_allocations = 1 /\ p[k] \in L
  BY <1>2 DEF One
<1>8. DOMAIN s = 1..c
  OBVIOUS
<1> HIDE DEF s, L, c
<1>9. \A k \in D : s[k].size \in Nat /\ s[k].n_allocations \in Nat
  BY <1>3, <1>7
<1>10. /\ Sizes(rs) = SumFunctionOnSet(SizeValues(s), D)
       /\ Counts(rs) = SumFunctionOnSet(NumberValues(s), D)
  BY <1>3, <1>6, <1>8, <1>9, RecordsAddUp
<1> HIDE DEF D
<1>11. SumFunctionOnSet(SizeValues(s), D) = SumFunctionOnSet(SizeValues(evs), L)
  <2>1. \A k \in D : SizeValues(s)[k] = s[k].size
    BY <1>8 DEF SizeValues, D
  <2>2. Adds(SizeValues(s), D)
    BY <1>4, <1>9, <2>1 DEF Adds
  <2>3. \A k \in D : SizeValues(evs)[p[k]] = SizeValues(s)[k]
    BY <1>3, <1>7, <2>1
  <2>4. \A i, j \in D : p[i] = p[j] => i = j
    BY <1>2
  <2>5. SumFunctionOnSet(SizeValues(evs), {p[k] : k \in D}) = SumFunctionOnSet(SizeValues(s), D)
    BY <2>2, <2>3, <2>4, SumOfImage
  <2> QED BY <1>5, <2>5
<1>12. SumFunctionOnSet(NumberValues(s), D) = c
  <2>1. \A k \in D : NumberValues(s)[k] = 1
    BY <1>7, <1>8 DEF NumberValues, D
  <2> QED BY <1>4, <2>1, SumOfOnes
<1> QED BY <1>3, <1>10, <1>11, <1>12 DEF L, c

\* The greatest of some numbers is the one that no other exceeds.
LEMMA MaxIs ==
    ASSUME NEW S \in SUBSET Int, NEW m \in S, \A x \in S : x <= m
    PROVE  Max(S) = m
<1>1. \A y \in S : m >= y
  OBVIOUS
<1>2. Max(S) \in S /\ \A y \in S : Max(S) >= y
  BY <1>1, Zenon DEF Max
<1>3. PICK x \in S : x = Max(S) /\ \A y \in S : x >= y
  BY <1>2
<1>4. m \in Int /\ x \in Int /\ x >= m /\ x <= m
  BY <1>3
<1> QED BY <1>3, <1>4

\* Nothing is on the heap before the first event.
LEMMA NoHeap == HeapSize(<<>>) = 0
<1>1. Sized(<<>>)
  BY DEF Sized
<1>2. Live(<<>>) = {}
  BY <1>1, HeapIs
<1>3. HeapSize(<<>>) = SumFunctionOnSet(SizeValues(<<>>), {})
  BY <1>1, <1>2, HeapIs
<1> QED BY <1>3, SumOfNothing

\* The first of some events have sizes as they all do.
LEMMA SizedPart ==
    ASSUME NEW X, NEW evs \in Seq(X), Sized(evs), NEW n \in 0..Len(evs)
    PROVE  Sized(SubSeq(evs, 1, n))
<1>1. /\ Len(SubSeq(evs, 1, n)) = n /\ DOMAIN SubSeq(evs, 1, n) = 1..n
      /\ \A i \in 1..n : SubSeq(evs, 1, n)[i] = evs[i]
  OBVIOUS
<1> QED BY <1>1 DEF Sized

HeapAfter(evs, n) == HeapSize(SubSeq(evs, 1, n))
AtPeak(evs, peak) == {n \in DOMAIN evs : HeapAfter(evs, n) = peak}

\* The peak of some events is the heap after one of them, which has the index
\* that is given with it.
LEMMA PeakIs ==
    ASSUME NEW X, NEW evs \in Seq(X), Sized(evs), Len(evs) > 0
    PROVE  /\ HighWatermark(evs).index + 1 \in 1..Len(evs)
           /\ HeapSize(SubSeq(evs, 1, HighWatermark(evs).index + 1))
                = HighWatermark(evs).peak_memory
<1> DEFINE N == 0..Len(evs)
           S == {HeapAfter(evs, n) : n \in N}
           peak == HighWatermark(evs).peak_memory
           there == AtPeak(evs, peak)
           f == [n \in N |-> HeapAfter(evs, n)]
           id == [n \in there |-> n]
<1>1. \A n \in N : HeapAfter(evs, n) \in Nat
  BY SizedPart, HeapIs DEF HeapAfter
<1>2. HeapAfter(evs, 0) = 0
  <2>1. SubSeq(evs, 1, 0) = <<>>
    OBVIOUS
  <2> QED BY <2>1, NoHeap DEF HeapAfter
<1>3. peak = Max(S) /\ HighWatermark(evs).index = IF there = {} THEN 0 ELSE Max(there) - 1
  BY DEF HighWatermark, HeapAfter, AtPeak
<1> HIDE DEF peak
<1>4. IsFiniteSet(N) /\ N # {}
  <2>1. 0 \in Int /\ Len(evs) \in Int /\ 0 \in N
    OBVIOUS
  <2> QED BY <2>1, FS_Interval
<1>5. PICK m \in N : \A n \in N : HeapAfter(evs, n) <= HeapAfter(evs, m)
  <2>1. \A n \in N : f[n] = HeapAfter(evs, n) /\ f[n] \in Int
    BY <1>1
  <2> HIDE DEF f, N
  <2>2. \A n \in N : f[n] \in Int
    BY <2>1
  <2>3. \E m \in N : \A n \in N : f[n] <= f[m]
    BY <1>4, <2>2, Greatest
  <2> QED BY <2>1, <2>3
<1>6. peak = HeapAfter(evs, m)
  <2>1. S \in SUBSET Int /\ HeapAfter(evs, m) \in S /\ \A x \in S : x <= HeapAfter(evs, m)
    <3> HIDE DEF N
    <3> QED BY <1>1, <1>5
  <2> HIDE DEF S
  <2> QED BY <1>3, <2>1, MaxIs
<1>7. DOMAIN evs = 1..Len(evs) /\ Len(evs) \in Nat
  OBVIOUS
<1>8. there # {}
  <2>1. CASE m = 0
    <3>1. 1 \in N /\ 1 \in DOMAIN evs
      BY <1>7
    <3>2. HeapAfter(evs, 1) = peak
      <4>1. HeapAfter(evs, 1) <= 0 /\ HeapAfter(evs, 1) \in Nat
        BY <1>1, <1>2, <1>5, <2>1, <3>1
      <4> QED BY <1>2, <1>6, <2>1, <4>1
    <3> QED BY <3>1, <3>2 DEF AtPeak
  <2>2. CASE m # 0
    <3>1. m \in DOMAIN evs
      BY <1>7, <2>2
    <3> QED BY <1>6, <3>1 DEF AtPeak
  <2> QED BY <2>1, <2>2
<1>9. there \in SUBSET DOMAIN evs /\ IsFiniteSet(there) /\ there \in SUBSET Int
  <2>1. there \in SUBSET N /\ there \in SUBSET DOMAIN evs
    BY <1>7 DEF AtPeak
  <2> HIDE DEF there
  <2> QED BY <1>4, <2>1, FS_Subset
<1> HIDE DEF there
<1>10. PICK k \in there : \A n \in there : n <= k
  <2>1. \A n \in there : id[n] = n /\ id[n] \in Int
    BY <1>9
  <2> HIDE DEF id
  <2>2. \A n \in there : id[n] \in Int
    BY <2>1
  <2>3. \E k \in there : \A n \in there : id[n] <= id[k]
    BY <1>8, <1>9, <2>2, Greatest
  <2> QED BY <2>1, <2>3
<1>11. Max(there) = k
  BY <1>9, <1>10, MaxIs
<1>12. HighWatermark(evs).index + 1 = k
  BY <1>3, <1>7, <1>8, <1>9, <1>11
<1>13. k \in 1..Len(evs) /\ HeapSize(SubSeq(evs, 1, k)) = peak
  BY <1>7, <1>9 DEF there, AtPeak, HeapAfter
<1> QED BY <1>12, <1>13 DEF peak

-----------------------------------------------------------------------------
(* The passes over a file of all allocations *)

\* What the reader of such a file has found in its first pass still holds of what
\* is in the file.
Passed(r, f) ==
    /\ r.format = "all" /\ r.n_allocations \in 0..Len(Events(f))
    /\ r.high_watermark = HighWatermark(FirstEvents(f, r.n_allocations))

\* The first pass finds all the events there are.
LEMMA FirstPassIs ==
    ASSUME NEW X, NEW f \in Seq(X), \A i \in DOMAIN f : ~IsAggregated(f[i]), NEW max
    PROVE  Passed(FirstPass(f, "all", max), f)
<1> DEFINE n == Len(Events(f))
           r == FirstPass(f, "all", max)
<1>1. Events(f) \in Seq(X)
  BY EventsAre
<1>2. Len(Selected(f, AggregatedPlaces(f))) = 0
  <2>1. AggregatedPlaces(f) = {}
    BY DEF AggregatedPlaces
  <2> QED BY <2>1, SelectedIs, FS_EmptySet
<1>3. r.format = "all" /\ r.high_watermark = HighWatermark(Events(f))
  BY DEF FirstPass
<1>4. r.n_allocations = n + Len(Selected(f, AggregatedPlaces(f)))
  BY DEF FirstPass, AggregatedPlaces
<1>5. n \in Nat /\ r.n_allocations = n
  BY <1>1, <1>2, <1>4
<1>6. FirstEvents(f, n) = Events(f)
  <2>1. FirstEvents(f, n) = SubSeq(Events(f), 1, n)
    BY <1>5, FirstEventsAre
  <2> HIDE DEF n
  <2> QED BY <1>1, <2>1 DEF n
<1> QED BY <1>3, <1>5, <1>6 DEF Passed

\* It does so when more is written.
LEMMA PassedStays ==
    ASSUME NEW X, NEW f \in Seq(X), NEW e \in X, NEW r, Passed(r, f)
    PROVE  /\ Passed(r, Append(f, e))
           /\ FirstEvents(Append(f, e), r.n_allocations) = FirstEvents(f, r.n_allocations)
BY FirstEventsStay DEF Passed

\* The second pass gives what the first one has found: the peak, or what was
\* not freed.
LEMMA SecondPassAddsUp ==
    ASSUME NEW f \in Seq(Writable), NEW r, Passed(r, f), NEW merge, NEW rs
    PROVE  /\ rs \in get_leaked_allocation_records(r, f, merge) =>
                /\ Sizes(rs) = HeapSize(FirstEvents(f, r.n_allocations))
                /\ Counts(rs) = Cardinality(Live(FirstEvents(f, r.n_allocations)))
           /\ rs \in get_high_watermark_allocation_records(r, f, merge) /\ r.n_allocations > 0 =>
                Sizes(rs) = r.high_watermark.peak_memory
<1> DEFINE n == r.n_allocations
           evs == FirstEvents(f, n)
           m == HighWatermark(evs).index + 1
<1>1. n \in 0..Len(Events(f)) /\ r.format # "aggregated" /\ r.high_watermark = HighWatermark(evs)
  BY DEF Passed
<1>2. evs \in Seq(Writable) /\ Len(evs) = n
  BY <1>1, FirstEventsAre
<1> HIDE DEF n
<1>3. Sized(evs)
  <2>1. \A i \in 1..Len(evs) : evs[i] \in Writable
    <3> HIDE DEF evs
    <3> QED BY <1>2
  <2>2. DOMAIN evs = 1..Len(evs) /\ Len(evs) \in Nat
    <3> HIDE DEF evs
    <3> QED BY <1>2
  <2> HIDE DEF evs
  <2> QED BY <2>1, <2>2, WritesAssumption DEF Sized
<1>4. ASSUME rs \in get_leaked_allocation_records(r, f, merge)
      PROVE  Sizes(rs) = HeapSize(evs) /\ Counts(rs) = Cardinality(Live(evs))
  <2>1. rs \in SnapshotAllocations(f, n, merge)
    BY <1>1, <1>4 DEF get_leaked_allocation_records, n
  <2> QED BY <1>3, <2>1, SnapshotAddsUp
<1>5. ASSUME rs \in get_high_watermark_allocation_records(r, f, merge), n > 0
      PROVE  Sizes(rs) = r.high_watermark.peak_memory
  <2>1. rs \in SnapshotAllocations(f, m, merge)
    BY <1>1, <1>5 DEF get_high_watermark_allocation_records
  <2>2. m \in 1..n /\ HeapSize(SubSeq(evs, 1, m)) = HighWatermark(evs).peak_memory
    <3> HIDE DEF evs
    <3> QED BY <1>2, <1>3, <1>5, PeakIs
  <2> HIDE DEF m
  <2>3. m \in 0..n /\ FirstEvents(f, m) = SubSeq(evs, 1, m)
    BY <1>1, <2>2, FirstOfFirst
  <2>4. Sized(FirstEvents(f, m))
    <3> HIDE DEF evs
    <3> QED BY <1>2, <1>3, <2>3, SizedPart
  <2>5. Sizes(rs) = HeapSize(FirstEvents(f, m))
    BY <2>1, <2>4, SnapshotAddsUp
  <2> QED BY <1>1, <2>2, <2>3, <2>5
<1> QED BY <1>4, <1>5 DEF n

-----------------------------------------------------------------------------
(* The two passes of a command *)

\* A capture of all allocations has no records of the other format.
NoAggregates == format = "all" => \A i \in DOMAIN file : ~IsAggregated(file[i])

\* The reader is there, and is to be read from.
Reads == pc = "read" \/ (pc \in {"output", "render"} /\ command.name \in {"gprof2dot", "csv"})

\* The inductive invariant.
PassInv ==
    /\ NoAggregates
    /\ pc \in {"start", "validate", "open"} => ~HasRecords
    /\ HasRecords => command \in CommandLines
    /\ (Reads \/ HasRecords) /\ format = "all" => Passed(reader, file)
    /\ ReportIsOfFirstPass

\* The first step, and the steps before the file is read.
LEMMA PassInit == ASSUME ReportInit PROVE PassInv
BY DEF ReportInit, PassInv, NoAggregates, HasRecords, ReportIsOfFirstPass, Reads

\* What the report is made of stays as it is.
LEMMA PassKept ==
    ASSUME PassInv, OutputInv,
           format' = format, file' = file, reader' = reader, records' = records,
           command' = command \/ ~HasRecords,
           pc' \in {"start", "validate", "open"} => ~HasRecords,
           Reads' => Reads
    PROVE  PassInv'
<1> USE DEF PassInv
<1>1. NoAggregates' /\ (HasRecords' <=> HasRecords)
  BY DEF NoAggregates, HasRecords
<1>2. ReportIsOfFirstPass'
  <2>1. CASE HasRecords
    <3>1. command' = command
      BY <2>1
    <3> QED BY <3>1, <1>1 DEF ReportIsOfFirstPass, FirstEventsRead
  <2>2. CASE ~HasRecords
    BY <1>1, <2>2 DEF ReportIsOfFirstPass
  <2> QED BY <2>1, <2>2
<1> QED BY <1>1, <1>2

\* The steps of a command that neither open the file nor take records from it.
LEMMA OtherStepsPass ==
    ASSUME PassInv, OutputInv,
           \/ \E c \in CommandLines : Run(c) \/ RunCell(c) \/ RunProgram(c)
           \/ Validate \/ NoSuchFile \/ FailToOpen \/ FailToReopen
           \/ ReadStatistics \/ RenderHistogram \/ OpenOutput \/ Render \/ FailToWrite
           \/ validate_target_file \/ CreateOutput \/ ScriptEnds
           \/ SomeoneWritesOutput \/ UNCHANGED reportVars
    PROVE  PassInv'
<1> USE DEF capture, Goto, Exits
<1>1. CASE \E c \in CommandLines : Run(c) \/ RunCell(c) \/ RunProgram(c)
  <2>1. pc = "start" /\ ~HasRecords
    BY <1>1 DEF Run, RunCell, RunProgram, PassInv
  <2>2. /\ format' = format /\ file' = file /\ reader' = reader /\ records' = records
        /\ pc' \in {"validate", "done", "open", "target"}
    BY <1>1 DEF Run, RunCell, RunProgram
  <2> QED BY <2>1, <2>2, PassKept DEF Reads
<1>2. CASE Validate \/ NoSuchFile \/ FailToOpen \/ FailToReopen \/ OpenOutput \/ Render \/ FailToWrite
           \/ validate_target_file \/ CreateOutput \/ ScriptEnds \/ SomeoneWritesOutput
  <2>1. /\ format' = format /\ file' = file /\ reader' = reader /\ records' = records
        /\ command' = command
    BY <1>2 DEF Validate, NoSuchFile, FailToOpen, FailToReopen, OpenOutput, Render, FailToWrite,
                validate_target_file, CreateOutput, ScriptEnds, SomeoneWritesOutput
  <2>2. /\ pc' \in {"start", "validate", "open"} => pc = pc' \/ pc = "validate"
        /\ pc' = "read" => pc = "read"
        /\ pc' \in {"output", "render"} => pc = pc' \/ pc = "output"
    BY <1>2 DEF Validate, NoSuchFile, FailToOpen, FailToReopen, OpenOutput, Render, FailToWrite,
                validate_target_file, CreateOutput, ScriptEnds, SomeoneWritesOutput
  <2>3. Reads' => Reads
    BY <2>1, <2>2 DEF Reads
  <2>4. pc' \in {"start", "validate", "open"} => ~HasRecords
    BY <2>2 DEF PassInv
  <2> QED BY <2>1, <2>3, <2>4, PassKept
<1>3. CASE ReadStatistics \/ RenderHistogram
  <2>1. /\ format' = format /\ file' = file /\ reader' = reader /\ records' = records
        /\ command' = command /\ command.name = "stats"
        /\ pc' \in {"histogram", "output", "render", "done"}
    BY <1>3 DEF ReadStatistics, RenderHistogram, OutputInv, Named
  <2>2. ~Reads'
    BY <2>1 DEF Reads
  <2> QED BY <2>1, <2>2, PassKept
<1>4. CASE UNCHANGED reportVars
  BY <1>4, PassKept DEF reportVars, Reads, PassInv
<1> QED BY <1>1, <1>2, <1>3, <1>4

\* The file is read for the first time before there are records.
LEMMA OpenReaderPasses == ASSUME PassInv, OutputInv, OpenReader PROVE PassInv'
<1> USE DEF PassInv, OpenReader
<1>1. /\ pc = "open" /\ ~HasRecords /\ format' = format /\ file' = file /\ records' = records
      /\ reader' = FirstPass(file, format, command.max_memory_records) /\ pc' \in {"output", "read"}
  BY DEF Goto, capture
<1>2. NoAggregates' /\ ~HasRecords'
  BY <1>1 DEF NoAggregates, HasRecords
<1>3. format = "all" => Passed(reader', file)
  BY <1>1, FirstPassIs DEF NoAggregates, OutputInv, OutputIsSafe, ReportTypeOK
<1> QED BY <1>1, <1>2, <1>3 DEF ReportIsOfFirstPass

\* More is written, which the report is not of.
LEMMA WriteRecordPasses == ASSUME PassInv, OutputInv, WriteRecord PROVE PassInv'
<1> USE DEF PassInv, WriteRecord
<1>1. PICK e \in Writes[format][Len(file) + 1] : file' = Append(file, e)
  OBVIOUS
<1>2. format \in Formats /\ file \in Seq(Writable) /\ Len(file) + 1 \in 1..Len(Writes[format])
      /\ Writes[format] \in Seq(SUBSET Writable)
  BY WritesAssumption DEF OutputInv, OutputIsSafe, ReportTypeOK
<1>3. e \in Writable /\ e \in UNION Range(Writes[format])
  BY <1>1, <1>2 DEF Range
<1>4. NoAggregates'
  <2> SUFFICES ASSUME format = "all", NEW i \in DOMAIN file' PROVE ~IsAggregated(file'[i])
    BY DEF NoAggregates
  <2>1. ~IsAggregated(e)
    BY <1>2, <1>3, WritesAssumption DEF IsAggregated
  <2>2. file'[i] = e \/ (i \in DOMAIN file /\ file'[i] = file[i])
    BY <1>1, <1>2
  <2> QED BY <2>1, <2>2 DEF NoAggregates
<1>5. /\ format' = format /\ reader' = reader /\ records' = records /\ command' = command /\ pc' = pc
      /\ (Reads' <=> Reads) /\ (HasRecords' <=> HasRecords)
  BY DEF Reads, HasRecords
<1>6. Passed(reader, file) =>
        /\ Passed(reader, file')
        /\ FirstEvents(file', reader.n_allocations) = FirstEvents(file, reader.n_allocations)
  BY <1>1, <1>2, <1>3, PassedStays
<1>7. ReportIsOfFirstPass'
  BY <1>5, <1>6 DEF ReportIsOfFirstPass, FirstEventsRead
<1> QED BY <1>4, <1>5, <1>6, <1>7

\* The records of a second pass, with the options of the command.
Leaked(merge) == get_leaked_allocation_records(reader, file, merge)
AtHighWatermark(merge) == get_high_watermark_allocation_records(reader, file, merge)

\* The file is read for the second time.
LEMMA RecordsPass ==
    ASSUME PassInv, OutputInv, Reads, command \in CommandLines,
           format' = format, file' = file, reader' = reader, command' = command,
           pc' \notin {"start", "validate", "open"},
           command.threshold < 0 /\ ~command.temporal =>
               IF command.leaks THEN \E merge : records' \in Leaked(merge)
               ELSE \E merge : records' \in AtHighWatermark(merge)
    PROVE  PassInv'
<1> USE DEF PassInv
<1>1. NoAggregates'
  BY DEF NoAggregates
<1>2. format = "all" => Passed(reader, file)
  OBVIOUS
<1>3. ReportIsOfFirstPass'
  <2> SUFFICES ASSUME format = "all", command.threshold < 0, ~command.temporal
               PROVE  ReportIsOfFirstPass'
    BY DEF ReportIsOfFirstPass
  <2>1. file \in Seq(Writable) /\ Passed(reader, file)
    BY <1>2 DEF OutputInv, OutputIsSafe, ReportTypeOK
  <2>2. CASE command.leaks
    <3>1. PICK merge : records' \in get_leaked_allocation_records(reader, file, merge)
      BY <2>2 DEF Leaked
    <3>2. /\ Sizes(records') = HeapSize(FirstEventsRead)
          /\ Counts(records') = Cardinality(Live(FirstEventsRead))
      BY <2>1, <3>1, SecondPassAddsUp DEF FirstEventsRead
    <3> QED BY <2>2, <3>2 DEF ReportIsOfFirstPass, FirstEventsRead
  <2>3. CASE ~command.leaks
    <3>1. PICK merge : records' \in get_high_watermark_allocation_records(reader, file, merge)
      BY <2>3 DEF AtHighWatermark
    <3>2. reader.n_allocations > 0 => Sizes(records') = reader.high_watermark.peak_memory
      BY <2>1, <3>1, SecondPassAddsUp
    <3> QED BY <2>3, <3>2 DEF ReportIsOfFirstPass
  <2> QED BY <2>2, <2>3
<1> QED BY <1>1, <1>2, <1>3

\* Each command that reads records asks for those its options name.
LEMMA ReadPasses ==
    ASSUME PassInv, OutputInv,
           ReadToWrite \/ ReadCell \/ RenderTransform \/ ReadTree \/ ReadSummary
    PROVE  PassInv'
<1>1. /\ format' = format /\ file' = file /\ reader' = reader /\ command' = command
      /\ pc' \in {"output", "render", "done"}
  BY DEF ReadToWrite, ReadCell, RenderTransform, ReadTree, ReadSummary, Reports, Goto, Exits, capture
<1>2. Reads /\ pc # "start"
  BY DEF ReadToWrite, ReadCell, RenderTransform, ReadTree, ReadSummary, Reads, Transforms
<1>3. command \in CommandLines
  BY <1>2 DEF OutputInv, Named
<1>4. ASSUME ReadToWrite \/ ReadCell \/ RenderTransform, command.threshold < 0, ~command.temporal
      PROVE  IF command.leaks THEN records' \in Leaked(command.merge_threads)
             ELSE records' \in AtHighWatermark(command.merge_threads)
  <2>1. records' \in Records
    BY <1>4 DEF ReadToWrite, ReadCell, RenderTransform, Reports
  <2>2. ~(command.threshold >= 0)
    BY <1>3, <1>4, CommandAssumption
  <2> QED BY <1>4, <2>1, <2>2 DEF Records, Leaked, AtHighWatermark
<1>5. ASSUME ReadTree, command.threshold < 0
      PROVE  ~command.leaks /\ records' \in AtHighWatermark(FALSE)
  <2>1. ~(command.threshold >= 0)
    BY <1>3, <1>5, CommandAssumption
  <2> QED BY <1>3, <1>5, <2>1, CommandAssumption DEF ReadTree, Reports, AtHighWatermark
<1>6. ASSUME ReadSummary, command.threshold < 0
      PROVE  ~command.leaks /\ records' \in AtHighWatermark(TRUE)
  <2>1. ~(command.threshold >= 0)
    BY <1>3, <1>6, CommandAssumption
  <2> QED BY <1>3, <1>6, <2>1, CommandAssumption DEF ReadSummary, Reports, AtHighWatermark
<1> QED BY <1>1, <1>2, <1>3, <1>4, <1>5, <1>6, RecordsPass

\* The invariant of the reports.
THEOREM PassInvariance == ReportSpec => []PassInv
<1>1. ReportInit => PassInv
  BY PassInit
<1>2. PassInv /\ OutputInv /\ [ReportNext]_reportVars => PassInv'
  <2> SUFFICES ASSUME PassInv, OutputInv, [ReportNext]_reportVars PROVE PassInv'
    OBVIOUS
  <2>1. CASE OpenReader
    BY <2>1, OpenReaderPasses
  <2>2. CASE WriteRecord
    BY <2>2, WriteRecordPasses
  <2>3. CASE ReadToWrite \/ ReadCell \/ RenderTransform \/ ReadTree \/ ReadSummary
    BY <2>3, ReadPasses
  <2>4. CASE \/ \E c \in CommandLines : Run(c) \/ RunCell(c) \/ RunProgram(c)
             \/ Validate \/ NoSuchFile \/ FailToOpen \/ FailToReopen
             \/ ReadStatistics \/ RenderHistogram \/ OpenOutput \/ Render \/ FailToWrite
             \/ validate_target_file \/ CreateOutput \/ ScriptEnds
             \/ SomeoneWritesOutput \/ UNCHANGED reportVars
    BY <2>4, OtherStepsPass
  <2> QED BY <2>1, <2>2, <2>3, <2>4 DEF ReportNext, Command, Done
<1> QED BY <1>1, <1>2, OutputInvariance, PTL DEF ReportSpec

\* A report is of the file as it was when it was first read: what it shows adds
\* up to the peak that is written beside it, or to all that was not freed then,
\* however much the tracked process writes before the records are read.
THEOREM ReportsAreOfFirstPass == ReportSpec => []ReportIsOfFirstPass
<1>1. PassInv => ReportIsOfFirstPass
  BY DEF PassInv
<1> QED BY <1>1, PassInvariance, PTL
=============================================================================
