------------------------------- MODULE Attach -------------------------------
(***************************************************************************)
(* memray attach and memray detach: the commands, the thread that each of  *)
(* them has a debugger start in the target process, the script that runs   *)
(* there (PAYLOAD in commands/attach.py), and the timers that such scripts *)
(* start.  Scripts, timers, the exit of the target and its own use of      *)
(* Tracker meet in memray._last_tracker, memray._attach_event_threads and  *)
(* the one tracker that can be active.                                     *)
(*                                                                         *)
(* The GIL makes each access to a shared attribute a step, and             *)
(* tracker_creation_lock each __enter__ and __exit__.  A session on the    *)
(* other end of a socket is LiveSession; the debugger is external.         *)
(***************************************************************************)
EXTENDS Naturals

CONSTANTS
    Commands,       \* one member for each time that attach or detach is run
    Program,        \* the target, as the owner of a tracker
    None, Unset,    \* no tracker, no attribute
    MaxEvents       \* bound: the failures, and the trackers of the program's own

ASSUME AgentAssumption ==
    /\ Commands \cap {Program, None, Unset} = {}
    /\ None # Program /\ None # Unset
    /\ \A timers \in SUBSET Commands : timers # Unset

VARIABLES
    client, mode, error,        \* each command, and what its script sends back
    at,                         \* each agent's next step
    last_tracker, attach_event_threads,
    registered, canceled,       \* with atexit; the timers that were cancelled
    loaded,                     \* the scripts that have read the list that there is
    owner, writing,             \* whose tracker there is, and does it still write?
    intercepted,                \* does threading.Thread have the interceptors?
    program, events,
    overlap, late,  \* histories: were two agents at work at once, or a script while
                    \* the exit handlers ran?
    broken,         \* history: has something left its interceptors?
    untimed         \* history: the commands whose timer did not start, or failed

commands == <<client, mode>>
attributes == <<last_tracker, attach_event_threads, registered, canceled, loaded>>
tracking == <<owner, writing, intercepted, broken>>
target == <<program, events>>
vars == <<commands, error, at, attributes, tracking, target, overlap, late, untimed>>

Script(c) == <<c, "script">>
Timer(c) == <<c, "timer">>
Atexit == <<Program, "atexit">>
Agents == (Commands \X {"script", "timer"}) \cup {Atexit}
AgentSteps ==
    {"out", "connecting", "lost", "start", "get last", "forget last", "exit", "cancel timers",
     "create", "accepting", "enter", "set last", "set threads", "start timer", "append",
     "appending", "waiting", "done"}
Modes == {"ACTIVATE", "DEACTIVATE", "FOR_DURATION"}

Init ==
    /\ client = [c \in Commands |-> "idle"] /\ mode = [c \in Commands |-> "ACTIVATE"]
    /\ error = [c \in Commands |-> "none"]
    /\ at = [a \in Agents |-> "out"]
    /\ last_tracker = Unset /\ attach_event_threads = Unset
    /\ registered = FALSE /\ canceled = {} /\ loaded = {} /\ untimed = {}
    /\ owner = None /\ writing = FALSE /\ intercepted = FALSE
    /\ program = "running" /\ events = 0
    /\ overlap = FALSE /\ broken = FALSE /\ late = FALSE

\* Something happens that would not have to.
Happens == events < MaxEvents /\ events' = events + 1

Goes(a, step) == at' = [at EXCEPT ![a] = step]

-----------------------------------------------------------------------------
(* The commands *)

DebuggerFails(c) ==
    /\ client[c] = "idle"
    /\ Happens \/ (program = "gone" /\ UNCHANGED events)
    /\ client' = [client EXCEPT ![c] = "failed"]
    /\ UNCHANGED <<mode, error, at, attributes, tracking, program>>

\* inject has returned, and accept waits for the thread that was started.
Inject(c, m) ==
    /\ client[c] = "idle" /\ at[Script(c)] = "out" /\ program # "gone"
    /\ client' = [client EXCEPT ![c] = "accepting"] /\ mode' = [mode EXCEPT ![c] = m]
    /\ Goes(Script(c), "connecting")
    /\ UNCHANGED <<error, attributes, tracking, target>>

\* run_client has connected and read the script.
RunClient(c) ==
    /\ at[Script(c)] = "connecting" /\ program # "gone"
    /\ client' = [client EXCEPT ![c] = "waiting"]
    /\ Goes(Script(c), "start")
    /\ UNCHANGED <<mode, error, attributes, tracking, target>>

\* "memray attach failed!" goes to the target's stderr only.
CannotConnect(c) ==
    /\ at[Script(c)] = "connecting" /\ program # "gone" /\ Happens
    /\ Goes(Script(c), "lost")
    /\ UNCHANGED <<commands, error, attributes, tracking, program>>

\* Mutant: the socket is only closed by a script that fails.
AnswerError(c) ==
    /\ client[c] = "waiting" /\ at[Script(c)] = "done" /\ error[c] # "none"
    /\ client' = [client EXCEPT ![c] = "failed"]
    /\ UNCHANGED <<mode, error, at, attributes, tracking, target>>

\* recvall returns what run_client has sent before it closed the socket.
Answer(c) ==
    /\ client[c] = "waiting" /\ at[Script(c)] = "done"
    /\ client' = [client EXCEPT ![c] = IF error[c] = "none" THEN "succeeded" ELSE "failed"]
    /\ UNCHANGED <<mode, error, at, attributes, tracking, target>>

\* A target that is gone has sent nothing, which is taken for success.
HangUp(c) ==
    /\ client[c] = "waiting" /\ at[Script(c)] # "done" /\ program = "gone"
    /\ client' = [client EXCEPT ![c] = "succeeded"]
    /\ UNCHANGED <<mode, error, at, attributes, tracking, target>>

-----------------------------------------------------------------------------
(* deactivate_last_tracker, in whatever thread calls it *)

CommandsAnd(r) == UNCHANGED <<commands, target, r>>

AfterDeactivation(a) ==
    IF a[2] = "script" /\ mode[a[1]] # "DEACTIVATE" THEN "create" ELSE "done"

Fail(a, e) == error' = IF a[2] = "script" THEN [error EXCEPT ![a[1]] = e] ELSE error

GetLast(a) ==
    /\ at[a] = "get last"
    /\ IF last_tracker \in Commands
       THEN Goes(a, "forget last") ELSE Goes(a, AfterDeactivation(a))
    /\ CommandsAnd(<<error, attributes, tracking>>)

ForgetLast(a) ==
    /\ at[a] = "forget last" /\ Goes(a, "exit")
    /\ last_tracker' = None
    /\ CommandsAnd(<<error, attach_event_threads, registered, canceled, loaded, tracking>>)

\* Tracker.__exit__ destroys the tracker there is, whichever the local variable
\* has; without the interceptors it raises.
Destroy == owner' = None /\ writing' = FALSE /\ intercepted' = FALSE

Exit(a) ==
    /\ at[a] = "exit"
    /\ Destroy
    /\ IF intercepted THEN Goes(a, "cancel timers") /\ UNCHANGED error
                      ELSE Goes(a, "done") /\ Fail(a, "AttributeError")
    /\ CommandsAnd(<<attributes, broken>>)

\* Mutant: the timers are forgotten, and go on.
ForgetTimers(a) ==
    /\ at[a] = "cancel timers" /\ Goes(a, AfterDeactivation(a))
    /\ attach_event_threads' = Unset /\ loaded' = {}
    /\ CommandsAnd(<<error, last_tracker, registered, canceled, tracking>>)

\* The list is popped, and who has read it before may still append in time.
CancelTimers(a) ==
    /\ at[a] = "cancel timers" /\ Goes(a, AfterDeactivation(a))
    /\ \E inTime \in SUBSET loaded :
          canceled' = canceled \cup inTime \cup
             (IF attach_event_threads = Unset THEN {} ELSE attach_event_threads)
    /\ attach_event_threads' = Unset /\ loaded' = {}
    /\ CommandsAnd(<<error, last_tracker, registered, tracking>>)

Deactivate(a) == GetLast(a) \/ ForgetLast(a) \/ Exit(a) \/ CancelTimers(a)

-----------------------------------------------------------------------------
(* The script *)

Raise(c, e) == Goes(Script(c), "done") /\ Fail(Script(c), e)

\* Mutant: nothing is registered with atexit.
StartUnregistered(c) ==
    /\ at[Script(c)] = "start"
    /\ IF mode[c] = "DEACTIVATE" /\ last_tracker \notin Commands
       THEN Raise(c, "BareExceptionMessage")
       ELSE Goes(Script(c), "get last") /\ UNCHANGED error
    /\ CommandsAnd(<<attributes, tracking>>)

Start(c) ==
    /\ at[Script(c)] = "start"
    /\ registered' = (registered \/ last_tracker = Unset)
    /\ IF mode[c] = "DEACTIVATE" /\ last_tracker \notin Commands
       THEN Raise(c, "BareExceptionMessage")
       ELSE Goes(Script(c), "get last") /\ UNCHANGED error
    /\ CommandsAnd(<<last_tracker, attach_event_threads, canceled, loaded, tracking>>)

\* Tracker.__cinit__: a socket is waited for until the other end connects.
Create(c) ==
    /\ at[Script(c)] = "create"
    /\ \/ Goes(Script(c), "enter") /\ UNCHANGED <<error, events>>
       \/ Goes(Script(c), "accepting") /\ UNCHANGED <<error, events>>
       \/ Happens /\ Raise(c, "OSError")
    /\ UNCHANGED <<commands, program, attributes, tracking>>

Accept(c) ==
    /\ at[Script(c)] = "accepting" /\ Goes(Script(c), "enter")
    /\ CommandsAnd(<<error, attributes, tracking>>)

\* Tracker.__enter__ for o; what it raises, or nothing.
EnterRaises ==
    CASE writing -> "RuntimeError"
      [] ~writing /\ intercepted -> "AssertionError"
      [] OTHER -> "nothing"

Begin(o) == owner' = o /\ writing' = TRUE /\ intercepted' = TRUE /\ UNCHANGED broken

\* The constructor throws: the interceptors stay.
BeginFails ==
    /\ intercepted' = TRUE /\ broken' = TRUE /\ UNCHANGED <<owner, writing>>

Enter(c) ==
    /\ at[Script(c)] = "enter"
    /\ \/ EnterRaises # "nothing" /\ Raise(c, EnterRaises) /\ UNCHANGED <<tracking, events>>
       \/ EnterRaises = "nothing" /\ BeginFails /\ Happens /\ Raise(c, "IoError")
       \/ /\ EnterRaises = "nothing" /\ Begin(c)
          /\ Goes(Script(c), "set last") /\ UNCHANGED <<error, events>>
    /\ UNCHANGED <<commands, program, attributes>>

\* Mutant: the attribute is set when there is none.
SetLastOnce(c) ==
    /\ at[Script(c)] = "set last" /\ Goes(Script(c), "set threads")
    /\ last_tracker' = IF last_tracker = Unset THEN c ELSE last_tracker
    /\ CommandsAnd(<<error, attach_event_threads, registered, canceled, loaded, tracking>>)

SetLast(c) ==
    /\ at[Script(c)] = "set last" /\ Goes(Script(c), "set threads")
    /\ last_tracker' = c
    /\ CommandsAnd(<<error, attach_event_threads, registered, canceled, loaded, tracking>>)

SetThreads(c) ==
    /\ at[Script(c)] = "set threads"
    /\ Goes(Script(c), IF mode[c] = "FOR_DURATION" THEN "start timer" ELSE "done")
    /\ attach_event_threads' = {} /\ loaded' = {}
    /\ CommandsAnd(<<error, last_tracker, registered, canceled, tracking>>)

\* The system may have no thread for the timer: the tracker stays.
StartTimer(c) ==
    /\ at[Script(c)] = "start timer" /\ at[Timer(c)] = "out"
    /\ \/ /\ at' = [at EXCEPT ![Script(c)] = "append", ![Timer(c)] = "waiting"]
          /\ UNCHANGED <<error, events>>
       \/ Happens /\ Raise(c, "CannotStart")
    /\ UNCHANGED <<commands, program, attributes, tracking>>

LoadThreads(c) ==
    /\ at[Script(c)] = "append"
    /\ IF attach_event_threads = Unset
       THEN Raise(c, "AttributeError") /\ UNCHANGED loaded
       ELSE Goes(Script(c), "appending") /\ loaded' = loaded \cup {c} /\ UNCHANGED error
    /\ CommandsAnd(<<last_tracker, attach_event_threads, registered, canceled, tracking>>)

\* To a list that is no longer the attribute if somebody has popped or replaced it.
AppendTimer(c) ==
    /\ at[Script(c)] = "appending" /\ Goes(Script(c), "done")
    /\ attach_event_threads' =
          IF c \in loaded THEN attach_event_threads \cup {c} ELSE attach_event_threads
    /\ loaded' = loaded \ {c}
    /\ CommandsAnd(<<error, last_tracker, registered, canceled, tracking>>)

RunScript(c) ==
    \/ Start(c) \/ Deactivate(Script(c))
    \/ Create(c) \/ Enter(c) \/ SetLast(c) \/ SetThreads(c)
    \/ StartTimer(c) \/ LoadThreads(c) \/ AppendTimer(c)

\* Mutant: a timer that was cancelled runs its function.
ElapseAnyway(c) ==
    /\ at[Timer(c)] = "waiting" /\ Goes(Timer(c), "get last")
    /\ CommandsAnd(<<error, attributes, tracking>>)

\* threading.Timer.run.  What the timer prints first may raise, which ends it.
Elapse(c) ==
    /\ at[Timer(c)] = "waiting"
    /\ \/ Goes(Timer(c), IF c \in canceled THEN "done" ELSE "get last") /\ UNCHANGED events
       \/ c \notin canceled /\ Happens /\ Goes(Timer(c), "done")
    /\ UNCHANGED <<commands, program, error, attributes, tracking>>

RunTimer(c) == Elapse(c) \/ Deactivate(Timer(c))

-----------------------------------------------------------------------------
(* The target *)

\* A with block of the program's own.  When it raises, it never starts.
Own ==
    /\ program = "running" /\ Happens
    /\ EnterRaises = "nothing"
    /\ \/ Begin(Program) /\ program' = "tracking"
       \/ BeginFails /\ UNCHANGED program
    /\ UNCHANGED <<commands, error, at, attributes>>

\* Its end, which raises if somebody has ended the tracker already.
LeaveOwn ==
    /\ program = "tracking" /\ program' = "running"
    /\ Destroy
    /\ UNCHANGED <<commands, error, at, attributes, broken, events>>

\* The tracker cannot write any more; what was installed stays.
WriteFails ==
    /\ writing /\ program # "gone" /\ Happens
    /\ writing' = FALSE /\ broken' = (broken \/ owner = Program)
    /\ UNCHANGED <<commands, error, at, attributes, owner, intercepted, program>>

EndMain ==
    /\ program = "running" /\ program' = "joining"
    /\ UNCHANGED <<commands, error, at, attributes, tracking, events>>

\* threading._shutdown waits for the timers, which are no daemons.
JoinTimers ==
    /\ program = "joining"
    /\ \A c \in Commands : at[Timer(c)] \in {"out", "done"}
    /\ program' = "at exit" /\ Goes(Atexit, IF registered THEN "get last" ELSE "done")
    /\ UNCHANGED <<commands, error, attributes, tracking, events>>

Finalize ==
    /\ program = "at exit" /\ at[Atexit] = "done" /\ program' = "gone"
    /\ UNCHANGED <<commands, error, at, attributes, tracking, events>>

-----------------------------------------------------------------------------
Steps(c) ==
    \/ DebuggerFails(c) \/ (\E m \in Modes : Inject(c, m)) \/ RunClient(c) \/ CannotConnect(c)
    \/ Answer(c) \/ HangUp(c)
    \/ program # "gone" /\ (RunScript(c) \/ Accept(c) \/ RunTimer(c))
Shutdown == JoinTimers \/ (program = "at exit" /\ Deactivate(Atexit)) \/ Finalize
Target == Own \/ LeaveOwn \/ WriteFails \/ EndMain \/ Shutdown

\* The agents that are in the middle of a deactivation or an activation.
Busy == {a \in Agents : at[a] \notin {"out", "connecting", "lost", "start", "waiting", "done"}}

\* The step of a timer, or of the script that starts it, that leaves c without one.
Untimed(c) ==
    \/ at[Script(c)] = "start timer" /\ at'[Script(c)] = "done"
    \/ at[Timer(c)] = "waiting" /\ c \notin canceled /\ at'[Timer(c)] = "done"

Next ==
    /\ (\E c \in Commands : Steps(c)) \/ Target
    /\ overlap' = (overlap \/ \E a, b \in Busy' : a # b)
    /\ late' = (late \/ (program' = "at exit" /\ \E c \in Commands : Script(c) \in Busy'))
    /\ untimed' = untimed \cup {c \in Commands : Untimed(c)}

Spec == Init /\ [][Next]_vars

\* Threads that can run do, timers elapse, and a target that has ended its own
\* work goes.  Nobody has to connect to a socket that a tracker waits on.
Fairness ==
    /\ \A c \in Commands :
          /\ WF_client(RunClient(c) \/ Answer(c) \/ HangUp(c))
          /\ WF_at(program # "gone" /\ RunScript(c))
          /\ WF_at(program # "gone" /\ RunTimer(c))
    /\ WF_<<program, at>>(Shutdown)
FairSpec == Spec /\ Fairness

-----------------------------------------------------------------------------
\* Types, and what goes together.
TypeOK ==
    /\ client \in [Commands -> {"idle", "accepting", "waiting", "succeeded", "failed"}]
    /\ mode \in [Commands -> Modes]
    /\ at \in [Agents -> AgentSteps]
    /\ last_tracker \in Commands \cup {None, Unset}
    /\ attach_event_threads = Unset \/ attach_event_threads \subseteq Commands
    /\ owner \in Commands \cup {Program, None}
    /\ writing => owner # None
    /\ owner # None => intercepted
    /\ intercepted => owner # None \/ broken

Quiet == Busy = {}

\* An attached tracker can be ended, whatever has overlapped: when nothing is under
\* way there is something that detach, the next attach and the exit of the target
\* find, and to call its __exit__ ends the tracker even if it is another's.
NoOrphanTracker == Quiet /\ owner \in Commands => last_tracker \in Commands

\* An exception that says nothing to its user comes from agents that overlapped,
\* or from interceptors that a failed constructor or a tracker of the program
\* that cannot write has left.
FailureHasReason ==
    \A c \in Commands : error[c] \in {"AttributeError", "AssertionError"} => overlap \/ broken

\* When no two agents have ever been at work at once: what detach would end is
\* the tracker there is, and an attached tracker is what detach would end; a script
\* that failed has left none; and there is a timer that will end the tracker, and
\* that detach would cancel, just for the one that has a duration.  A timer that
\* could not be started, or failed before it ended the tracker, is the exception.
QuietIsCoherent ==
    /\ TypeOK /\ FailureHasReason
    /\ Quiet /\ ~overlap =>
        /\ last_tracker \in Commands \/ owner \in Commands => owner = last_tracker
        /\ \A c \in Commands :
              /\ error[c] # "none" => owner # c \/ c \in untimed
              /\ (at[Timer(c)] = "waiting" /\ c \notin canceled) <=>
                    (owner = c /\ mode[c] = "FOR_DURATION" /\ c \notin untimed)
              /\ owner = c =>
                    attach_event_threads =
                       IF mode[c] = "FOR_DURATION" /\ at[Timer(c)] # "out" THEN {c} ELSE {}

\* The target does not go with an attached tracker that nobody has ended, unless
\* a script was at work while the exit handlers ran.
ExitEndsTracker == program = "gone" /\ owner \in Commands => late

\* Agent a has called __exit__, and ended the tracker of o.
Ended(o, a) == at[a] = "exit" /\ at'[a] # "exit" /\ owner = o

\* The timer of one attach never ends the tracker of a later one, and no attach,
\* detach, timer or exit handler a tracker that the program has started itself;
\* but for one that got its turn late and ends what it finds.
TrackersOfOthersKept ==
    [][/\ \A c, o \in Commands : Ended(o, Timer(c)) /\ o # c => overlap
       /\ \A a \in Agents : Ended(Program, a) => overlap]_vars

\* A command ends, unless its thread cannot connect to it, the target goes
\* before that, or its tracker waits for somebody to connect to a socket; and
\* what attach has left in a target does not keep the target from ending.
CommandsEnd ==
    /\ \A c \in Commands :
          client[c] # "idle" ~> \/ client[c] \in {"succeeded", "failed"}
                               \/ at[Script(c)] \in {"lost", "accepting"}
                               \/ (at[Script(c)] = "connecting" /\ program = "gone")
    /\ program = "joining" ~> program = "gone"
=============================================================================
