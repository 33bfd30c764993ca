------------------------------ MODULE Programs ------------------------------
(***************************************************************************)
(* The programs of examples/ that drive one Bus: runner.cpp, which works   *)
(* until a signal ends it, basic.cpp, which works for five seconds, and    *)
(* builder.cpp, which calls step() a fixed number of times.  One of them   *)
(* runs, with its command line, its Bus and the kernel behind it, while    *)
(* signals arrive at any moment and the kernel returns what it likes.      *)
(*                                                                         *)
(* One statement of main() is one action; step() is two, as it may block.  *)
(* Ownership and callbacks are the subject of module Bus.                  *)
(***************************************************************************)
EXTENDS ErrorModel, Values

CONSTANTS
  Waits,      \* timeouts a program may pass to step(); 100 in the sources
  Rounds,     \* iterations of builder.cpp's loop; 20 in the source
  Ports,      \* numbers that may follow --tcp, 0 when the option is absent
  Returns,    \* what stdio_bus_start(), _stop() and _ingest() may return
  Counts,     \* what stdio_bus_get_stats() may fill in
  Nothing     \* no handle, no step in progress, no statistics

(* stdio_bus_stats_t *)
KernelStats == [{Listed[i] : i \in 1..8} -> Nat]

ASSUME ProgramsAssumption ==
  /\ Waits \subseteq Nat /\ Rounds \in Nat /\ Ports \subseteq Nat
  /\ Returns \subseteq Int /\ Counts \subseteq KernelStats
  /\ Nothing \notin Int /\ Nothing \notin KernelStats

VARIABLES
  main,       \* the program that runs
  args,       \* argv, as runner.cpp parses it
  wait,       \* milliseconds it passes to step()
  at,         \* the statement main() is at
  rounds,     \* builder.cpp's loop counter
  late,       \* basic.cpp's five seconds are over
  g_running,  \* runner.cpp's flag
  handlers,   \* signals that have signal_handler() installed
  kernel,     \* state of the instance, Nothing when the handle is null
  listener,   \* listener of the instance: its mode and port
  workers,    \* the worker processes: "none", "running" or "ending"
  waiting,    \* timeout_ms of the stdio_bus_step() in progress
  shown,      \* the Stats that the program has to print
  said,       \* the messages it printed about failures and at its end
  counts,     \* history: what the kernel filled in for these Stats
  reported,   \* history: the kernel's codes behind the failures it printed
  status      \* what main() returns

input == <<main, args, wait>>
progress == <<at, rounds, late, waiting>>
signals == <<g_running, handlers>>
instance == <<kernel, listener, workers>>
history == <<counts, reported>>
output == <<shown, said, status, history>>
vars == <<input, progress, signals, instance, output>>

-----------------------------------------------------------------------------

Signals == {"SIGINT", "SIGTERM"}

Args == [help : BOOLEAN, config : BOOLEAN, tcp : Ports, unix : BOOLEAN]

NoArgs == [help |-> FALSE, config |-> TRUE, tcp |-> 0, unix |-> FALSE]

(* A wrong form of Runner, which a run puts in its place; so below. *)
RunnerHandlersLate ==
  [parse |-> "build", build |-> "check", check |-> "start", start |-> "SIGINT",
   SIGINT |-> "SIGTERM", SIGTERM |-> "loop", loop |-> "stop", stop |-> "stats",
   stats |-> "end", end |-> "leave"]

(* The statements of each main() that matter here, in their order. *)
Runner ==
  [parse |-> "build", build |-> "check", check |-> "SIGINT", SIGINT |-> "SIGTERM",
   SIGTERM |-> "start", start |-> "loop", loop |-> "stop", stop |-> "stats",
   stats |-> "end", end |-> "leave"]

Basic ==
  [build |-> "check", check |-> "start", start |-> "send", send |-> "loop",
   loop |-> "stats", stats |-> "stop", stop |-> "end", end |-> "leave"]

Builder ==
  [build |-> "check", check |-> "start", start |-> "send", send |-> "loop",
   loop |-> "stop", stop |-> "leave"]

Follows == [runner |-> Runner, basic |-> Basic, builder |-> Builder]

Proceed == at' = Follows[main][at]

Init ==
  /\ main \in {"runner", "basic", "builder"}
  /\ args \in IF main = "runner" THEN Args ELSE {NoArgs}
  /\ wait \in Waits
  /\ at = IF main = "runner" THEN "parse" ELSE "build"
  /\ rounds = 0 /\ late = FALSE /\ waiting = Nothing
  /\ g_running = TRUE /\ handlers = {}
  /\ kernel = Nothing
  /\ listener = [mode |-> KernelListen.NONE, port |-> 0]
  /\ workers = "none"
  /\ shown = Nothing /\ said = {} /\ status = 0
  /\ counts = Nothing /\ reported = {}

-----------------------------------------------------------------------------
(* What main() does before it starts the Bus                               *)

(* argv: --help and a missing --config end the program. *)
Parse ==
  /\ at = "parse"
  /\ IF args.help \/ ~args.config
     THEN /\ at' = "exited"
          /\ status' = IF args.help THEN 0 ELSE 1
          /\ said' = said \cup {[about |-> "usage", text |-> "usage"]}
     ELSE Proceed /\ UNCHANGED <<said, status>>
  /\ UNCHANGED <<input, rounds, late, waiting, signals, instance, shown, history>>

ListenerModeUnset ==
  [mode |-> ListenMode.None, port |-> to_port(args.tcp)]

(* listen_tcp(), listen_unix() or neither; the port is a uint16_t. *)
ListenerOption ==
  IF to_port(args.tcp) > 0
  THEN [mode |-> ListenMode.Tcp, port |-> to_port(args.tcp)]
  ELSE [mode |-> IF args.unix THEN ListenMode.Unix ELSE ListenMode.None, port |-> 0]

(* The constructor casts the mode; stdio_bus_create() may return NULL. *)
Build ==
  /\ at = "build"
  /\ kernel' \in {Nothing, KernelState.CREATED}
  /\ listener' = ListenerOption
  /\ Proceed
  /\ UNCHANGED <<input, rounds, late, waiting, signals, workers, output>>

(* if (!bus): operator bool tests impl_, which the constructor has set. *)
Check ==
  /\ at = "check"
  /\ Proceed
  /\ UNCHANGED <<input, rounds, late, waiting, signals, instance, output>>

(* std::signal(SIGINT, signal_handler) and the same for SIGTERM *)
Install ==
  /\ at \in Signals
  /\ handlers' = handlers \cup {at}
  /\ Proceed
  /\ UNCHANGED <<input, rounds, late, waiting, g_running, instance, output>>

-----------------------------------------------------------------------------
(* Calls of the Bus                                                        *)

(* impl_ && impl_->handle *)
Initialized == kernel # Nothing

(* Bus::state() *)
state == IF Initialized THEN kernel ELSE State.Stopped

is_running == state = State.Running

NotInitialized == Error(ErrorCode.Invalid, "Bus not initialized")

(* What start(), send() or stop() returns when the kernel returned rc. *)
Result(rc) == IF Initialized THEN from_c(rc) ELSE NotInitialized

(* What the program prints of a failure of a call: Error::message(). *)
Report(call, rc) ==
  /\ said' = said \cup {[about |-> call, text |-> Message(Result(rc))]}
  /\ reported' = IF Initialized THEN reported \cup {[about |-> call, code |-> rc]}
                  ELSE reported
  /\ UNCHANGED counts

ReportNothing == UNCHANGED <<said, history>>

(* Print the error and return 1. *)
GiveUp(call, rc) == at' = "leave" /\ status' = 1 /\ Report(call, rc)

StartUnguarded ==
  /\ at = "start"
  /\ kernel' = IF Initialized THEN KernelState.RUNNING ELSE kernel
  /\ workers' = "running"
  /\ Proceed
  /\ UNCHANGED <<input, rounds, late, waiting, signals, listener, output>>

(* start(): a failure, such as a port in use, leaves the kernel where it   *)
(* was or stopped.                                                         *)
Start ==
  /\ at = "start"
  /\ \E rc \in Returns :
       IF IsError(Result(rc))
       THEN /\ GiveUp("start", rc)
            /\ kernel' \in IF Initialized THEN {kernel, KernelState.STOPPED} ELSE {kernel}
            /\ UNCHANGED workers
       ELSE /\ kernel' = KernelState.RUNNING /\ workers' = "running"
            /\ Proceed /\ ReportNothing /\ UNCHANGED status
  /\ UNCHANGED <<input, rounds, late, waiting, signals, listener, shown>>

(* send(): basic.cpp prints the error, builder.cpp does not look at it. *)
Send ==
  /\ at = "send"
  /\ \E rc \in Returns :
       IF IsError(Result(rc)) /\ main = "basic" THEN Report("send", rc) ELSE ReportNothing
  /\ Proceed
  /\ UNCHANGED <<input, rounds, late, waiting, signals, instance, shown, status>>

(* The condition at the head of each loop. *)
GoesOnRegardless == main = "builder" => rounds < Rounds

GoesOn ==
  CASE main = "runner" -> g_running /\ is_running
    [] main = "basic" -> is_running
    [] main = "builder" -> rounds < Rounds

EnterStep ==
  /\ at = "loop" /\ GoesOn
  /\ at' = "step" /\ waiting' = to_int(wait)
  /\ UNCHANGED <<input, rounds, late, signals, instance, output>>

LeaveLoop ==
  /\ at = "loop" /\ ~GoesOn
  /\ Proceed
  /\ UNCHANGED <<input, rounds, late, waiting, signals, instance, output>>

(* After step(): builder.cpp counts, basic.cpp looks at the time. *)
StepReturns ==
  /\ at = "step"
  /\ waiting' = Nothing
  /\ rounds' = IF main = "builder" THEN rounds + 1 ELSE rounds
  /\ at' = IF main = "basic" /\ late THEN Follows[main].loop ELSE "loop"
  /\ UNCHANGED <<input, late, signals, instance, output>>

(* "Bus stopped" or "Stopped." *)
Stopped == [about |-> "end", text |-> "stopped"]

(* builder.cpp says nothing of stop(), basic.cpp also says "stopped". *)
SayStop(rc) ==
  IF main = "builder" \/ ~IsError(Result(rc)) THEN ReportNothing ELSE Report("stop", rc)

StopUnlooked ==
  /\ at = "stop"
  /\ \E rc \in Returns :
       IF is_running /\ ~IsError(Result(rc))
       THEN kernel' = KernelState.STOPPING /\ workers' = "ending"
       ELSE UNCHANGED <<kernel, workers>>
  /\ Proceed /\ ReportNothing
  /\ UNCHANGED <<input, rounds, late, waiting, signals, listener, shown, status>>

(* stop() begins the shutdown and returns, or fails. *)
Stop ==
  /\ at = "stop"
  /\ \E rc \in Returns :
       /\ SayStop(rc)
       /\ IF is_running /\ ~IsError(Result(rc))
          THEN kernel' = KernelState.STOPPING /\ workers' = "ending"
          ELSE UNCHANGED <<kernel, workers>>
  /\ Proceed
  /\ UNCHANGED <<input, rounds, late, waiting, signals, listener, shown, status>>

(* stats(), to be printed.  Without an instance all counters are 0. *)
PrintStats ==
  /\ at = "stats"
  /\ counts' \in IF Initialized THEN Counts ELSE {[f \in {Listed[i] : i \in 1..8} |-> 0]}
  /\ shown' = to_stats(counts')
  /\ Proceed
  /\ UNCHANGED <<input, rounds, late, waiting, signals, instance, said, reported,
                 status>>

(* The last line of basic.cpp and of runner.cpp *)
SayStopped ==
  /\ at = "end"
  /\ said' = said \cup {Stopped}
  /\ Proceed
  /\ UNCHANGED <<input, rounds, late, waiting, signals, instance, shown, status,
                 history>>

(* main() returns: ~Bus() stops what runs and destroys the instance, which *)
(* ends the workers at once.                                               *)
Leave ==
  /\ at = "leave"
  /\ kernel' = Nothing /\ workers' = "none"
  /\ at' = "exited"
  /\ UNCHANGED <<input, rounds, late, waiting, signals, listener, output>>

-----------------------------------------------------------------------------
(* The world around main()                                                 *)

Gone == at \in {"exited", "killed"}

(* A signal runs the handler or, where there is none, ends the process     *)
(* without a destructor; a kernel instance goes, its workers do not.       *)
Signal(s) ==
  /\ ~Gone
  /\ IF s \in handlers
     THEN g_running' = FALSE /\ UNCHANGED <<at, kernel>>
     ELSE at' = "killed" /\ kernel' = Nothing /\ UNCHANGED g_running
  /\ UNCHANGED <<input, rounds, late, waiting, handlers, listener, workers,
                 output>>

(* steady_clock: five seconds are over. *)
FiveSecondsPass ==
  /\ main = "basic" /\ at \in {"loop", "step"} /\ ~late
  /\ late' = TRUE
  /\ UNCHANGED <<input, at, rounds, waiting, signals, instance, output>>

(* Inside step() the kernel meets a fatal error and stops. *)
KernelFails ==
  /\ at = "step" /\ kernel = KernelState.RUNNING
  /\ kernel' = KernelState.STOPPED /\ workers' = "none"
  /\ UNCHANGED <<input, progress, signals, listener, output>>

-----------------------------------------------------------------------------

Statement ==
  \/ Parse \/ Build \/ Check \/ Install \/ Start \/ Send
  \/ EnterStep \/ LeaveLoop \/ Stop \/ PrintStats
  \/ SayStopped \/ Leave

Around ==
  \/ \E s \in Signals : Signal(s)
  \/ FiveSecondsPass
  \/ KernelFails

Ended == Gone /\ UNCHANGED vars

Next == Statement \/ StepReturns \/ Around \/ Ended

Spec == Init /\ [][Next]_vars

(***************************************************************************)
(* The process gets its share of the processor, time passes, and           *)
(* stdio_bus_step() keeps to a timeout that is not negative; a negative    *)
(* one makes it wait for an event that may never come.                     *)
(***************************************************************************)
Fairness ==
  /\ WF_vars(Statement)
  /\ WF_vars(FiveSecondsPass)
  /\ WF_vars(at = "step" /\ waiting >= 0 /\ StepReturns)

FairSpec == Spec /\ Fairness

-----------------------------------------------------------------------------
(* Properties                                                              *)

Label ==
  {"parse", "build", "check", "start", "send", "loop", "step", "stop", "stats",
   "end", "leave", "exited", "killed"} \cup Signals

(* Every variable has its type. *)
TypeOK ==
  /\ main \in {"runner", "basic", "builder"}
  /\ args \in Args \cup {NoArgs} /\ wait \in Waits
  /\ at \in Label
  /\ rounds \in Nat /\ late \in BOOLEAN
  /\ waiting \in Int \cup {Nothing}
  /\ g_running \in BOOLEAN /\ handlers \subseteq Signals
  /\ kernel \in {Nothing} \cup {KernelState[k] : k \in DOMAIN KernelState}
  /\ listener.mode \in {KernelListen[m] : m \in DOMAIN KernelListen}
  /\ listener.port \in 0..MaxPort
  /\ workers \in {"none", "running", "ending"}
  /\ counts \in KernelStats \cup {Nothing}
  /\ \A n \in reported : n.about \in {"start", "send", "stop"} /\ n.code \in Int
  /\ status \in {0, 1}

(* No worker process outlives the program that started it, whether main()  *)
(* returns from where it likes or, in runner.cpp, SIGINT or SIGTERM comes  *)
(* at the worst moment: there the handlers are in place before a worker is.*)
NoOrphans ==
  at = "exited" \/ (at = "killed" /\ main = "runner") => workers = "none"

(* runner.cpp, after its handler ran, and the other programs always, come  *)
(* to an end, even if the signal arrives between the test of g_running and *)
(* step(), provided the timeout they pass to step() fits in an int.        *)
EndsInTime ==
  wait <= IntMax /\ (main = "runner" => ~g_running) ~> Gone

(* No program goes past start() without a kernel that has been started,    *)
(* although if (!bus) lets a Bus pass whose kernel could not be made, as   *)
(* operator bool does not look at the handle.                              *)
WorksOnlyStarted ==
  at \in {"send", "loop", "step", "stop", "stats", "end"} =>
    Initialized /\ kernel # KernelState.CREATED

(* docs/02-core-concepts/04-error-model.md:37-47, the names of the codes *)
DocumentedName ==
  [ERR |-> "Error", EAGAIN |-> "Again", EOF |-> "Eof", EFULL |-> "Full",
   ENOTFOUND |-> "NotFound", EINVAL |-> "Invalid", ERR_CONFIG |-> "Config",
   ERR_WORKER |-> "Worker", ERR_ROUTING |-> "Routing", ERR_BUFFER |-> "Buffer",
   ERR_STATE |-> "State"]

(* A failure that a program prints is named as the error model's table has *)
(* it, whatever call returned it, and it is called unknown only if its     *)
(* code is not in that table, as ERR_INVALID is not.                       *)
FailuresNamed ==
  /\ \A n \in reported, c \in DOMAIN DocumentedName :
       n.code = KernelCode[c] => [about |-> n.about, text |-> DocumentedName[c]] \in said
  /\ \A m \in said : m.text = "Unknown" =>
       \E n \in reported :
         n.about = m.about /\ \A c \in DOMAIN DocumentedName : n.code # KernelCode[c]

(* The kernel listens where the command line of runner.cpp says, on TCP if *)
(* it names a port that exists.                                            *)
ListensAsAsked ==
  main = "runner" /\ Initialized =>
    /\ args.tcp \in 1..MaxPort =>
         listener = [mode |-> KernelListen.TCP, port |-> args.tcp]
    /\ args.tcp = 0 =>
         listener.mode = IF args.unix THEN KernelListen.UNIX ELSE KernelListen.NONE

(* The statistics that a program prints are the kernel's, each of the      *)
(* eight counters under its own name.                                      *)
StatsAreKernels ==
  shown # Nothing => \A f \in {Listed[i] : i \in 1..8} : shown[f] = counts[f]

(* A program that says it has stopped has told its kernel to stop, or has  *)
(* said that this failed, wherever in its course the kernel stopped by     *)
(* itself or a signal came.                                                *)
StoppedWhenSaid ==
  Stopped \in said =>
    kernel # KernelState.RUNNING \/ \E m \in said : m.about = "stop"

-----------------------------------------------------------------------------
(* The inductive invariant that the safety properties follow from          *)

BeforeStart == {"parse", "build", "check", "start"} \cup Signals

Working == {"send", "loop", "step", "stop", "stats", "end"}

(* Which statements each program has. *)
LabelInv ==
  /\ at \in Label
  /\ at \in {"parse"} \cup Signals => main = "runner"
  /\ at = "send" => main # "runner"
  /\ at \in {"stats", "end"} => main # "builder"

(* There are no workers before start() and after ~Bus().  In runner.cpp    *)
(* both handlers are in place from start() on.                             *)
StartInv ==
  /\ at \in BeforeStart \cup {"exited"} => workers = "none"
  /\ main = "runner" /\ at = "killed" => workers = "none"
  /\ main = "runner" /\ at = "SIGTERM" => "SIGINT" \in handlers
  /\ main = "runner" /\ at \in Working \cup {"start", "leave"} => Signals \subseteq handlers

(* The instance is made by build() with the listener of the options. *)
ListenerInv == Initialized => listener = ListenerOption

(* shown is what to_stats() makes of the kernel's counters. *)
ShownInv == shown # Nothing => shown = to_stats(counts)

(* Past stop() the kernel does not run, unless the program said why.  In   *)
(* basic.cpp stop() comes after the statistics.  Nothing starts it after   *)
(* the last line.                                                          *)
StopInv ==
  /\ at \in {"stats", "end"} /\ (at = "stats" => main = "runner") =>
       kernel # KernelState.RUNNING \/ \E m \in said : m.about = "stop"
  /\ Stopped \in said => at = "leave" \/ Gone

IndInv ==
  /\ TypeOK
  /\ LabelInv
  /\ StartInv
  /\ NoOrphans
  /\ WorksOnlyStarted
  /\ ListenerInv
  /\ ShownInv
  /\ StopInv
  /\ StoppedWhenSaid
  /\ FailuresNamed
=============================================================================
