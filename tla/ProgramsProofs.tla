--------------------------- MODULE ProgramsProofs ---------------------------
(***************************************************************************)
(* Theorems about module Programs, for every command line, every timeout,  *)
(* whatever the kernel returns and counts, and every width of int: the     *)
(* inductive invariant IndInv and what follows from it.                    *)
(***************************************************************************)
EXTENDS Programs, TLAPS

-----------------------------------------------------------------------------
(* The values of the enumerations and the statements of the programs       *)

LEMMA KernelStates ==
  {KernelState[k] : k \in DOMAIN KernelState} = {0, 1, 2, 3, 4}
BY DEF KernelState

LEMMA KernelListens ==
  {KernelListen[m] : m \in DOMAIN KernelListen} = {0, 1, 2}
BY DEF KernelListen

(* The statement that follows each one. *)
LEMMA FollowsRunner ==
  ASSUME main = "runner"
  PROVE  /\ Follows[main]["parse"] = "build"
         /\ Follows[main]["build"] = "check"
         /\ Follows[main]["check"] = "SIGINT"
         /\ Follows[main]["SIGINT"] = "SIGTERM"
         /\ Follows[main]["SIGTERM"] = "start"
         /\ Follows[main]["start"] = "loop"
         /\ Follows[main]["loop"] = "stop"
         /\ Follows[main]["stop"] = "stats"
         /\ Follows[main]["stats"] = "end"
         /\ Follows[main]["end"] = "leave"
BY DEF Follows, Runner

LEMMA FollowsBasic ==
  ASSUME main = "basic"
  PROVE  /\ Follows[main]["build"] = "check"
         /\ Follows[main]["check"] = "start"
         /\ Follows[main]["start"] = "send"
         /\ Follows[main]["send"] = "loop"
         /\ Follows[main]["loop"] = "stats"
         /\ Follows[main]["stats"] = "stop"
         /\ Follows[main]["stop"] = "end"
         /\ Follows[main]["end"] = "leave"
BY DEF Follows, Basic

LEMMA FollowsBuilder ==
  ASSUME main = "builder"
  PROVE  /\ Follows[main]["build"] = "check"
         /\ Follows[main]["check"] = "start"
         /\ Follows[main]["start"] = "send"
         /\ Follows[main]["send"] = "loop"
         /\ Follows[main]["loop"] = "stop"
         /\ Follows[main]["stop"] = "leave"
BY DEF Follows, Builder

(* to_stats() gives each member the value of its name. *)
LEMMA StatsKeepNames ==
  ASSUME NEW s, NEW f \in {Listed[i] : i \in 1..8}
  PROVE  to_stats(s)[f] = s[f]
<1>1. PICK i \in 1..8 : f = Listed[i]
  OBVIOUS
<1>2. \A j \in 1..8 : StatsMembers[j] = Listed[j]
  BY DEF StatsMembers, Listed
<1>3. \A j, k \in 1..8 : Listed[j] = Listed[k] => j = k
  BY DEF Listed
<1>4. (CHOOSE j \in 1..8 : StatsMembers[j] = f) = i
  BY <1>1, <1>2, <1>3
<1>5. f \in {StatsMembers[j] : j \in 1..8}
  BY <1>1, <1>2
<1> QED
  BY <1>1, <1>4, <1>5 DEF to_stats

(* The name of an ErrorCode is its enumerator. *)
LEMMA EnumeratorIsName ==
  ASSUME NEW e \in DOMAIN ErrorCode
  PROVE  error_code_name(ErrorCode[e]) = e
<1>1. \A d \in DOMAIN ErrorCode : ErrorCode[d] = ErrorCode[e] => d = e
  BY DEF ErrorCode
<1> QED
  BY <1>1 DEF error_code_name

(* Of a code in the error model's table, error_code_name() makes the name  *)
(* that the table has, and "Unknown" is none of its names.                 *)
LEMMA DocumentedCodesHaveNames ==
  ASSUME NEW c \in DOMAIN DocumentedName
  PROVE  /\ Message(from_c(KernelCode[c])) = DocumentedName[c]
         /\ DocumentedName[c] # "Unknown"
<1>1. /\ DocumentedName[c] \in DOMAIN ErrorCode
      /\ DocumentedName[c] # "Unknown"
  BY DEF DocumentedName, ErrorCode
<1>2. KernelCode[c] = ErrorCode[DocumentedName[c]]
  BY DEF DocumentedName, ErrorCode, KernelCode, BaseCode, EmbedCode
<1>3. Message(from_c(KernelCode[c])) = error_code_name(KernelCode[c])
  BY DEF Message, from_c, Error
<1> QED
  BY <1>1, <1>2, <1>3, EnumeratorIsName

LEMMA NotInitializedHasName == Message(NotInitialized) # "Unknown"
<1>1. ErrorCode.Invalid = ErrorCode["Invalid"] /\ "Invalid" \in DOMAIN ErrorCode
  BY DEF ErrorCode
<1>2. error_code_name(ErrorCode.Invalid) = "Invalid"
  BY <1>1, EnumeratorIsName
<1> QED
  BY <1>2 DEF Message, NotInitialized, Error

LEMMA MaxPortIsNat == MaxPort \in Nat
BY DEF MaxPort

LEMMA PortInRange == \A n \in Nat : to_port(n) \in 0..MaxPort
<1> SUFFICES ASSUME NEW n \in Nat PROVE to_port(n) \in 0..MaxPort
  OBVIOUS
<1> DEFINE size == MaxPort + 1
           port == n % size
<1>1. MaxPort \in Int /\ size \in Int /\ size > 0 /\ size = MaxPort + 1
  BY MaxPortIsNat
<1> HIDE DEF size
<1>2. port \in Int /\ 0 <= port /\ port < size
  BY <1>1
<1>3. to_port(n) = port
  BY DEF to_port, size
<1> HIDE DEF port
<1>4. port \in 0..MaxPort
  BY <1>1, <1>2
<1> QED
  BY <1>3, <1>4

LEMMA PortKept == \A n \in 1..MaxPort : to_port(n) = n /\ n > 0
<1> SUFFICES ASSUME NEW n \in 1..MaxPort PROVE to_port(n) = n /\ n > 0
  OBVIOUS
<1> DEFINE size == MaxPort + 1
<1>1. n \in Int /\ 0 < n /\ n < size /\ size \in Int
  BY MaxPortIsNat
<1>2. to_port(n) = n % size
  BY DEF to_port
<1> HIDE DEF size
<1>3. n % size = n
  BY <1>1
<1> QED
  BY <1>1, <1>2, <1>3

LEMMA CutIsInt == \A n \in Nat : to_int(n) \in Int
BY IntAssumption DEF to_int

(* A count that fits in an int stays what it is; the ones that follow, up  *)
(* to the largest unsigned int, become negative.                           *)
LEMMA CutKeepsSmall ==
  \A n \in Nat :
    /\ n <= IntMax => to_int(n) = n
    /\ n \in (IntMax + 1)..(2 * IntMax + 1) => to_int(n) < 0
<1> SUFFICES ASSUME NEW n \in Nat
             PROVE  /\ n <= IntMax => to_int(n) = n
                    /\ n \in (IntMax + 1)..(2 * IntMax + 1) => to_int(n) < 0
  OBVIOUS
<1> DEFINE width == 2 * (IntMax + 1)
           shifted == n + IntMax + 1
<1>1. width \in Nat /\ width > 0 /\ shifted \in Nat
  BY IntAssumption
<1>2. \A a, m \in Nat : a < m => a % m = a
  OBVIOUS
<1>3. \A a, m \in Nat : m <= a /\ a < 2 * m => a % m = a - m
  OBVIOUS
<1>4. to_int(n) = (shifted % width) - (IntMax + 1)
  BY DEF to_int
<1>5. n <= IntMax => shifted < width /\ shifted - (IntMax + 1) = n
  BY IntAssumption
<1>6. n \in (IntMax + 1)..(2 * IntMax + 1) =>
        width <= shifted /\ shifted < 2 * width /\ shifted - width - (IntMax + 1) < 0
  BY IntAssumption
<1> HIDE DEF width, shifted
<1> QED
  BY <1>1, <1>2, <1>3, <1>4, <1>5, <1>6, IntAssumption

(* The states that Bus methods bring the instance to. *)
LEMMA FromKernel ==
  /\ KernelState.CREATED # Nothing /\ KernelState.CREATED = 0
  /\ KernelState.RUNNING # Nothing /\ KernelState.RUNNING = 2
  /\ KernelState.STOPPING # Nothing /\ KernelState.STOPPING = 3
  /\ KernelState.STOPPED # Nothing /\ KernelState.STOPPED = 4
BY ProgramsAssumption DEF KernelState

LEMMA ListenerType ==
  ASSUME args \in Args \cup {NoArgs}
  PROVE  /\ ListenerOption.mode \in {KernelListen[m] : m \in DOMAIN KernelListen}
         /\ ListenerOption.port \in 0..MaxPort
<1>1. args.tcp \in Nat
  <2>1. CASE args \in Args
    BY <2>1, ProgramsAssumption DEF Args
  <2>2. CASE args = NoArgs
    BY <2>2 DEF NoArgs
  <2> QED
    BY <2>1, <2>2
<1>2. to_port(args.tcp) \in 0..MaxPort
  BY <1>1, PortInRange
<1>3. 0 \in 0..MaxPort
  BY DEF MaxPort
<1> QED
  BY <1>2, <1>3, KernelListens DEF ListenerOption, ListenMode

(* A call of the Bus succeeds only with a kernel behind it. *)
LEMMA IsStarted == ASSUME NEW rc, ~IsError(Result(rc)) PROVE Initialized
BY DEF Result, NotInitialized, Error, IsError, ErrorCode

(* What a call prints is recorded with the call and the code. *)
LEMMA ReportType ==
  ASSUME counts \in KernelStats \cup {Nothing},
         \A n \in reported : n.about \in {"start", "send", "stop"} /\ n.code \in Int,
         ReportNothing \/ \E call \in {"start", "send", "stop"}, rc \in Returns :
                           Report(call, rc)
  PROVE  /\ (counts \in KernelStats \cup {Nothing})'
         /\ (\A n \in reported : n.about \in {"start", "send", "stop"} /\ n.code \in Int)'
<1>1. CASE ReportNothing
  BY <1>1 DEF ReportNothing, history
<1>2. ASSUME NEW call \in {"start", "send", "stop"}, NEW rc \in Returns, Report(call, rc)
      PROVE  /\ (counts \in KernelStats \cup {Nothing})'
             /\ (\A n \in reported :
                   n.about \in {"start", "send", "stop"} /\ n.code \in Int)'
  <2>1. rc \in Int
    BY ProgramsAssumption
  <2>2. reported' \subseteq reported \cup {[about |-> call, code |-> rc]}
    BY <1>2 DEF Report
  <2> QED
    BY <1>2, <2>1, <2>2 DEF Report
<1> QED
  BY <1>1, <1>2

-----------------------------------------------------------------------------
(* Each part of IndInv is kept by every step                               *)

LEMMA InitIndInv == Init => IndInv
<1> SUFFICES ASSUME Init PROVE IndInv
  OBVIOUS
<1>1. TypeOK
  <2>1. args \in Args \cup {NoArgs}
    BY DEF Init
  <2>2. listener.mode \in {KernelListen[m] : m \in DOMAIN KernelListen}
    BY DEF Init, KernelListen
  <2>3. listener.port \in 0..MaxPort
    BY DEF Init, MaxPort
  <2> QED
    BY <2>1, <2>2, <2>3 DEF Init, TypeOK, Label, Signals
<1>2. LabelInv /\ StartInv /\ NoOrphans /\ WorksOnlyStarted
  BY DEF Init, LabelInv, StartInv, NoOrphans, WorksOnlyStarted, Label, Signals,
         BeforeStart, Working
<1>3. ~Initialized
  BY DEF Init, Initialized
<1>4. ListenerInv
  BY <1>3 DEF ListenerInv
<1>5. said = {} /\ reported = {} /\ shown = Nothing /\ at \notin {"stats", "end"}
  BY DEF Init
<1>6. ShownInv /\ StopInv /\ StoppedWhenSaid /\ FailuresNamed
  BY <1>5 DEF ShownInv, StopInv, StoppedWhenSaid, FailuresNamed
<1> QED
  BY <1>1, <1>2, <1>4, <1>6 DEF IndInv

(* Where main() goes from where it is. *)
LEMMA NextLabelInv ==
  ASSUME TypeOK, LabelInv, [Next]_vars
  PROVE  LabelInv'
<1>0. main \in {"runner", "basic", "builder"}
  BY DEF TypeOK
<1> USE FollowsRunner, FollowsBasic, FollowsBuilder DEF Proceed, GiveUp
<1>1. CASE Parse
  BY <1>0, <1>1 DEF LabelInv, Label, Signals, input, Parse
<1>2. CASE Build
  BY <1>0, <1>2 DEF LabelInv, Label, Signals, input, Build
<1>3. CASE Check
  BY <1>0, <1>3 DEF LabelInv, Label, Signals, input, Check
<1>4. CASE Install
  BY <1>0, <1>4 DEF LabelInv, Label, Signals, input, Install
<1>5. CASE Start
  BY <1>0, <1>5 DEF LabelInv, Label, Signals, input, Start
<1>6. CASE Send
  BY <1>0, <1>6 DEF LabelInv, Label, Signals, input, Send
<1>7. CASE EnterStep
  BY <1>0, <1>7 DEF LabelInv, Label, Signals, input, EnterStep
<1>8. CASE LeaveLoop
  BY <1>0, <1>8 DEF LabelInv, Label, Signals, input, LeaveLoop
<1>9. CASE StepReturns
  BY <1>0, <1>9 DEF LabelInv, Label, Signals, input, StepReturns
<1>10. CASE Stop
  BY <1>0, <1>10 DEF LabelInv, Label, Signals, input, Stop
<1>11. CASE PrintStats
  BY <1>0, <1>11 DEF LabelInv, Label, Signals, input, PrintStats
<1>12. CASE Leave
  BY <1>0, <1>12 DEF LabelInv, Label, Signals, input, Leave
<1>13. CASE Around
  BY <1>13 DEF Around, Signal, FiveSecondsPass, KernelFails, LabelInv, Label, Signals,
            input, progress
<1>14. CASE UNCHANGED vars
  BY <1>14 DEF LabelInv, Label, Signals, vars, input, progress
<1>15. CASE SayStopped
  BY <1>0, <1>15 DEF LabelInv, Label, Signals, input, SayStopped
<1> QED
  BY <1>1, <1>2, <1>3, <1>4, <1>5, <1>6, <1>7, <1>8, <1>9, <1>10, <1>11, <1>12, <1>13,
     <1>14, <1>15 DEF Next, Statement, Ended

(* The types. *)
LEMMA NextTypeOK ==
  ASSUME IndInv, [Next]_vars
  PROVE  TypeOK'
<1>0. TypeOK /\ at' \in Label
  BY NextLabelInv DEF IndInv, LabelInv
<1> USE <1>0 DEF TypeOK, input, progress, signals, instance, output, history
<1>1. CASE Parse
  BY <1>1 DEF Parse
<1>2. CASE Build
  BY <1>2, ListenerType, KernelStates, FromKernel DEF Build
<1>3. CASE Check
  BY <1>3 DEF Check
<1>4. CASE Install
  BY <1>4 DEF Install, Signals
<1>5. CASE Start
  <2>1. kernel' \in {Nothing} \cup {KernelState[k] : k \in DOMAIN KernelState}
    BY <1>5, KernelStates, FromKernel DEF Start
  <2>2. workers' \in {"none", "running", "ending"} /\ status' \in {0, 1}
    BY <1>5 DEF Start, GiveUp
  <2>3. ReportNothing \/ \E rc \in Returns : Report("start", rc)
    BY <1>5 DEF Start, GiveUp
  <2> QED
    BY <1>5, <2>1, <2>2, <2>3, ReportType DEF Start
<1>6. CASE Send
  <2>1. ReportNothing \/ \E rc \in Returns : Report("send", rc)
    BY <1>6 DEF Send
  <2> QED
    BY <1>6, <2>1, ReportType DEF Send
<1>7. CASE EnterStep
  BY <1>7, CutIsInt, ProgramsAssumption DEF EnterStep
<1>8. CASE LeaveLoop
  BY <1>8 DEF LeaveLoop
<1>9. CASE StepReturns
  BY <1>9 DEF StepReturns
<1>10. CASE Stop
  <2>1. kernel' \in {Nothing} \cup {KernelState[k] : k \in DOMAIN KernelState}
    BY <1>10, KernelStates, FromKernel DEF Stop
  <2>2. workers' \in {"none", "running", "ending"}
    BY <1>10 DEF Stop
  <2>3. ReportNothing \/ \E rc \in Returns : Report("stop", rc)
    BY <1>10 DEF Stop, SayStop
  <2> QED
    BY <1>10, <2>1, <2>2, <2>3, ReportType DEF Stop
<1>11. CASE PrintStats
  <2>1. [f \in {Listed[i] : i \in 1..8} |-> 0] \in KernelStats
    BY DEF KernelStats
  <2> QED
    BY <1>11, <2>1, ProgramsAssumption DEF PrintStats
<1>12. CASE Leave
  BY <1>12 DEF Leave
<1>13. CASE \E s \in Signals : Signal(s)
  BY <1>13 DEF Signal
<1>14. CASE FiveSecondsPass
  BY <1>14 DEF FiveSecondsPass
<1>15. CASE KernelFails
  BY <1>15, KernelStates, FromKernel DEF KernelFails
<1>16. CASE UNCHANGED vars
  BY <1>16 DEF vars
<1>17. CASE SayStopped
  BY <1>17 DEF SayStopped
<1> QED
  BY <1>1, <1>2, <1>3, <1>4, <1>5, <1>6, <1>7, <1>8, <1>9,
     <1>10, <1>11, <1>12, <1>13, <1>14, <1>15, <1>16, <1>17
  DEF Next, Statement, Around, Ended

(* Handlers come before workers, and workers end before main() does. *)
LEMMA NextStartInv ==
  ASSUME IndInv, [Next]_vars
  PROVE  StartInv' /\ NoOrphans' /\ WorksOnlyStarted'
<1>0. TypeOK /\ LabelInv /\ LabelInv' /\ StartInv /\ NoOrphans /\ WorksOnlyStarted
  BY NextLabelInv DEF IndInv
<1>00. main \in {"runner", "basic", "builder"} /\ handlers \subseteq Signals
  BY <1>0 DEF TypeOK
<1> USE <1>0, <1>00, FollowsRunner, FollowsBasic, FollowsBuilder
    DEF LabelInv, StartInv, NoOrphans, WorksOnlyStarted, Label, Signals, BeforeStart,
        Working, Proceed, Initialized, input, progress, signals, instance, output
<1>1. CASE Parse
  BY <1>1 DEF Parse
<1>2. CASE Build
  BY <1>2 DEF Build
<1>3. CASE Check
  BY <1>3 DEF Check
<1>4. CASE Install
  BY <1>4 DEF Install
<1>5. CASE Start
  <2>1. CASE at' = "leave" /\ workers' = workers
    BY <1>5, <2>1 DEF Start
  <2>2. CASE kernel' = KernelState.RUNNING /\ Proceed
    BY <1>5, <2>2, FromKernel DEF Start
  <2> QED
    BY <1>5, <2>1, <2>2 DEF Start, GiveUp
<1>6. CASE Send
  BY <1>6 DEF Send
<1>7. CASE EnterStep
  BY <1>7 DEF EnterStep
<1>8. CASE LeaveLoop
  BY <1>8 DEF LeaveLoop
<1>9. CASE StepReturns
  BY <1>9 DEF StepReturns
<1>10. CASE Stop
  <2>1. CASE kernel' = KernelState.STOPPING /\ workers' = "ending"
    BY <1>10, <2>1, FromKernel DEF Stop
  <2>2. CASE UNCHANGED <<kernel, workers>>
    BY <1>10, <2>2 DEF Stop
  <2> QED
    BY <1>10, <2>1, <2>2 DEF Stop
<1>11. CASE PrintStats
  BY <1>11 DEF PrintStats
<1>12. CASE Leave
  BY <1>12 DEF Leave
<1>13. CASE \E s \in Signals : Signal(s)
  BY <1>13 DEF Signal, Gone
<1>14. CASE FiveSecondsPass
  BY <1>14 DEF FiveSecondsPass
<1>15. CASE KernelFails
  BY <1>15, FromKernel DEF KernelFails
<1>16. CASE UNCHANGED vars
  BY <1>16 DEF vars
<1>17. CASE SayStopped
  BY <1>17 DEF SayStopped
<1> QED
  BY <1>1, <1>2, <1>3, <1>4, <1>5, <1>6, <1>7, <1>8, <1>9,
     <1>10, <1>11, <1>12, <1>13, <1>14, <1>15, <1>16, <1>17
  DEF Next, Statement, Around, Ended

(* Once the instance is there, its listener is what the options said. *)
LEMMA NextListenerInv ==
  ASSUME IndInv, [Next]_vars
  PROVE  ListenerInv'
<1>1. ListenerInv /\ WorksOnlyStarted
  BY DEF IndInv
<1>2. ListenerOption' = ListenerOption
  BY DEF Next, Statement, Around, Ended, Parse, Build, Check, Install, Start, Send,
         EnterStep, LeaveLoop, StepReturns, Stop, PrintStats, SayStopped, Leave, Signal,
         FiveSecondsPass, KernelFails, ListenerOption, input, vars
<1>3. CASE Build
  BY <1>2, <1>3 DEF Build, ListenerInv
<1>4. CASE Start \/ Stop
  <2>1. listener' = listener /\ (kernel = Nothing => kernel' = Nothing)
    BY <1>1, <1>4, IsStarted DEF Start, Stop, WorksOnlyStarted, Initialized
  <2> QED
    BY <1>1, <1>2, <2>1 DEF ListenerInv, Initialized
<1>5. CASE Leave \/ \E s \in Signals : Signal(s)
  BY <1>1, <1>2, <1>5 DEF Leave, Signal, ListenerInv, Initialized
<1>6. CASE KernelFails
  BY <1>1, <1>2, <1>6, FromKernel DEF KernelFails, ListenerInv, Initialized
<1>7. CASE UNCHANGED <<kernel, listener>>
  BY <1>1, <1>2, <1>7 DEF ListenerInv, Initialized
<1> QED
  BY <1>3, <1>4, <1>5, <1>6, <1>7
  DEF Next, Statement, Around, Ended, Parse, Check, Install, Send, EnterStep,
      LeaveLoop, StepReturns, PrintStats, SayStopped, FiveSecondsPass, instance, vars

(* TCP on the port that the command line names, if it is one. *)
LEMMA ListenerIsAsAsked ==
  ASSUME ListenerInv
  PROVE  ListensAsAsked
<1>1. ASSUME Initialized, args.tcp \in 1..MaxPort
      PROVE  listener = [mode |-> KernelListen.TCP, port |-> args.tcp]
  <2>1. to_port(args.tcp) = args.tcp /\ args.tcp > 0
    BY <1>1, PortKept
  <2>2. ListenMode.Tcp = KernelListen.TCP
    BY DEF ListenMode, KernelListen
  <2> QED
    BY <1>1, <2>1, <2>2 DEF ListenerInv, ListenerOption
<1>2. ASSUME Initialized, args.tcp = 0
      PROVE  listener.mode = IF args.unix THEN KernelListen.UNIX ELSE KernelListen.NONE
  <2>1. ~(to_port(0) > 0)
    BY DEF to_port, MaxPort
  <2>2. ListenMode.Unix = KernelListen.UNIX /\ ListenMode.None = KernelListen.NONE
    BY DEF ListenMode, KernelListen
  <2> QED
    BY <1>2, <2>1, <2>2 DEF ListenerInv, ListenerOption
<1> QED
  BY <1>1, <1>2 DEF ListensAsAsked

(* Only PrintStats sets what is shown and what the kernel filled in. *)
LEMMA NextShownInv ==
  ASSUME ShownInv, [Next]_vars
  PROVE  ShownInv'
<1>1. CASE PrintStats
  BY <1>1 DEF PrintStats, ShownInv
<1>2. CASE shown' = shown /\ counts' = counts
  BY <1>2 DEF ShownInv
<1> QED
  BY <1>1, <1>2
  DEF Next, Statement, Around, Ended, Parse, Build, Check, Install, Start, Send,
      EnterStep, LeaveLoop, StepReturns, Stop, SayStopped, Leave, Signal,
      FiveSecondsPass, KernelFails, GiveUp, SayStop, Report, ReportNothing, output,
      history, vars

(* A step prints a failure of a call, the last line, or neither. *)
LEMMA WhatIsSaid ==
  ASSUME [Next]_vars
  PROVE  \/ said' = said /\ reported' = reported
         \/ \E call \in {"start", "send", "stop"}, rc \in Returns :
              Report(call, rc) /\ IsError(Result(rc))
         \/ /\ reported' = reported
            /\ \/ at = "parse" /\ said' = said \cup {[about |-> "usage", text |-> "usage"]}
               \/ SayStopped
<1>1. CASE Start
  BY <1>1 DEF Start, GiveUp, ReportNothing, history
<1>2. CASE Send
  BY <1>2 DEF Send, ReportNothing, history
<1>3. CASE Stop
  BY <1>3 DEF Stop, SayStop, ReportNothing, history
<1>4. CASE Parse
  BY <1>4 DEF Parse, history
<1>5. CASE SayStopped
  BY <1>5 DEF SayStopped, history
<1>6. CASE said' = said /\ reported' = reported
  BY <1>6
<1> QED
  BY <1>1, <1>2, <1>3, <1>4, <1>5, <1>6
  DEF Next, Statement, Around, Ended, Build, Check, Install, EnterStep, LeaveLoop,
      StepReturns, PrintStats, Leave, Signal, FiveSecondsPass, KernelFails, output,
      history, vars

(* Messages stay, and only SayStopped adds the last line. *)
LEMMA SaidStays ==
  ASSUME [Next]_vars
  PROVE  /\ said \subseteq said'
         /\ Stopped \in said' => Stopped \in said \/ SayStopped
<1>1. \A call, text : call # "end" => [about |-> call, text |-> text] # Stopped
  <2> SUFFICES ASSUME NEW call, NEW text, [about |-> call, text |-> text] = Stopped
               PROVE  call = "end"
    OBVIOUS
  <2>1. [about |-> call, text |-> text].about = Stopped.about
    OBVIOUS
  <2> QED
    BY <2>1 DEF Stopped
<1>2. CASE \E call \in {"start", "send", "stop"}, rc \in Returns :
             Report(call, rc) /\ IsError(Result(rc))
  BY <1>1, <1>2 DEF Report
<1>3. CASE said' = said \cup {[about |-> "usage", text |-> "usage"]}
  BY <1>1, <1>3
<1>4. CASE SayStopped
  BY <1>4 DEF SayStopped
<1> QED
  BY <1>2, <1>3, <1>4, WhatIsSaid

(* Past stop() the kernel does not run, or its failure has been printed.   *)
LEMMA NextStopInv ==
  ASSUME IndInv, [Next]_vars
  PROVE  StopInv' /\ StoppedWhenSaid'
<1> DEFINE Told == kernel # KernelState.RUNNING \/ \E m \in said : m.about = "stop"
           Past == at \in {"stats", "end"} /\ (at = "stats" => main = "runner")
<1>1. /\ LabelInv /\ LabelInv' /\ TypeOK /\ WorksOnlyStarted
      /\ Past => Told
      /\ Stopped \in said => Told /\ (at = "leave" \/ Gone)
  BY NextLabelInv DEF IndInv, StopInv, StoppedWhenSaid
<1>2. said \subseteq said' /\ (Stopped \in said' => Stopped \in said \/ SayStopped)
  BY SaidStays
<1>3. CASE Start
  <2>1. Stopped \notin said /\ ~SayStopped
    BY <1>1, <1>3 DEF Start, SayStopped, Gone
  <2>2. ~Past'
    BY <1>1, <1>3, FollowsRunner, FollowsBasic, FollowsBuilder
    DEF Start, GiveUp, Proceed, TypeOK, input
  <2> QED
    BY <1>2, <2>1, <2>2 DEF StopInv, StoppedWhenSaid
<1>4. CASE Stop
  <2>1. Stopped \notin said /\ ~SayStopped
    BY <1>1, <1>4 DEF Stop, SayStopped, Gone
  <2>2. main' # "builder" => Told'
    <3> SUFFICES ASSUME main' # "builder" PROVE Told'
      OBVIOUS
    <3>1. PICK rc \in Returns :
            /\ SayStop(rc)
            /\ IF is_running /\ ~IsError(Result(rc))
               THEN kernel' = KernelState.STOPPING /\ workers' = "ending"
               ELSE UNCHANGED <<kernel, workers>>
      BY <1>4 DEF Stop
    <3>2. main' = main
      BY <1>4 DEF Stop, input
    <3>3. CASE IsError(Result(rc))
      <4>1. [about |-> "stop", text |-> Message(Result(rc))] \in said'
        BY <3>1, <3>2, <3>3 DEF SayStop, Report
      <4> QED
        BY <4>1
    <3>4. CASE ~IsError(Result(rc)) /\ is_running
      BY <3>1, <3>4, FromKernel
    <3>5. CASE ~is_running
      BY <3>1, <3>5, FromKernel DEF is_running, state, Initialized, State
    <3> QED
      BY <3>3, <3>4, <3>5
  <2>3. at' = "stats" \/ at' = "end" => main' # "builder"
    BY <1>1 DEF LabelInv
  <2> QED
    BY <1>2, <2>1, <2>2, <2>3 DEF StopInv, StoppedWhenSaid
<1>5. CASE Leave \/ \E s \in Signals : Signal(s)
  <2>1. /\ kernel' = Nothing \/ (kernel' = kernel /\ at' = at)
        /\ at' = at \/ at' \in {"exited", "killed"}
        /\ main' = main /\ said' = said
    BY <1>5 DEF Leave, Signal, input, output
  <2>2. Told => Told'
    BY <1>2, <2>1, FromKernel
  <2>3. Past' => Past
    BY <2>1
  <2>4. at = "leave" \/ Gone => (at = "leave" \/ Gone)'
    BY <2>1 DEF Gone
  <2> QED
    BY <1>1, <1>2, <2>1, <2>2, <2>3, <2>4 DEF StopInv, StoppedWhenSaid
<1>6. CASE KernelFails
  <2>1. kernel' # KernelState.RUNNING /\ at' = at /\ ~SayStopped
    BY <1>6, FromKernel DEF KernelFails, SayStopped, progress
  <2> QED
    BY <1>1, <1>2, <2>1 DEF StopInv, StoppedWhenSaid, Gone
<1>7. CASE SayStopped
  <2>1. Told /\ kernel' = kernel /\ at' = "leave"
    BY <1>1, <1>7, FollowsRunner, FollowsBasic
    DEF SayStopped, Proceed, instance, LabelInv, TypeOK
  <2> QED
    BY <1>2, <2>1 DEF StopInv, StoppedWhenSaid
<1>8. CASE PrintStats
  <2>1. kernel' = kernel /\ main' = main /\ ~SayStopped /\ Stopped \notin said
    BY <1>1, <1>8 DEF PrintStats, SayStopped, instance, input, Gone
  <2>2. Past' => Past
    BY <1>1, <1>8, <2>1, FollowsRunner, FollowsBasic
    DEF PrintStats, Proceed, LabelInv, TypeOK
  <2> QED
    BY <1>1, <1>2, <2>1, <2>2 DEF StopInv, StoppedWhenSaid
<1>9. CASE Build
  <2>1. at' = "check" /\ ~SayStopped /\ Stopped \notin said
    BY <1>1, <1>9, FollowsRunner, FollowsBasic, FollowsBuilder
    DEF Build, Proceed, SayStopped, TypeOK, Gone
  <2> QED
    BY <1>2, <2>1 DEF StopInv, StoppedWhenSaid
<1>10. CASE LeaveLoop \/ StepReturns
  <2>1. /\ kernel' = kernel /\ main' = main /\ ~SayStopped /\ Stopped \notin said
        /\ at' \in {"loop", Follows[main]["loop"]}
    BY <1>1, <1>10 DEF LeaveLoop, StepReturns, Proceed, SayStopped, instance, input, Gone
  <2>2. ~Past'
    BY <2>1, <1>1, FollowsRunner, FollowsBasic, FollowsBuilder DEF TypeOK
  <2> QED
    BY <1>2, <2>1, <2>2 DEF StopInv, StoppedWhenSaid
<1>11. CASE Parse \/ Check \/ Install \/ Send \/ EnterStep
  <2>1. ~SayStopped /\ Stopped \notin said
    BY <1>1, <1>11
    DEF Parse, Check, Install, Send, EnterStep, SayStopped, Signals, Gone
  <2>2. ~Past'
    BY <1>1, <1>11, FollowsRunner, FollowsBasic, FollowsBuilder
    DEF Parse, Check, Install, Send, EnterStep, Proceed, Signals, TypeOK, LabelInv, input
  <2> QED
    BY <1>2, <2>1, <2>2 DEF StopInv, StoppedWhenSaid
<1>12. CASE FiveSecondsPass \/ UNCHANGED vars
  <2>1. UNCHANGED <<kernel, main, at, said>>
    BY <1>12 DEF FiveSecondsPass, input, instance, output, progress, vars
  <2> QED
    BY <1>1, <2>1 DEF StopInv, StoppedWhenSaid, Gone
<1> QED
  BY <1>3, <1>4, <1>5, <1>6, <1>7, <1>8, <1>9, <1>10, <1>11, <1>12
  DEF Next, Statement, Around, Ended

(* A failure is printed with the name that the table gives to its code.    *)
LEMMA NextFailuresNamed ==
  ASSUME FailuresNamed, [Next]_vars
  PROVE  FailuresNamed'
<1>1. CASE said' = said /\ reported' = reported
  BY <1>1 DEF FailuresNamed
<1>2. ASSUME NEW call \in {"start", "send", "stop"}, NEW rc \in Returns,
             Report(call, rc)
      PROVE  FailuresNamed'
  <2> DEFINE message == [about |-> call, text |-> Message(Result(rc))]
  <2>1. said' = said \cup {message}
    BY <1>2 DEF Report
  <2>2. ASSUME NEW n \in reported', NEW c \in DOMAIN DocumentedName,
               n.code = KernelCode[c]
        PROVE  [about |-> n.about, text |-> DocumentedName[c]] \in said'
    <3>1. CASE n \in reported
      BY <2>1, <2>2, <3>1 DEF FailuresNamed
    <3>2. CASE n \notin reported
      <4>1. Initialized /\ n = [about |-> call, code |-> rc]
        BY <1>2, <3>2 DEF Report
      <4>2. Result(rc) = from_c(KernelCode[c])
        BY <2>2, <4>1 DEF Result
      <4> QED
        BY <2>1, <4>1, <4>2, DocumentedCodesHaveNames
    <3> QED
      BY <3>1, <3>2
  <2>3. ASSUME NEW m \in said', m.text = "Unknown"
        PROVE  \E n \in reported' :
                 n.about = m.about /\ \A c \in DOMAIN DocumentedName : n.code # KernelCode[c]
    <3>0. reported \subseteq reported'
      BY <1>2 DEF Report
    <3>1. CASE m \in said
      BY <2>3, <3>0, <3>1 DEF FailuresNamed
    <3>2. CASE m = message
      <4>1. Message(Result(rc)) = "Unknown"
        BY <2>3, <3>2
      <4>2. Initialized /\ Result(rc) = from_c(rc)
        BY <4>1, NotInitializedHasName DEF Result
      <4>3. [about |-> call, code |-> rc] \in reported'
        BY <1>2, <4>2 DEF Report
      <4>4. \A c \in DOMAIN DocumentedName : rc # KernelCode[c]
        BY <4>1, <4>2, DocumentedCodesHaveNames
      <4> QED
        BY <3>2, <4>3, <4>4
    <3> QED
      BY <2>1, <2>3, <3>1, <3>2
  <2> QED
    BY <2>2, <2>3 DEF FailuresNamed
<1>3. CASE /\ reported' = reported
           /\ \/ said' = said \cup {[about |-> "usage", text |-> "usage"]}
              \/ said' = said \cup {Stopped}
  <2>1. \A m \in said' : m \in said \/ m.text # "Unknown"
    BY <1>3 DEF Stopped
  <2>2. said \subseteq said'
    BY <1>3
  <2> QED
    BY <1>3, <2>1, <2>2 DEF FailuresNamed
<1> QED
  BY <1>1, <1>2, <1>3, WhatIsSaid DEF SayStopped

-----------------------------------------------------------------------------
(* The theorems                                                            *)

(* The invariant that all the others follow from. *)
THEOREM Inductive == Spec => []IndInv
<1>1. IndInv /\ [Next]_vars => IndInv'
  <2> SUFFICES ASSUME IndInv, [Next]_vars PROVE IndInv'
    OBVIOUS
  <2> QED
    BY NextTypeOK, NextLabelInv, NextStartInv, NextListenerInv, NextShownInv,
       NextStopInv, NextFailuresNamed
    DEF IndInv
<1> QED
  BY <1>1, InitIndInv, PTL DEF Spec

(* Every variable of Programs always has its type. *)
THEOREM TypeCorrect == Spec => []TypeOK
<1>1. IndInv => TypeOK
  BY DEF IndInv
<1> QED
  BY <1>1, Inductive, PTL

(* Whenever a signal comes, and however main() ends, no worker outlives a  *)
(* program that returns, nor runner.cpp when a signal kills it.            *)
THEOREM WorkersEnd == Spec => []NoOrphans
<1>1. IndInv => NoOrphans
  BY DEF IndInv
<1> QED
  BY <1>1, Inductive, PTL

(* No program sends to, steps or stops an instance that was not started,   *)
(* though operator bool lets a Bus without an instance pass.               *)
THEOREM NoWorkUnstarted == Spec => []WorksOnlyStarted
<1>1. IndInv => WorksOnlyStarted
  BY DEF IndInv
<1> QED
  BY <1>1, Inductive, PTL

(* Whatever int the kernel returns, a failure is printed under the name    *)
(* that the documentation has for its code, and a program prints "Unknown" *)
(* only of a code that the documentation does not have.                    *)
THEOREM FailuresHaveNames == Spec => []FailuresNamed
<1>1. IndInv => FailuresNamed
  BY DEF IndInv
<1> QED
  BY <1>1, Inductive, PTL

(* Whatever number follows --tcp, a port that exists is the one listened   *)
(* on.                                                                     *)
THEOREM ListenerAsAsked == Spec => []ListensAsAsked
<1>1. IndInv => ListensAsAsked
  BY ListenerIsAsAsked DEF IndInv
<1> QED
  BY <1>1, Inductive, PTL

(* The eight values that to_stats() copies by position arrive each under   *)
(* its own name, whatever numbers the kernel filled in.                    *)
THEOREM StatsAreTrue == Spec => []StatsAreKernels
<1>1. IndInv => StatsAreKernels
  BY StatsKeepNames DEF IndInv, ShownInv, StatsAreKernels
<1> QED
  BY <1>1, Inductive, PTL

(* A program that says it has stopped has told the kernel to, or has said  *)
(* that this failed, whatever signals came and whatever the kernel did.    *)
THEOREM SaysTruth == Spec => []StoppedWhenSaid
<1>1. IndInv => StoppedWhenSaid
  BY DEF IndInv
<1> QED
  BY <1>1, Inductive, PTL

(* Bus::step() waits as long as it was told to if the timeout fits in an   *)
(* int, which is what the fairness of StepReturns asks; with one up to     *)
(* twice as large the kernel gets a negative timeout, which it need not    *)
(* end.                                                                    *)
THEOREM TimeoutsThatFit ==
  Spec => [](at = "step" =>
               /\ wait <= IntMax => waiting = wait /\ waiting >= 0
               /\ wait \in (IntMax + 1)..(2 * IntMax + 1) => waiting < 0)
<1> DEFINE Cut == wait \in Waits /\ (at = "step" => waiting = to_int(wait))
<1>1. Init => Cut
  BY DEF Init
<1>2. ASSUME IndInv, Cut, [Next]_vars PROVE Cut'
  <2>1. main \in {"runner", "basic", "builder"} /\ LabelInv
    BY <1>2 DEF IndInv, TypeOK
  <2> USE <2>1, FollowsRunner, FollowsBasic, FollowsBuilder DEF input, LabelInv
  <2>2. wait' = wait
    BY <1>2 DEF Next, Statement, Around, Ended, Parse, Build, Check, Install, Start,
                Send, EnterStep, LeaveLoop, StepReturns, Stop, PrintStats, SayStopped,
                Leave, Signal, FiveSecondsPass, KernelFails, vars
  <2>3. CASE EnterStep
    BY <1>2, <2>2, <2>3 DEF EnterStep
  <2>4. CASE at' = at /\ waiting' = waiting
    BY <1>2, <2>2, <2>4
  <2>5. CASE at' # "step"
    BY <1>2, <2>2, <2>5
  <2>6. CASE Parse \/ Build \/ Check \/ Install \/ Start \/ Send
    BY <2>5, <2>6
    DEF Parse, Build, Check, Install, Start, Send, Proceed, GiveUp, Signals
  <2>7. CASE LeaveLoop \/ StepReturns \/ Stop \/ PrintStats \/ SayStopped \/ Leave
    BY <2>5, <2>7
    DEF LeaveLoop, StepReturns, Stop, PrintStats, SayStopped, Leave, Proceed
  <2>8. CASE Around
    BY <2>4, <2>5, <2>8
    DEF Around, Signal, FiveSecondsPass, KernelFails, progress
  <2>9. CASE UNCHANGED vars
    BY <2>4, <2>9 DEF vars, progress
  <2> QED
    BY <1>2, <2>3, <2>6, <2>7, <2>8, <2>9 DEF Next, Statement, Ended
<1>3. ASSUME Cut, at = "step"
      PROVE  /\ wait <= IntMax => waiting = wait /\ waiting >= 0
             /\ wait \in (IntMax + 1)..(2 * IntMax + 1) => waiting < 0
  <2>1. wait \in Nat /\ waiting = to_int(wait)
    BY <1>3, ProgramsAssumption
  <2> QED
    BY <2>1, CutKeepsSmall
<1> QED
  BY <1>1, <1>2, <1>3, Inductive, PTL DEF Spec
=============================================================================
