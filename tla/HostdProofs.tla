----------------------------- MODULE HostdProofs -----------------------------
(* hostd and the controller that starts it: what the runs check of the     *)
(* main program, of both conversations with the sound server, of the       *)
(* capture call by call and in time, and of the launcher's controller, for *)
(* every value of the constants.                                           *)
EXTENDS MCHostd, Integers, SequenceTheorems, FiniteSetTheorems, TLAPS

-----------------------------------------------------------------------------
(* The controller.  The invariant follows the newest process: whenever a   *)
(* Start may be accepted, the process before it is settled, which is why   *)
(* the event of an older one never changes State.                          *)

\* Never launched, or its exit has been reported.
Settled(p) ==
  \/ life[p] = "created" /\ ~(p = starts /\ ui = "launch")
  \/ exited[p] \in {"reported", "handled"}

NewestSettled == starts = 0 \/ Settled(starts)

ControllerTypes ==
  /\ starts \in 0..MaxStarts /\ ui \in {"idle", "launch", "read", "running"}
  /\ life \in [Prompt!Procs -> {"none", "created", "alive", "dead"}]
  /\ exited \in [Prompt!Procs -> {"no", "stopped", "ended", "reported", "handled"}]

Processes == \A p \in Prompt!Procs :
  /\ p > starts => life[p] = "none"
  /\ p < starts => Settled(p)
  /\ exited[p] # "no" => life[p] = "dead"

Field ==
  /\ activeProcess \in {0, starts}
  /\ ~Prompt!IsRunning \/ activeProcess = 0 => NewestSettled

AtWindow ==
  /\ ui # "idle" => starts # 0
  /\ ui = "launch" => life[starts] = "created"

Waits == (\A p \in waits : p \in Prompt!Procs /\ life[p] = "dead") /\ timedOut = {}

ControllerInv == ControllerTypes /\ Processes /\ Field /\ AtWindow /\ Waits

LEMMA ControllerInit ==
  ASSUME Prompt!ControllerAssumption, Prompt!Init
  PROVE  ControllerInv
BY DEF Prompt!ControllerAssumption, Prompt!Init, ControllerInv, ControllerTypes,
       Processes, Field, NewestSettled, AtWindow, Waits, Settled, Prompt!IsRunning,
       Prompt!Procs

(* A process that lives, or whose exit is not reported, is the newest, and *)
(* then no Start is accepted and the field names it.                       *)
LEMMA UnsettledIsNewest ==
  ASSUME Prompt!ControllerAssumption, ControllerInv, NEW p \in Prompt!Procs,
         ~Settled(p), life[p] # "none"
  PROVE  p = starts /\ activeProcess = p /\ Prompt!IsRunning
<1>1. p = starts
  BY DEF Prompt!ControllerAssumption, ControllerInv, ControllerTypes, Processes,
         Prompt!Procs
<1>2. starts # 0 /\ ~NewestSettled
  BY <1>1 DEF Prompt!ControllerAssumption, Prompt!Procs, NewestSettled
<1> QED
  BY <1>1, <1>2 DEF ControllerInv, Field

-----------------------------------------------------------------------------
LEMMA StartAsyncKeeps ==
  ASSUME Prompt!ControllerAssumption, ControllerInv, Prompt!StartAsync
  PROVE  ControllerInv'
<1>1. /\ starts \in 0..MaxStarts /\ starts' = starts + 1 /\ starts' \in Prompt!Procs
      /\ ui = "idle" /\ ui' = "launch" /\ exited' = exited
      /\ life' = [life EXCEPT ![starts'] = "created"] /\ life'[starts'] = "created"
  BY DEF Prompt!StartAsync, ControllerInv, ControllerTypes,
         Prompt!ControllerAssumption, Prompt!Procs
<1>2. \A p \in Prompt!Procs : p < starts' => Settled(p) /\ p # starts'
  BY <1>1
  DEF Prompt!StartAsync, Prompt!Accepts, ControllerInv, ControllerTypes, Processes,
      Field, NewestSettled, Prompt!ControllerAssumption, Prompt!Procs
<1>3. ControllerTypes'
  BY <1>1
  DEF ControllerInv, ControllerTypes, Prompt!Procs, Prompt!ControllerAssumption
<1>4. Processes'
  <2> SUFFICES ASSUME NEW p \in Prompt!Procs
               PROVE  /\ p > starts' => life'[p] = "none"
                      /\ p < starts' => Settled(p)'
                      /\ exited'[p] # "no" => life'[p] = "dead"
    BY DEF Processes, Prompt!Procs
  <2>1. p = starts' \/ (p # starts' /\ life'[p] = life[p])
    BY <1>1 DEF ControllerInv, ControllerTypes
  <2>2. p > starts' => p > starts
    BY <1>1 DEF Prompt!Procs, Prompt!ControllerAssumption
  <2>3. exited[starts'] = "no"
    BY <1>1 DEF ControllerInv, Processes, ControllerTypes, Prompt!Procs
  <2> QED
    BY <1>1, <1>2, <2>1, <2>2, <2>3
    DEF ControllerInv, Processes, Settled, Prompt!Procs, Prompt!ControllerAssumption
<1>5. Field' /\ AtWindow'
  BY <1>1 DEF Prompt!StartAsync, Field, AtWindow, Prompt!IsRunning, Prompt!Procs
<1>6. Waits'
  BY <1>1
  DEF Prompt!StartAsync, ControllerInv, Waits, Processes, ControllerTypes,
      Prompt!Procs
<1> QED
  BY <1>3, <1>4, <1>5, <1>6 DEF ControllerInv

LEMMA LaunchKeeps ==
  ASSUME Prompt!ControllerAssumption, ControllerInv, Prompt!Launch
  PROVE  ControllerInv'
<1>1. /\ starts \in Prompt!Procs /\ starts' = starts /\ exited' = exited /\ ui = "launch"
      /\ life[starts] = "created" /\ ~Settled(starts)
  BY DEF Prompt!Launch, ControllerInv, ControllerTypes, AtWindow, Processes,
         Settled, Prompt!Procs, Prompt!ControllerAssumption
<1>2. activeProcess = starts /\ Prompt!IsRunning
  BY <1>1, UnsettledIsNewest
<1>3. \A p \in Prompt!Procs : p # starts => (Settled(p) => Settled(p)')
  BY <1>1 DEF Prompt!Launch, Settled, ControllerInv, ControllerTypes
<1>4. Waits'
  BY <1>1 DEF Prompt!Launch, ControllerInv, Waits, ControllerTypes
<1>5. CASE /\ life' = [life EXCEPT ![starts] = "alive"] /\ ui' = "read"
           /\ UNCHANGED <<State, Prompt!fields>>
  BY <1>1, <1>2, <1>3, <1>4, <1>5
  DEF ControllerInv, ControllerTypes, Processes, Field, AtWindow, Prompt!IsRunning,
      Prompt!fields, Prompt!Procs, Prompt!ControllerAssumption
<1>6. CASE Prompt!StartFails /\ UNCHANGED life
  <2>1. activeProcess' = 0 /\ State' = "Faulted" /\ ui' = "idle" /\ life' = life
    BY <1>2, <1>6 DEF Prompt!StartFails, Prompt!CleanupActiveProcess
  <2>2. Settled(starts)'
    BY <1>1, <2>1 DEF Settled
  <2> QED
    BY <1>1, <1>3, <1>4, <2>1, <2>2
    DEF ControllerInv, ControllerTypes, Processes, Field, NewestSettled, AtWindow
<1> QED
  BY <1>5, <1>6 DEF Prompt!Launch

(* Steps that leave every process as it is, and the window past its launch. *)
LEMMA QuietKeeps ==
  ASSUME ControllerInv, UNCHANGED <<life, exited, starts>>, Waits',
         activeProcess' \in {0, starts},
         ui' \in {"idle", "read", "running"}, ui # "launch",
         ui' # "idle" => ui # "idle",
         ~Prompt!IsRunning' \/ activeProcess' = 0 => NewestSettled
  PROVE  ControllerInv'
<1>1. \A p \in Prompt!Procs : Settled(p) => Settled(p)'
  BY DEF Settled
<1>2. ControllerTypes' /\ AtWindow'
  BY DEF ControllerInv, ControllerTypes, AtWindow
<1>3. Processes'
  BY <1>1 DEF ControllerInv, Processes
<1>4. NewestSettled => NewestSettled'
  BY DEF NewestSettled, Settled
<1>5. Field'
  BY <1>4 DEF Field
<1> QED
  BY <1>2, <1>3, <1>5 DEF ControllerInv

LEMMA WindowKeeps ==
  ASSUME Prompt!ControllerAssumption, ControllerInv, Prompt!Window
  PROVE  ControllerInv'
<1>1. CASE Prompt!Launch
  BY <1>1, LaunchKeeps
<1>2. CASE Prompt!BeginReads
  <2>1. /\ UNCHANGED <<life, exited, starts, waits, timedOut>> /\ ui = "read"
        /\ ui' \in {"idle", "running"}
    BY <1>2 DEF Prompt!BeginReads, Prompt!StartFails
  <2>2. Waits'
    BY <2>1 DEF ControllerInv, Waits
  <2>3. CASE exited[starts] = "handled"
    <3>1. NewestSettled
      BY <2>3 DEF NewestSettled, Settled
    <3>2. activeProcess' \in {0, starts}
      BY <1>2, <2>3
      DEF Prompt!BeginReads, Prompt!StartFails, Prompt!CleanupActiveProcess,
          Prompt!fields, ControllerInv, Field
    <3> QED
      BY <2>1, <2>2, <3>1, <3>2, QuietKeeps
  <2>4. CASE exited[starts] # "handled"
    BY <1>2, <2>1, <2>2, <2>4, QuietKeeps
    DEF Prompt!BeginReads, Prompt!fields, ControllerInv, Field, Prompt!IsRunning
  <2> QED
    BY <2>3, <2>4
<1>3. CASE Prompt!ReportRunning
  <2>1. Waits' /\ Prompt!IsRunning'
    BY <1>3 DEF Prompt!ReportRunning, ControllerInv, Waits, Prompt!IsRunning
  <2> QED
    BY <1>3, <2>1, QuietKeeps
    DEF Prompt!ReportRunning, Prompt!fields, ControllerInv, Field
<1>4. ASSUME NEW p \in Prompt!Procs, Prompt!StopReturns(p) PROVE ControllerInv'
  <2>1. Waits'
    BY <1>4 DEF Prompt!StopReturns, ControllerInv, Waits
  <2> QED
    BY <1>4, <2>1, QuietKeeps
    DEF Prompt!StopReturns, Prompt!fields, ControllerInv, Field, Prompt!IsRunning
<1>5. ASSUME NEW p \in Prompt!Procs, Prompt!StopGivesUp(p) PROVE ControllerInv'
  BY <1>5 DEF Prompt!StopGivesUp, ControllerInv, Waits
<1> QED
  BY <1>1, <1>2, <1>3, <1>4, <1>5 DEF Prompt!Window

-----------------------------------------------------------------------------
(* A process that ends stays as settled as it was.                         *)
LEMMA DyingKeeps ==
  ASSUME Prompt!ControllerAssumption, ControllerInv, NEW p \in Prompt!Procs,
         life[p] = "alive",
         life' = [life EXCEPT ![p] = "dead"],
         UNCHANGED <<exited, starts, ui, activeProcess, timedOut>>,
         waits' = waits \/ waits' = waits \cup {p},
         State' = State \/ Prompt!IsRunning'
  PROVE  ControllerInv'
<1>1. ~Settled(p)
  BY DEF Settled, ControllerInv, Processes
<1>2. p = starts /\ activeProcess = p /\ Prompt!IsRunning
  BY <1>1, UnsettledIsNewest
<1>3. \A q \in Prompt!Procs :
        /\ life'[q] = IF q = p THEN "dead" ELSE life[q]
        /\ q # p => (Settled(q) => Settled(q)')
  BY DEF ControllerInv, ControllerTypes, Settled
<1>4. ControllerTypes' /\ Processes'
  BY <1>2, <1>3
  DEF ControllerInv, ControllerTypes, Processes, Prompt!Procs,
      Prompt!ControllerAssumption
<1>5. Field' /\ AtWindow'
  BY <1>2
  DEF ControllerInv, Field, AtWindow, Prompt!IsRunning, Prompt!Procs,
      Prompt!ControllerAssumption
<1>6. Waits'
  BY <1>3 DEF ControllerInv, Waits
<1> QED
  BY <1>4, <1>5, <1>6 DEF ControllerInv

LEMMA StopAsyncKeeps ==
  ASSUME Prompt!ControllerAssumption, ControllerInv, Prompt!StopAsync PROVE ControllerInv'
<1>1. CASE activeProcess = 0
  <2>1. NewestSettled
    BY <1>1 DEF ControllerInv, Field
  <2>2. /\ UNCHANGED <<life, waits, timedOut, exited, starts, activeProcess>>
        /\ ui = "idle" /\ ui' = "idle"
    BY <1>1 DEF Prompt!StopAsync
  <2>3. Waits'
    BY <2>2 DEF ControllerInv, Waits
  <2> QED
    BY <1>1, <2>1, <2>2, <2>3, QuietKeeps
<1>2. CASE activeProcess # 0
  <2>1. activeProcess \in Prompt!Procs
    BY <1>2
    DEF ControllerInv, Field, ControllerTypes, Prompt!Procs,
        Prompt!ControllerAssumption
  <2>2. life[activeProcess] = "alive"
    BY <1>2, <2>1 DEF Prompt!StopAsync, ControllerInv, ControllerTypes
  <2>3. Prompt!IsRunning' /\ life' = [life EXCEPT ![activeProcess] = "dead"]
    BY <1>2 DEF Prompt!StopAsync, Prompt!IsRunning
  <2> QED
    BY <1>2, <2>1, <2>2, <2>3, DyingKeeps DEF Prompt!StopAsync
<1> QED
  BY <1>1, <1>2

LEMMA ExitsKeeps ==
  ASSUME Prompt!ControllerAssumption, ControllerInv, NEW p \in Prompt!Procs,
         Prompt!Exits(p)
  PROVE  ControllerInv'
<1>1. life[p] = "alive"
  BY DEF Prompt!Exits, ControllerInv, ControllerTypes
<1> QED
  BY <1>1, DyingKeeps DEF Prompt!Exits, Prompt!fields

(* The event of an exit: how far it is changes, for a process that is dead. *)
LEMMA EventKeeps ==
  ASSUME Prompt!ControllerAssumption, ControllerInv, NEW p \in Prompt!Procs,
         life[p] = "dead",
         NEW e \in {"stopped", "ended", "reported", "handled"},
         exited' = [exited EXCEPT ![p] = e],
         exited[p] \in {"reported", "handled"} => e = "handled",
         UNCHANGED <<life, starts, ui, waits, timedOut>>,
         activeProcess' \in {0, starts},
         ~Prompt!IsRunning' \/ activeProcess' = 0 =>
           NewestSettled \/ (p = starts /\ e \in {"reported", "handled"})
  PROVE  ControllerInv'
<1>1. \A q \in Prompt!Procs : exited'[q] = IF q = p THEN e ELSE exited[q]
  BY DEF ControllerInv, ControllerTypes
<1>2. \A q \in Prompt!Procs : Settled(q) => Settled(q)'
  BY <1>1 DEF Settled
<1>3. ControllerTypes' /\ AtWindow' /\ Waits'
  BY DEF ControllerInv, ControllerTypes, AtWindow, Waits
<1>4. Processes'
  BY <1>1, <1>2 DEF ControllerInv, Processes
<1>5. p = starts /\ e \in {"reported", "handled"} => NewestSettled'
  BY <1>1 DEF NewestSettled, Settled
<1>6. NewestSettled => NewestSettled'
  BY <1>2
  DEF NewestSettled, ControllerInv, ControllerTypes, Prompt!Procs,
      Prompt!ControllerAssumption
<1>7. Field'
  BY <1>5, <1>6 DEF Field
<1> QED
  BY <1>3, <1>4, <1>7 DEF ControllerInv

LEMMA PoolKeeps ==
  ASSUME Prompt!ControllerAssumption, ControllerInv, Prompt!Pool
  PROVE  ControllerInv'
<1>1. PICK p \in Prompt!Procs :
        \/ Prompt!TimesOut(p) \/ Prompt!OnExited(p)
        \/ Prompt!ReportExit(p) \/ Prompt!CleanupExited(p)
  BY DEF Prompt!Pool
<1>2. CASE Prompt!TimesOut(p)
  BY <1>2 DEF Prompt!TimesOut, ControllerInv, Waits
<1>3. CASE Prompt!OnExited(p)
  <2>1. PICK e \in {"stopped", "ended"} : exited' = [exited EXCEPT ![p] = e]
    BY <1>3 DEF Prompt!OnExited
  <2> QED
    BY <1>3, <2>1, EventKeeps
    DEF Prompt!OnExited, Prompt!fields, ControllerInv, Field, Prompt!IsRunning
<1>4. CASE Prompt!ReportExit(p)
  <2>1. life[p] = "dead" /\ ~Settled(p)
    BY <1>4 DEF Prompt!ReportExit, ControllerInv, Processes, Settled
  <2>2. p = starts
    BY <2>1, UnsettledIsNewest
  <2> QED
    BY <1>4, <2>1, <2>2, EventKeeps
    DEF Prompt!ReportExit, Prompt!fields, ControllerInv, Field
<1>5. CASE Prompt!CleanupExited(p)
  <2>1. life[p] = "dead" /\ exited[p] = "reported" /\ activeProcess' \in {0, activeProcess}
    BY <1>5
    DEF Prompt!CleanupExited, Prompt!CleansUp, Prompt!CleanupActiveProcess,
        Prompt!fields, ControllerInv, Processes
  <2>2. activeProcess' # activeProcess => activeProcess = p /\ activeProcess' = 0
    BY <1>5
    DEF Prompt!CleanupExited, Prompt!CleansUp, Prompt!CleanupActiveProcess,
        Prompt!fields
  <2>3. activeProcess = p => p = starts
    BY DEF ControllerInv, Field, Prompt!Procs, Prompt!ControllerAssumption
  <2> QED
    BY <1>5, <2>1, <2>2, <2>3, EventKeeps
    DEF Prompt!CleanupExited, ControllerInv, Field, Prompt!IsRunning
<1> QED
  BY <1>1, <1>2, <1>3, <1>4, <1>5

-----------------------------------------------------------------------------
(* Every step of the controller keeps the invariant.                       *)
LEMMA ControllerKeeps ==
  Prompt!ControllerAssumption /\ ControllerInv /\ [Prompt!Next]_Prompt!vars
    => ControllerInv'
<1> SUFFICES ASSUME Prompt!ControllerAssumption, ControllerInv, [Prompt!Next]_Prompt!vars
             PROVE  ControllerInv'
  OBVIOUS
<1>1. CASE Prompt!Next
  BY <1>1, StartAsyncKeeps, StopAsyncKeeps, WindowKeeps, PoolKeeps, ExitsKeeps
  DEF Prompt!Next
<1>2. CASE UNCHANGED Prompt!vars
  BY <1>2
  DEF Prompt!vars, Prompt!fields, ControllerInv, ControllerTypes, Processes, Field,
      NewestSettled, AtWindow, Waits, Settled, Prompt!IsRunning
<1> QED
  BY <1>1, <1>2

(* As long as Kill ends hostd at once, every hostd that lives is the one   *)
(* the controller can stop (StartAsync, StopAsync and OnExited), for any   *)
(* number of starts and stops.                                             *)
THEOREM OneHostdLives == Spec => []OnlyActiveLives
<1> DEFINE Inv == part = "prompt" => ControllerInv
<1>1. Init => Inv
  BY ControllerInit, PartsAssumption DEF Init
<1>2. Inv /\ [Next]_parts => Inv'
  <2> SUFFICES ASSUME Inv, [Next]_parts PROVE Inv'
    OBVIOUS
  <2>1. part' = part
    BY DEF Next, parts
  <2>2. part = "prompt" => [Prompt!Next]_Prompt!vars
    BY DEF Next, parts, controller, Prompt!vars, Prompt!fields
  <2> QED
    BY <2>1, <2>2, ControllerKeeps, PartsAssumption
<1>3. Inv => OnlyActiveLives
  <2> SUFFICES ASSUME ControllerInv, NEW p \in Prompt!Procs, life[p] \in {"alive", "dying"}
               PROVE  p = activeProcess
    BY DEF OnlyActiveLives, Prompt!OnlyActiveLives
  <2>1. ~Settled(p)
    BY DEF ControllerInv, Processes, Settled
  <2> QED
    BY <2>1, UnsettledIsNewest, PartsAssumption
<1> QED
  BY <1>1, <1>2, <1>3, PTL DEF Spec

-----------------------------------------------------------------------------
(* The main program.  Once "Streaming to ..." is printed both signals have *)
(* their handler, and while the loop runs the frames sent are fewer than   *)
(* asked for.                                                              *)

\* The frames asked for are few enough for an int, as those of 21474836
\* seconds are.
AskedFits == \A s \in Asked : s > 0 => s * PerSecond < IntMod \div 2

Streams == {"loop", "read", "encode", "send"}
Guarded == {"capture", "start", "encoder", "sender", "announce"} \cup Streams

Limited == seconds # Main!Unlimited
Frames == seconds * PerSecond

MainTypes ==
  /\ seconds = Main!Unlimited \/ (seconds \in Asked /\ seconds > 0)
  /\ sequence \in Nat /\ stop \in BOOLEAN /\ announced \in BOOLEAN

Handles ==
  /\ pc = "second" => handled = {"SIGINT"}
  /\ pc \in Guarded => handled = Main!Signals
  /\ announced => pc \in Streams \cup {"ended"} /\ code # "killed"
  /\ pc # "ended" => code = "none"

Counts ==
  /\ pc \notin Streams \cup {"ended"} => sequence = 0
  /\ pc \in Streams /\ Limited => total = Frames /\ sequence <= Frames
  /\ pc \in Streams \ {"loop"} /\ Limited => sequence < Frames

MainInv == MainTypes /\ Handles /\ Counts /\ Main!SuccessIsTrue

(* What fits into an int keeps its value there, and as a uint32_t.         *)
LEMMA FitsUnsigned ==
  ASSUME NEW m \in Nat \ {0}, NEW i \in 0..m - 1 PROVE i % m = i
  OBVIOUS

LEMMA FitsSigned ==
  ASSUME Main!HostdAssumption, NEW i \in Nat, i < IntMod \div 2
  PROVE  Main!Signed(i) = i /\ Main!Unsigned(i) = i
<1>1. PICK m \in Nat \ {0} : m = IntMod
  BY DEF Main!HostdAssumption
<1>2. PICK h \in Int : h = m \div 2 /\ 2 * h <= m /\ h >= 0
  OBVIOUS
<1>3. i + h \in 0..m - 1 /\ i \in 0..m - 1
  BY <1>1, <1>2
<1>4. (i + h) % m = i + h /\ i % m = i
  BY <1>3, FitsUnsigned
<1> QED
  BY <1>1, <1>2, <1>4 DEF Main!Signed, Main!Unsigned

(* The number of frames asked for.                                         *)
LEMMA FramesFit ==
  ASSUME Main!HostdAssumption, AskedFits, MainTypes, Limited
  PROVE  /\ Frames \in Nat /\ Frames < IntMod \div 2
         /\ Main!Signed(Frames) = Frames /\ Main!Unsigned(Frames) = Frames
<1>1. seconds \in Nat /\ PerSecond \in Nat /\ seconds \in Asked /\ seconds > 0
  <2>1. seconds \in Asked /\ seconds > 0
    BY DEF MainTypes, Limited
  <2> QED
    BY <2>1 DEF Main!HostdAssumption
<1>2. Frames \in Nat
  BY <1>1 DEF Frames
<1>3. Frames < IntMod \div 2
  BY <1>1 DEF AskedFits, Frames
<1> QED
  BY <1>2, <1>3, FitsSigned

LEMMA MainInit == Main!Init => MainInv
<1> SUFFICES ASSUME Main!Init PROVE MainInv
  OBVIOUS
<1>1. MainTypes
  BY DEF Main!Init, MainTypes, Main!Unlimited
<1>2. Handles /\ Counts
  BY DEF Main!Init, Handles, Counts, Streams, Guarded
<1>3. Main!SuccessIsTrue
  BY DEF Main!Init, Main!SuccessIsTrue
<1> QED
  BY <1>1, <1>2, <1>3 DEF MainInv

(* The steps before the loop send nothing.                                 *)
LEMMA SetUpKeeps ==
  ASSUME MainInv, Main!HostdAssumption,
         \/ Main!ReadArguments \/ Main!ListDevices \/ Main!InstallHandlers
         \/ Main!CreateCapture \/ Main!StartCapture \/ Main!MakeEncoder
         \/ Main!OpenSender
  PROVE  MainInv'
<1>1. /\ pc \notin Streams \cup {"ended", "announce"}
      /\ pc' \notin Streams /\ code = "none"
      /\ code' \in {"none", "failure", "aborted", "listed"}
      /\ pc' # "ended" => code' = "none"
      /\ UNCHANGED <<stop, announced, total, sequence>>
  BY DEF Main!ReadArguments, Main!ListDevices, Main!InstallHandlers,
         Main!CreateCapture, Main!StartCapture, Main!MakeEncoder, Main!OpenSender,
         Main!SetUp, Main!Exit, Main!Continue, Streams, MainInv, Handles
<1>2. seconds' = seconds \/ (seconds' \in Asked /\ seconds' > 0)
  <2>1. CASE Main!ReadArguments
    BY <2>1 DEF Main!ReadArguments, Main!HostdAssumption
  <2> QED
    BY <2>1
    DEF Main!ListDevices, Main!InstallHandlers, Main!CreateCapture,
        Main!StartCapture, Main!MakeEncoder, Main!OpenSender, Main!SetUp
<1>3. pc' \in Guarded => handled' = Main!Signals
  <2>1. CASE Main!InstallHandlers
    BY <2>1, <1>1
    DEF Main!InstallHandlers, Main!Continue, Main!Signals, Guarded, Streams,
        MainInv, Handles
  <2>2. CASE pc \in Guarded
    BY <2>2
    DEF Main!ReadArguments, Main!ListDevices, Main!InstallHandlers,
        Main!CreateCapture, Main!StartCapture, Main!MakeEncoder, Main!OpenSender,
        Main!SetUp, Guarded, Streams, MainInv, Handles
  <2>3. CASE pc \notin Guarded /\ ~Main!InstallHandlers
    BY <2>3
    DEF Main!ReadArguments, Main!ListDevices, Main!CreateCapture, Main!StartCapture,
        Main!MakeEncoder, Main!OpenSender, Main!SetUp, Main!Exit, Main!Continue,
        Guarded, Streams
  <2> QED
    BY <2>1, <2>2, <2>3
<1>4. ~announced /\ (pc' = "second" => handled' = {"SIGINT"})
  <2>1. pc' = "second" => Main!InstallHandlers /\ pc = "handlers"
    BY DEF Main!ReadArguments, Main!ListDevices, Main!InstallHandlers,
           Main!CreateCapture, Main!StartCapture, Main!MakeEncoder, Main!OpenSender,
           Main!SetUp, Main!Exit, Main!Continue
  <2>2. pc' = "second" => handled' = {"SIGINT"}
    BY <2>1 DEF Main!InstallHandlers
  <2> QED
    BY <1>1, <2>2 DEF MainInv, Handles
<1>5. MainTypes'
  BY <1>1, <1>2 DEF MainInv, MainTypes
<1>6. Handles'
  BY <1>1, <1>3, <1>4 DEF Handles
<1>7. Counts'
  BY <1>1 DEF MainInv, Counts
<1>8. Main!SuccessIsTrue'
  BY <1>1 DEF Main!SuccessIsTrue
<1> QED
  BY <1>5, <1>6, <1>7, <1>8 DEF MainInv

(* The loop begins with nothing sent.                                      *)
LEMMA AnnounceKeeps ==
  ASSUME MainInv, Main!HostdAssumption, AskedFits, Main!Announce PROVE MainInv'
<1>1. /\ pc = "announce" /\ pc' = "loop" /\ announced' = TRUE /\ code' = code
      /\ UNCHANGED <<seconds, handled, stop, sequence>>
  BY DEF Main!Announce, Main!Continue
<1>2. code = "none" /\ sequence = 0 /\ handled = Main!Signals
  BY <1>1 DEF MainInv, Handles, Counts, Streams, Guarded
<1>3. MainTypes' /\ (Limited' <=> Limited) /\ Frames' = Frames
  BY <1>1 DEF MainInv, MainTypes, Limited, Frames
<1>4. Limited => total' = Frames /\ Frames > 0
  <2> SUFFICES ASSUME Limited PROVE total' = Frames /\ Frames > 0
    OBVIOUS
  <2>1. total' = Main!Signed(Frames)
    BY DEF Main!Announce, Limited, Frames
  <2>2. seconds \in Nat \ {0} /\ PerSecond \in Nat \ {0}
    <3>1. seconds \in Asked /\ seconds > 0
      BY DEF MainInv, MainTypes, Limited
    <3> QED
      BY <3>1 DEF Main!HostdAssumption
  <2>3. Frames > 0
    BY <2>2 DEF Frames
  <2> QED
    BY <2>1, <2>3, FramesFit DEF MainInv
<1>5. Handles'
  BY <1>1, <1>2 DEF Handles, Streams, Guarded
<1>6. Counts'
  <2>1. Frames \in Nat \/ ~Limited
    BY FramesFit DEF MainInv
  <2> QED
    BY <1>1, <1>2, <1>3, <1>4, <2>1 DEF Counts, Streams
<1>7. Main!SuccessIsTrue'
  BY <1>1, <1>2 DEF Main!SuccessIsTrue
<1> QED
  BY <1>3, <1>5, <1>6, <1>7 DEF MainInv

(* One round of the loop, or its end.                                      *)
LEMMA LoopKeeps ==
  ASSUME MainInv, Main!HostdAssumption, AskedFits,
         Main!Loop \/ Main!ReadFrame \/ Main!EncodeFrame \/ Main!SendFrame
  PROVE  MainInv'
<1>1. /\ pc \in Streams /\ pc' \in Streams \cup {"ended"} /\ code = "none"
      /\ UNCHANGED <<seconds, handled, stop, announced, total>>
      /\ pc' # "ended" => code' = "none"
      /\ code' # "killed"
      /\ handled = Main!Signals
  BY DEF Main!Loop, Main!ReadFrame, Main!EncodeFrame, Main!SendFrame, Main!SetUp,
         Main!Exit, Main!Continue, MainInv, Handles, Guarded, Streams
<1>2. (Limited' <=> Limited) /\ Frames' = Frames
  BY <1>1 DEF Limited, Frames
<1>3. Limited => /\ total = Frames /\ Frames \in Nat /\ Frames < IntMod \div 2
                 /\ Main!Unsigned(total) = Frames /\ sequence <= Frames
                 /\ pc # "loop" => sequence < Frames
  BY <1>1, FramesFit DEF MainInv, Counts
<1>4. Handles'
  BY <1>1 DEF Handles, Guarded, Streams
<1>5. CASE pc = "send"
  <2>1. Main!SendFrame
    BY <1>5 DEF Main!Loop, Main!ReadFrame, Main!EncodeFrame, Main!SetUp
  <2>2. sequence' \in Nat
    <3>1. PICK m \in Nat \ {0} : m = IntMod
      BY DEF Main!HostdAssumption
    <3>2. (sequence + 1) % m \in Nat
      BY <3>1 DEF MainInv, MainTypes
    <3> QED
      BY <2>1, <3>1, <3>2 DEF Main!SendFrame, Main!Unsigned
  <2>3. Limited => sequence' = sequence + 1
    <3> SUFFICES ASSUME Limited PROVE sequence' = sequence + 1
      OBVIOUS
    <3>1. sequence + 1 \in Nat /\ sequence + 1 < IntMod \div 2
      <4>1. PICK h \in Int : h = IntMod \div 2
        BY DEF Main!HostdAssumption
      <4> QED
        BY <1>3, <1>5, <4>1 DEF MainInv, MainTypes
    <3> QED
      BY <2>1, <3>1, FitsSigned DEF Main!SendFrame
  <2>4. pc' \in {"loop", "ended"} /\ code' # "success"
    BY <1>1, <2>1 DEF Main!SendFrame, Main!Exit, Main!Continue
  <2>5. MainTypes'
    BY <1>1, <2>2 DEF MainInv, MainTypes
  <2>6. Counts'
    <3>1. Limited => sequence' <= Frames
      BY <1>3, <1>5, <2>3 DEF MainInv, MainTypes
    <3> QED
      BY <1>1, <1>2, <1>3, <2>4, <3>1 DEF Counts, Streams
  <2>7. Main!SuccessIsTrue'
    BY <2>4 DEF Main!SuccessIsTrue
  <2> QED
    BY <1>4, <2>5, <2>6, <2>7 DEF MainInv
<1>6. CASE pc \in {"read", "encode"}
  <2>1. /\ sequence' = sequence /\ pc' \in {"encode", "send", "ended"}
        /\ code' # "success"
    BY <1>1, <1>6
    DEF Main!Loop, Main!ReadFrame, Main!EncodeFrame, Main!SendFrame, Main!SetUp,
        Main!Exit, Main!Continue
  <2>2. MainTypes'
    BY <1>1, <2>1 DEF MainInv, MainTypes
  <2>3. Counts'
    BY <1>1, <1>2, <1>3, <1>6, <2>1 DEF Counts, Streams
  <2>4. Main!SuccessIsTrue'
    BY <2>1 DEF Main!SuccessIsTrue
  <2> QED
    BY <1>4, <2>2, <2>3, <2>4 DEF MainInv
<1>7. CASE pc = "loop"
  <2>1. Main!Loop /\ sequence' = sequence
    BY <1>7
    DEF Main!Loop, Main!ReadFrame, Main!EncodeFrame, Main!SendFrame, Main!SetUp
  <2>2. MainTypes'
    BY <1>1, <2>1 DEF MainInv, MainTypes
  <2>3. CASE Main!GoesOn
    <3>1. pc' = "read" /\ code' = "none"
      BY <1>1, <2>1, <2>3 DEF Main!Loop, Main!Continue
    <3>2. Limited => sequence < Frames
      BY <1>3, <2>3 DEF Main!GoesOn, Limited
    <3>3. Counts'
      BY <1>1, <1>2, <1>3, <2>1, <3>1, <3>2 DEF Counts, Streams
    <3>4. Main!SuccessIsTrue'
      BY <3>1 DEF Main!SuccessIsTrue
    <3> QED
      BY <1>4, <2>2, <3>3, <3>4 DEF MainInv
  <2>4. CASE ~Main!GoesOn
    <3>1. pc' = "ended" /\ code' = "success"
      BY <2>1, <2>4 DEF Main!Loop, Main!Exit
    <3>2. stop \/ (Limited /\ sequence = Frames)
      <4>1. stop \/ (Limited /\ ~(sequence < Frames))
        BY <1>3, <2>4 DEF Main!GoesOn, Limited
      <4> QED
        BY <1>3, <4>1 DEF MainInv, MainTypes
    <3>3. Counts'
      BY <3>1 DEF Counts, Streams
    <3>4. Main!SuccessIsTrue'
      BY <1>1, <2>1, <3>2 DEF Main!SuccessIsTrue, Limited, Frames
    <3> QED
      BY <1>4, <2>2, <3>3, <3>4 DEF MainInv
  <2> QED
    BY <2>3, <2>4
<1> QED
  BY <1>1, <1>5, <1>6, <1>7 DEF Streams

(* A signal sets the flag, or ends hostd before it has announced anything. *)
LEMMA SignalKeeps ==
  ASSUME MainInv, NEW signal \in Main!Signals, Main!OnSignal(signal) PROVE MainInv'
<1>1. /\ pc # "ended" /\ code = "none" /\ handled' = handled
      /\ UNCHANGED <<seconds, announced, total, sequence>>
  BY DEF Main!OnSignal, MainInv, Handles
<1>2. CASE signal \in handled
  <2>1. stop' = TRUE /\ pc' = pc /\ code' = code
    BY <1>2 DEF Main!OnSignal
  <2> QED
    BY <1>1, <2>1
    DEF MainInv, MainTypes, Handles, Counts, Main!SuccessIsTrue, Limited, Frames
<1>3. CASE signal \notin handled
  <2>1. stop' = stop /\ pc' = "ended" /\ code' = "killed"
    BY <1>3 DEF Main!OnSignal, Main!Exit
  <2>2. ~announced
    BY <1>1, <1>3 DEF MainInv, Handles, Guarded
  <2> QED
    BY <1>1, <2>1, <2>2
    DEF MainInv, MainTypes, Handles, Counts, Main!SuccessIsTrue, Limited, Frames,
        Guarded, Streams
<1> QED
  BY <1>2, <1>3

LEMMA MainKeeps ==
  Main!HostdAssumption /\ AskedFits /\ MainInv /\ [Main!Next]_Main!vars => MainInv'
<1>1. MainInv /\ UNCHANGED Main!vars => MainInv'
  BY DEF Main!vars, MainInv, MainTypes, Handles, Counts, Main!SuccessIsTrue,
         Limited, Frames
<1> QED
  BY <1>1, SetUpKeeps, AnnounceKeeps, LoopKeeps, SignalKeeps
  DEF Main!Next, Main!Main

(* hostd that has announced its stream is never killed by a signal         *)
(* (std::signal before CreateCapture), and its exit code is 0 only when    *)
(* all was sent that was asked for, or a stop: for any number of seconds   *)
(* whose frames an int can count.                                          *)
THEOREM HostdEndsTrulyAlways ==
  ASSUME AskedFits PROVE Spec => []HostdEndsTruly
<1> DEFINE Inv == part = "main" => MainInv
<1>1. Init => Inv
  BY MainInit DEF Init
<1>2. Inv /\ [Next]_parts => Inv'
  <2> SUFFICES ASSUME Inv, [Next]_parts PROVE Inv'
    OBVIOUS
  <2>1. part' = part
    BY DEF Next, parts
  <2>2. part = "main" => [Main!Next]_Main!vars
    BY DEF Next, parts, main, Main!vars
  <2> QED
    BY <2>1, <2>2, MainKeeps, PartsAssumption
<1>3. Inv => HostdEndsTruly
  BY DEF HostdEndsTruly, MainInv, Handles, Main!AnnouncedStopsCleanly
<1> QED
  BY <1>1, <1>2, <1>3, PTL DEF Spec

-----------------------------------------------------------------------------
(* The capture.  The caller holds the lock between Lock and the return     *)
(* only, and the main loop's thread runs from its start to Stop, which is  *)
(* between the making of the context and its end.                          *)
InCall == {"connect", "awaitContext", "stream", "awaitStream", "read"}

Holds ==
  /\ lock = "caller" => step \in InCall
  /\ lock = "loop" => mainloop = "running"

Running ==
  /\ mainloop = "running" => context # "none"
  /\ step \in {"new", "mainloop", "context", "thread", "free", "gone"} =>
       mainloop # "running"
  /\ step = "thread" => context # "none"
  /\ step = "gone" => mainloop = "none" /\ context = "none" /\ stream = "none"

CaptureInv == Holds /\ Running

(* Start up to the thread, and the end.                                    *)
LEMMA BuildKeeps ==
  ASSUME CaptureInv, Capture!Resolve \/ Capture!Builds \/ Capture!Stop \/ Capture!Free
  PROVE  CaptureInv'
<1> USE DEF CaptureInv, Holds, Running, InCall
<1>1. CASE Capture!Resolve
  BY <1>1 DEF Capture!Resolve, Capture!objects
<1>2. CASE Capture!Builds
  BY <1>2 DEF Capture!Builds, Capture!Build
<1>3. CASE Capture!Stop
  BY <1>3 DEF Capture!Stop
<1>4. CASE Capture!Free
  BY <1>4 DEF Capture!Free
<1> QED
  BY <1>1, <1>2, <1>3, <1>4

(* The caller's steps around the lock change no object, or only what they  *)
(* make.                                                                   *)
LEMMA CallerKeeps ==
  ASSUME CaptureInv,
         \/ Capture!Lock("lock", "connect") \/ Capture!Lock("started", "read")
         \/ Capture!Wakes \/ Capture!Connect \/ Capture!AwaitContext
         \/ Capture!ConnectStream \/ Capture!AwaitStream \/ Capture!Read
         \/ Capture!PeekFails \/ Capture!Destroy
  PROVE  CaptureInv'
<1> USE DEF CaptureInv, Holds, Running, InCall, Capture!objects, Capture!Held,
            Capture!Fails, Capture!Wait
<1>1. CASE Capture!Lock("lock", "connect") \/ Capture!Lock("started", "read")
  BY <1>1 DEF Capture!Lock
<1>2. CASE Capture!Wakes
  BY <1>2 DEF Capture!Wakes
<1>3. CASE Capture!Connect \/ Capture!ConnectStream
  BY <1>3 DEF Capture!Connect, Capture!ConnectStream
<1>4. CASE Capture!AwaitContext
  BY <1>4 DEF Capture!AwaitContext
<1>5. CASE Capture!AwaitStream
  BY <1>5 DEF Capture!AwaitStream
<1>6. CASE Capture!Read
  BY <1>6 DEF Capture!Read
<1>7. CASE Capture!PeekFails \/ Capture!Destroy
  BY <1>7 DEF Capture!PeekFails, Capture!Destroy
<1> QED
  BY <1>1, <1>2, <1>3, <1>4, <1>5, <1>6, <1>7

(* The main loop's thread takes the lock when it runs, and its callbacks   *)
(* never take an object away.                                              *)
LEMMA MainloopKeeps == ASSUME CaptureInv, Capture!Loop PROVE CaptureInv'
<1> USE DEF CaptureInv, Holds, Running, InCall, Capture!objects, Capture!Told,
            Capture!Signals
<1>1. CASE Capture!LoopLocks \/ Capture!NothingNew
  BY <1>1 DEF Capture!LoopLocks, Capture!NothingNew
<1>2. CASE Capture!ContextAnswers \/ Capture!StreamAnswers
  BY <1>2 DEF Capture!ContextAnswers, Capture!StreamAnswers
<1>3. CASE Capture!ConnectionLost
  BY <1>3 DEF Capture!ConnectionLost
<1>4. CASE \E f \in Fragments \cup {0} : Capture!FragmentArrives(f)
  BY <1>4 DEF Capture!FragmentArrives
<1> QED
  BY <1>1, <1>2, <1>3, <1>4 DEF Capture!Loop

LEMMA CaptureKeeps == CaptureInv /\ [Capture!Next]_Capture!vars => CaptureInv'
<1>1. CaptureInv /\ UNCHANGED Capture!vars => CaptureInv'
  BY DEF Capture!vars, CaptureInv, Holds, Running
<1> QED
  BY <1>1, BuildKeeps, CallerKeeps, MainloopKeeps DEF Capture!Next, Capture!Caller

(* In Start, ReadFrame and the destructor of the capture nobody holds the  *)
(* lock too long, and no object is freed while a callback may use it,      *)
(* whatever sizes the fragments have.                                      *)
THEOREM LockAndObjectsAlways == Spec => []LockAndObjects
<1> DEFINE Inv == part = "capture" => CaptureInv
<1>1. Init => Inv
  BY DEF Init, Capture!Init, CaptureInv, Holds, Running
<1>2. Inv /\ [Next]_parts => Inv'
  <2> SUFFICES ASSUME Inv, [Next]_parts PROVE Inv'
    OBVIOUS
  <2>1. part' = part
    BY DEF Next, parts
  <2>2. part = "capture" => [Capture!Next]_Capture!vars
    BY DEF Next, parts, source, Capture!vars
  <2> QED
    BY <2>1, <2>2, CaptureKeeps
<1>3. Inv => LockAndObjects
  BY DEF LockAndObjects, Capture!LockAndObjects, CaptureInv, Holds, Running, InCall
<1> QED
  BY <1>1, <1>2, <1>3, PTL DEF Spec

-----------------------------------------------------------------------------
(* The pace.  Without gaps the sound that was complete at some moment is   *)
(* what was sent, what waits and what is on its way, so that left, the     *)
(* distance to the schedule, says how much waits.  Whenever the thread has *)
(* nothing to do, no frame waits, and what is on its way bounds how far    *)
(* the schedule lies back: no earlier delay is left in it.                 *)
PaceTypes ==
  /\ phase \in 0..Fragment - 1 /\ due \in Seq(Nat) /\ fragments \in Nat /\ sound \in Nat
  /\ left \in Int /\ paced \in {"read", "pace"} /\ late \in 0..Late

\* The fragments on their way are one period apart.
Apart ==
  /\ \A i \in 1..Len(due) : due[i] = phase + (Len(due) - i) * Fragment
  /\ due # <<>> => due[1] <= Jitter

Conserved ==
  left + sound + fragments * Fragment + Len(due) * Fragment + phase \in 0..Ahead

Scheduled ==
  /\ left <= Frame /\ (paced = "read" => left <= 0)
  /\ left + Frame + Fragment + Jitter + late >= 0

PaceInv == PaceTypes /\ Apart /\ Conserved /\ Scheduled

(* One fragment more or less.                                              *)
LEMMA OneMore ==
  ASSUME NEW f \in Int, NEW n \in Int
  PROVE  n * f \in Int /\ (n + 1) * f = n * f + f /\ (n - 1) * f = n * f - f
  OBVIOUS

LEMMA PaceInit == Pacing!PulsePacingAssumption /\ Pacing!Init => PaceInv
<1> SUFFICES ASSUME Pacing!PulsePacingAssumption, Pacing!Init PROVE PaceInv
  OBVIOUS
<1>1. /\ {Frame, Fragment} \subseteq Nat \ {0} /\ {Ahead, Jitter, Late} \subseteq Nat
      /\ phase \in 0..Fragment - 1 /\ fragments \in 0..Ahead
      /\ fragments * Fragment + phase <= Ahead
      /\ due = <<>> /\ sound = 0 /\ left = 0 /\ paced = "read" /\ late = 0
  BY DEF Pacing!PulsePacingAssumption, Pacing!Init
<1>2. PaceTypes /\ Apart /\ Scheduled
  BY <1>1 DEF PaceTypes, Apart, Scheduled
<1>3. Conserved
  <2>1. Len(due) * Fragment = 0
    BY <1>1, OneMore
  <2>2. fragments * Fragment \in Nat
    BY <1>1
  <2> QED
    BY <1>1, <2>1, <2>2 DEF Conserved
<1> QED
  BY <1>2, <1>3 DEF PaceInv

(* A frame is taken, or a fragment is put to what is pending.              *)
LEMMA ReadFrameKeeps ==
  ASSUME Pacing!PulsePacingAssumption, PaceInv, Pacing!ReadFrame PROVE PaceInv'
<1>1. /\ paced = "read" /\ UNCHANGED <<phase, due, late>>
      /\ Frame \in Nat \ {0} /\ Fragment \in Nat \ {0} /\ Jitter \in Nat /\ Late \in Nat
  BY DEF Pacing!ReadFrame, Pacing!PulsePacingAssumption
<1>2. /\ phase \in Nat /\ Len(due) * Fragment \in Int /\ fragments * Fragment \in Int
      /\ fragments \in Nat /\ sound \in Nat /\ left \in Int /\ late \in 0..Late
  <2>1. Len(due) \in Nat
    BY DEF PaceInv, PaceTypes
  <2> QED
    BY <1>1, <2>1, OneMore DEF PaceInv, PaceTypes
<1>3. Apart'
  BY <1>1 DEF PaceInv, Apart
<1>4. CASE /\ sound >= Frame /\ sound' = sound - Frame /\ paced' = "pace"
           /\ left' = left + Frame /\ fragments' = fragments
  <2>1. PaceTypes' /\ Scheduled'
    BY <1>1, <1>2, <1>4 DEF PaceInv, PaceTypes, Scheduled
  <2>2. Conserved'
    BY <1>1, <1>2, <1>4 DEF PaceInv, Conserved
  <2> QED
    BY <1>3, <2>1, <2>2 DEF PaceInv
<1>5. CASE /\ fragments > 0 /\ fragments' = fragments - 1 /\ sound' = sound + Fragment
           /\ paced' = paced /\ left' = left
  <2>1. PaceTypes' /\ Scheduled'
    BY <1>1, <1>2, <1>5 DEF PaceInv, PaceTypes, Scheduled
  <2>2. fragments' * Fragment = fragments * Fragment - Fragment
    BY <1>1, <1>2, <1>5, OneMore
  <2>3. Conserved'
    BY <1>1, <1>2, <1>5, <2>2 DEF PaceInv, Conserved
  <2> QED
    BY <1>3, <2>1, <2>3 DEF PaceInv
<1> QED
  BY <1>4, <1>5 DEF Pacing!ReadFrame, Pacing!Take, Pacing!Paces

LEMMA ReturnKeeps == ASSUME PaceInv, Pacing!Return PROVE PaceInv'
  BY DEF Pacing!Return, PaceInv, PaceTypes, Apart, Conserved, Scheduled

(* A fragment arrives.                                                     *)
LEMMA ArriveKeeps ==
  ASSUME Pacing!PulsePacingAssumption, PaceInv, Pacing!Arrive PROVE PaceInv'
<1>1. /\ due # <<>> /\ due' = Tail(due) /\ fragments' = fragments + 1
      /\ UNCHANGED <<phase, sound, left, paced, late>> /\ Fragment \in Nat \ {0}
      /\ due \in Seq(Nat) /\ phase \in Nat /\ fragments \in Nat /\ Jitter \in Nat
  BY DEF Pacing!Arrive, Pacing!PulsePacingAssumption, PaceInv, PaceTypes
<1>2. /\ due' \in Seq(Nat) /\ Len(due') = Len(due) - 1 /\ Len(due) \in Nat \ {0}
      /\ \A i \in 1..Len(due') : due'[i] = due[i + 1]
  BY <1>1, HeadTailProperties
<1>3. PaceTypes'
  BY <1>1, <1>2 DEF PaceInv, PaceTypes
<1>4. Apart'
  <2>1. ASSUME NEW i \in 1..Len(due')
        PROVE  due'[i] = phase + (Len(due') - i) * Fragment
    <3>1. i + 1 \in 1..Len(due) /\ Len(due) - (i + 1) = Len(due') - i
      BY <1>2
    <3> QED
      BY <1>2, <3>1 DEF PaceInv, Apart
  <2>2. due' # <<>> => due'[1] <= Jitter
    <3> SUFFICES ASSUME due' # <<>> PROVE due'[1] <= Jitter
      OBVIOUS
    <3>1. 1 \in 1..Len(due') /\ 1 \in 1..Len(due)
      BY <1>2
    <3>2. /\ due[1] <= Jitter /\ due[1] = phase + (Len(due) - 1) * Fragment
          /\ due'[1] = phase + (Len(due) - 1 - 1) * Fragment
      BY <1>1, <1>2, <2>1, <3>1 DEF PaceInv, Apart
    <3>3. PICK n \in Int : n = Len(due) - 1
      BY <1>2
    <3>4. (n - 1) * Fragment = n * Fragment - Fragment /\ n * Fragment \in Int
      BY <1>1, OneMore
    <3> QED
      BY <1>1, <3>2, <3>3, <3>4
  <2> QED
    BY <1>1, <2>1, <2>2 DEF Apart
<1>5. Conserved'
  <2>1. /\ Len(due') * Fragment = Len(due) * Fragment - Fragment
        /\ fragments' * Fragment = fragments * Fragment + Fragment
        /\ Len(due) * Fragment \in Int /\ fragments * Fragment \in Int
    BY <1>1, <1>2, OneMore
  <2> QED
    BY <1>1, <2>1 DEF PaceInv, PaceTypes, Conserved
<1>6. Scheduled'
  BY <1>1 DEF PaceInv, Scheduled
<1> QED
  BY <1>3, <1>4, <1>5, <1>6 DEF PaceInv

(* The fragments on their way grow older together, and the next one joins  *)
(* them when it is complete.                                               *)
LEMMA TickAges ==
  ASSUME Pacing!PulsePacingAssumption, PaceInv, Pacing!Tick
  PROVE  /\ phase' \in 0..Fragment - 1 /\ due' \in Seq(Nat) /\ Apart'
         /\ Len(due') * Fragment + phase' = Len(due) * Fragment + phase + 1
<1>1. /\ Fragment \in Nat \ {0} /\ phase \in 0..Fragment - 1 /\ due \in Seq(Nat)
      /\ Jitter \in Nat /\ Len(due) \in Nat
  BY DEF Pacing!PulsePacingAssumption, PaceInv, PaceTypes
<1>2. phase' = IF phase + 1 = Fragment THEN 0 ELSE phase + 1
  <2>1. phase' = (phase + 1) % Fragment
    BY DEF Pacing!Tick
  <2>2. CASE phase + 1 = Fragment
    <3>1. Fragment % Fragment = 0
      BY <1>1
    <3> QED
      BY <2>1, <2>2, <3>1
  <2>3. CASE phase + 1 # Fragment
    <3>1. phase + 1 \in 0..Fragment - 1
      BY <1>1, <2>3
    <3> QED
      BY <1>1, <2>1, <2>3, <3>1, FitsUnsigned
  <2> QED
    BY <2>2, <2>3
<1> DEFINE aged == [i \in DOMAIN due |-> due[i] + 1]
<1>3. /\ aged \in Seq(Nat) /\ Len(aged) = Len(due)
      /\ \A i \in 1..Len(due) : aged[i] = due[i] + 1
  BY <1>1
<1>4. \A i \in 1..Len(due) : aged[i] = phase + 1 + (Len(due) - i) * Fragment
  <2> TAKE i \in 1..Len(due)
  <2>1. due[i] = phase + (Len(due) - i) * Fragment /\ (Len(due) - i) * Fragment \in Int
    BY <1>1, OneMore DEF PaceInv, Apart
  <2> QED
    BY <1>1, <1>3, <2>1
<1>5. due # <<>> => aged[1] <= Jitter
  <2> SUFFICES ASSUME due # <<>> PROVE aged[1] <= Jitter
    OBVIOUS
  <2>1. 1 \in 1..Len(due) /\ 1 \in DOMAIN due /\ due[1] \in Nat
    BY <1>1
  <2>2. due[1] < Jitter
    BY <2>1 DEF Pacing!Tick
  <2> QED
    BY <1>1, <1>3, <2>1, <2>2
<1>6. CASE phase + 1 = Fragment
  <2>1. phase' = 0 /\ due' = Append(aged, 0)
    BY <1>2, <1>6 DEF Pacing!Tick
  <2> HIDE DEF aged
  <2>2. /\ due' \in Seq(Nat) /\ Len(due') = Len(due) + 1 /\ due'[Len(due) + 1] = 0
        /\ \A i \in 1..Len(due) : due'[i] = aged[i]
    BY <1>1, <1>3, <2>1
  <2>3. ASSUME NEW i \in 1..Len(due')
        PROVE  due'[i] = phase' + (Len(due') - i) * Fragment
    <3>1. CASE i = Len(due) + 1
      <4>1. Len(due') - i = 0 /\ 0 * Fragment = 0
        BY <1>1, <2>2, <3>1
      <4> QED
        BY <2>1, <2>2, <3>1, <4>1
    <3>2. CASE i \in 1..Len(due)
      <4>1. PICK n \in Int : n = Len(due) - i
        BY <1>1, <3>2
      <4>2. Len(due') - i = n + 1
        BY <1>1, <2>2, <3>2, <4>1
      <4>3. due'[i] = Fragment + n * Fragment
        BY <1>4, <1>6, <2>2, <3>2, <4>1
      <4>4. (n + 1) * Fragment = n * Fragment + Fragment /\ n * Fragment \in Int
        BY <1>1, OneMore
      <4>5. (Len(due') - i) * Fragment = n * Fragment + Fragment
        BY <4>2, <4>4
      <4> QED
        BY <1>1, <2>1, <4>3, <4>4, <4>5
    <3> QED
      BY <1>1, <2>2, <3>1, <3>2
  <2>4. due'[1] <= Jitter
    <3>1. CASE due = <<>>
      BY <1>1, <2>2, <3>1
    <3>2. CASE due # <<>>
      BY <1>1, <1>5, <2>2, <3>2
    <3> QED
      BY <3>1, <3>2
  <2>5. Apart'
    BY <2>3, <2>4 DEF Apart
  <2>6. Len(due') * Fragment = Len(due) * Fragment + Fragment /\ Len(due) * Fragment \in Int
    BY <1>1, <2>2, OneMore
  <2> QED
    BY <1>1, <1>6, <2>1, <2>2, <2>5, <2>6
<1>7. CASE phase + 1 # Fragment
  <2>1. phase' = phase + 1 /\ phase' \in 1..Fragment - 1
    BY <1>1, <1>2, <1>7
  <2>2. due' = aged
    BY <2>1 DEF Pacing!Tick
  <2> HIDE DEF aged
  <2>3. Apart'
    <3>1. \A i \in 1..Len(due') : due'[i] = phase' + (Len(due') - i) * Fragment
      BY <1>3, <1>4, <2>1, <2>2
    <3>2. due' # <<>> => due'[1] <= Jitter
      BY <1>1, <1>3, <1>5, <2>2
    <3> QED
      BY <3>1, <3>2 DEF Apart
  <2>4. Len(due) * Fragment \in Int
    BY <1>1, OneMore
  <2>5. due' \in Seq(Nat) /\ Len(due') = Len(due)
    BY <1>3, <2>2
  <2>6. phase' \in 0..Fragment - 1
    BY <1>1, <2>1
  <2>7. Len(due') * Fragment + phase' = Len(due) * Fragment + phase + 1
    BY <1>1, <2>1, <2>4, <2>5
  <2> QED
    BY <2>3, <2>5, <2>6, <2>7
<1> QED
  BY <1>6, <1>7

(* A tick: the thread is late, or it waits for sound and what is on its    *)
(* way says how long, or it sleeps until its schedule.                     *)
LEMMA TickKeeps ==
  ASSUME Pacing!PulsePacingAssumption, PaceInv, Pacing!Tick PROVE PaceInv'
<1>1. /\ phase' \in 0..Fragment - 1 /\ due' \in Seq(Nat) /\ Apart'
      /\ Len(due') * Fragment + phase' = Len(due) * Fragment + phase + 1
  BY TickAges
<1>2. /\ UNCHANGED <<fragments, sound, paced>> /\ left' = left - 1 /\ late' <= Late
      /\ late' = (IF Pacing!Runnable THEN late + 1 ELSE 0)
  BY DEF Pacing!Tick
<1>3. /\ Frame \in Nat \ {0} /\ Fragment \in Nat \ {0} /\ Jitter \in Nat /\ Late \in Nat
      /\ fragments \in Nat /\ sound \in Nat /\ left \in Int /\ late \in 0..Late
      /\ paced \in {"read", "pace"} /\ phase \in Nat
      /\ Len(due) \in Nat /\ Len(due') \in Nat
  BY <1>1 DEF Pacing!PulsePacingAssumption, PaceInv, PaceTypes
<1>4. late' \in 0..Late
  BY <1>2, <1>3
<1>5. PaceTypes'
  BY <1>1, <1>2, <1>3, <1>4 DEF PaceTypes
<1>6. /\ Len(due) * Fragment \in Int /\ Len(due') * Fragment \in Int
      /\ fragments * Fragment \in Int
  BY <1>3, OneMore
<1>7. Conserved'
  <2>1. PICK w \in Int : w = Len(due) * Fragment + phase
    BY <1>3, <1>6
  <2>2. PICK r \in Int : r = fragments * Fragment /\ r = fragments' * Fragment
    BY <1>2, <1>6
  <2>3. left + sound + r + w \in 0..Ahead
    BY <1>3, <1>6, <2>1, <2>2 DEF PaceInv, Conserved
  <2>4. left' + sound' + r + (w + 1) \in 0..Ahead
    BY <1>2, <1>3, <2>3
  <2>5. Len(due') * Fragment + phase' = w + 1 /\ phase' \in Int
    BY <1>1, <2>1
  <2> QED
    BY <1>2, <1>3, <1>6, <2>2, <2>4, <2>5 DEF Conserved
<1>8. Len(due') * Fragment + phase' <= Jitter + Fragment
  <2>1. Len(due) * Fragment + phase + 1 <= Jitter + Fragment
    <3>1. CASE due' = <<>>
      <4>1. Len(due') * Fragment = 0
        BY <1>3, <3>1, OneMore
      <4> QED
        BY <1>1, <1>3, <1>6, <4>1
    <3>2. CASE due' # <<>>
      <4>1. 1 \in 1..Len(due') /\ due'[1] <= Jitter
        BY <1>1, <3>2 DEF Apart
      <4>2. phase' + (Len(due') - 1) * Fragment <= Jitter
        BY <1>1, <4>1 DEF Apart
      <4>3. (Len(due') - 1) * Fragment = Len(due') * Fragment - Fragment
        BY <1>3, OneMore
      <4> QED
        BY <1>1, <1>3, <1>6, <4>2, <4>3
    <3> QED
      BY <3>1, <3>2
  <2> QED
    BY <1>1, <2>1
<1>9. Scheduled'
  <2>1. left' <= Frame /\ (paced' = "read" => left' <= 0)
    BY <1>2, <1>3 DEF PaceInv, Scheduled
  <2>2. left' + Frame + Fragment + Jitter + late' >= 0
    <3>1. CASE Pacing!Runnable
      BY <1>2, <1>3, <3>1 DEF PaceInv, Scheduled
    <3>2. CASE ~Pacing!Runnable /\ paced = "pace"
      <4>1. left > 0 /\ late' = 0
        BY <1>2, <1>3, <3>2 DEF Pacing!Runnable
      <4> QED
        BY <1>2, <1>3, <4>1
    <3>3. CASE ~Pacing!Runnable /\ paced = "read"
      <4>1. sound < Frame /\ fragments = 0
        BY <1>3, <3>3 DEF Pacing!Runnable
      <4>2. fragments' * Fragment = 0 /\ sound' = sound
        BY <1>2, <1>3, <4>1
      <4>3. left' + sound + (Len(due') * Fragment + phase') >= 0
        BY <1>1, <1>2, <1>3, <1>6, <1>7, <4>2 DEF Conserved
      <4>4. late' \in Nat
        BY <1>3, <1>4
      <4>5. PICK w \in Int : w = Len(due') * Fragment + phase'
        BY <1>1, <1>3, <1>6
      <4> QED
        BY <1>2, <1>3, <1>8, <4>1, <4>3, <4>4, <4>5
    <3> QED
      BY <1>3, <3>1, <3>2, <3>3
  <2> QED
    BY <2>1, <2>2 DEF Scheduled
<1> QED
  BY <1>1, <1>5, <1>7, <1>9 DEF PaceInv

LEMMA PaceKeeps ==
  Pacing!PulsePacingAssumption /\ PaceInv /\ [Pacing!Next]_Pacing!vars => PaceInv'
<1>1. PaceInv /\ UNCHANGED Pacing!vars => PaceInv'
  BY DEF Pacing!vars, PaceInv, PaceTypes, Apart, Conserved, Scheduled
<1> QED
  BY <1>1, ReadFrameKeeps, ReturnKeeps, ArriveKeeps, TickKeeps DEF Pacing!Next

(* The invariant bounds both the lateness and what waits.                  *)
LEMMA PaceBounds ==
  ASSUME Pacing!PulsePacingAssumption, PaceInv
  PROVE  Pacing!OnTime /\ Pacing!BacklogBounded
<1>1. /\ Frame \in Nat \ {0} /\ Fragment \in Nat \ {0} /\ {Ahead, Jitter, Late} \subseteq Nat
      /\ fragments \in Nat /\ sound \in Nat /\ left \in Int /\ late \in 0..Late
      /\ phase \in Nat /\ Len(due) \in Nat
  BY DEF Pacing!PulsePacingAssumption, PaceInv, PaceTypes
<1>2. left \in -(Frame + Fragment + Jitter + Late) .. Frame
  BY <1>1 DEF PaceInv, Scheduled
<1>3. Len(due) * Fragment \in Nat /\ fragments * Fragment \in Int
  BY <1>1
<1>4. sound + fragments * Fragment <= Ahead - left
  BY <1>1, <1>3 DEF PaceInv, Conserved
<1>5. sound + fragments * Fragment <= Ahead + Frame + Fragment + Jitter + Late
  <2> DEFINE waits_ == sound + fragments * Fragment
  <2>1. waits_ \in Int /\ waits_ <= Ahead - left
    BY <1>1, <1>3, <1>4
  <2> HIDE DEF waits_
  <2>2. waits_ <= Ahead + Frame + Fragment + Jitter + Late
    BY <1>1, <1>2, <2>1
  <2> QED
    BY <2>2 DEF waits_
<1> QED
  BY <1>2, <1>5 DEF Pacing!OnTime, Pacing!BacklogBounded

(* From a server that leaves nothing out, ReadFrame is late by no more     *)
(* than a frame, a fragment, the jitter and the delay of the thread since  *)
(* it last had nothing to do, and no more sound than that, and than there  *)
(* was at the start, waits: whatever the fragments are, and however often  *)
(* the thread is late again.                                               *)
THEOREM PulseKeepsPaceAlways == Spec => []PulseKeepsPace
<1> DEFINE Inv == part = "pacing" => PaceInv
<1>1. Init => Inv
  BY PaceInit, PartsAssumption DEF Init
<1>2. Inv /\ [Next]_parts => Inv'
  <2> SUFFICES ASSUME Inv, [Next]_parts PROVE Inv'
    OBVIOUS
  <2>1. part' = part
    BY DEF Next, parts
  <2>2. part = "pacing" => [Pacing!Next]_Pacing!vars
    BY DEF Next, parts, pace, Pacing!vars
  <2> QED
    BY <2>1, <2>2, PaceKeeps, PartsAssumption
<1>3. Inv => PulseKeepsPace
  BY PaceBounds, PartsAssumption DEF PulseKeepsPace
<1> QED
  BY <1>1, <1>2, <1>3, PTL DEF Spec

-----------------------------------------------------------------------------
(* The conversations.  What has been found, then what the server still     *)
(* sends, is what it was asked for, in order, up to the end of the list.   *)
Devices == [id : Sinks, is_default : BOOLEAN]
Defaults == Sinks \cup {Lookup!None}

Answer(default, found, info, sinks) ==
  [default_sink_name |-> default, found |-> found,
   server_info_done |-> info, sinks_done |-> sinks]

\* The devices found so far are the first of those offered.
FoundOf(found, sinks, default) ==
  /\ Len(found) <= Len(sinks)
  /\ \A i \in 1..Len(found) :
       found[i] = [id |-> sinks[i], is_default |-> sinks[i] = default]

\* The others are still to come, and then the end of the list.
RestOf(sent, found, sinks) ==
  /\ sent \in Seq(Sinks \cup {"eol"}) /\ Len(sent) = Len(sinks) - Len(found) + 1
  /\ \A i \in 1..Len(sinks) - Len(found) : sent[i] = sinks[Len(found) + i]
  /\ sent[Len(sent)] = "eol"

\* Complete, or one of the two answers is missing.
Complete(l, sent, sinks) ==
  /\ sinks \in Seq(Sinks) /\ sent = <<>>
  /\ \E default \in Defaults, found \in Seq(Devices) :
       /\ l = Answer(default, found, TRUE, TRUE)
       /\ FoundOf(found, sinks, default) /\ Len(found) = Len(sinks)

Answering(l, sent, sinks) ==
  /\ sinks \in Seq(Sinks)
  /\ \E default \in Defaults, found \in Seq(Devices) :
       /\ l = Answer(default, found, TRUE, FALSE)
       /\ FoundOf(found, sinks, default) /\ RestOf(sent, found, sinks)

Asking(l, sent, sinks, is_requested) ==
  /\ l = Lookup!NewLookup /\ sinks = <<>>
  /\ sent = (IF is_requested THEN <<"server_info">> ELSE <<>>)

Conversation(l, sent, sinks, is_requested) ==
  \/ Asking(l, sent, sinks, is_requested)
  \/ is_requested /\ (Answering(l, sent, sinks) \/ Complete(l, sent, sinks))

LookupInv ==
  /\ requested \in BOOLEAN /\ Conversation(lookup, answers, offered, requested)
  /\ stage = "out" /\ ~broken => Complete(lookup, answers, offered)

(* A sequence of one member, put together and taken apart.                 *)
LEMMA AppendToNone == ASSUME NEW x PROVE Append(<<>>, x) = <<x>>
<1>1. <<>> \in Seq({x})
  OBVIOUS
<1>2. Append(<<>>, x) = <<>> \o <<x>>
  BY <1>1, AppendIsConcat
<1>3. <<x>> \in Seq({x})
  OBVIOUS
<1> QED
  BY <1>2, <1>3, ConcatEmptySeq

LEMMA TailOfOne == ASSUME NEW x PROVE Tail(<<x>>) = <<>>
<1>1. <<x>> \in Seq({x}) /\ <<x>> # <<>> /\ Len(<<x>>) = 1
  OBVIOUS
<1>2. Tail(<<x>>) \in Seq({x}) /\ Len(Tail(<<x>>)) = 0
  BY <1>1, HeadTailProperties
<1> QED
  BY <1>2, EmptySeq

LEMMA HeadAndTail ==
  ASSUME NEW S, NEW s \in Seq(S), s # <<>>
  PROVE  /\ Head(s) = s[1] /\ Len(Tail(s)) = Len(s) - 1 /\ Tail(s) \in Seq(S)
         /\ \A i \in 1..Len(s) - 1 : Tail(s)[i] = s[i + 1]
  BY HeadTailProperties

(* The code's list of a set of sinks is one.                               *)
LEMMA ListedSinks ==
  ASSUME Lookup!LookupAssumption, NEW S \in SUBSET Sinks
  PROVE  Lookup!SetToSeq(S) \in Seq(Sinks)
<1>1. Lookup!Cardinality(S) = Cardinality(S)
  BY DEF Lookup!Cardinality, Cardinality
<1>2. IsFiniteSet(S)
  <2>1. IsFiniteSet(Sinks)
    BY DEF Lookup!LookupAssumption, Lookup!IsFiniteSet, IsFiniteSet
  <2> QED
    BY <2>1, FS_Subset
<1>3. Cardinality(S) \in Nat /\ \E f \in Bijection(1..Cardinality(S), S) : TRUE
  BY <1>2, FS_CardinalityType DEF ExistsBijection
<1>4. PICK f \in [1..Cardinality(S) -> S] : IsInjective(f)
  BY <1>3 DEF Bijection, Injection
<1>5. Lookup!SetToSeq(S) \in [1..Cardinality(S) -> S]
  BY <1>1, <1>4 DEF Lookup!SetToSeq, Lookup!IsInjective, IsInjective
<1>6. Lookup!SetToSeq(S) \in Seq(S)
  BY <1>3, <1>5
<1> QED
  BY <1>6

(* What the callbacks make of a lookup.                                    *)
ToServerInfo(l, default, info, sinks) ==
  [l EXCEPT !.default_sink_name = default, !.server_info_done = info, !.sinks_done = sinks]
WithDevice(l, device) == [l EXCEPT !.found = Append(@, device)]
WithEnd(l, sinks) == [l EXCEPT !.sinks_done = sinks]

LEMMA AnswerToServerInfo ==
  ASSUME NEW a, NEW b, NEW c, NEW d, NEW x, NEW y, NEW z
  PROVE  ToServerInfo(Answer(a, b, c, d), x, y, z) = Answer(x, b, y, z)
<1>1. PICK l : l = Answer(a, b, c, d)
  OBVIOUS
<1>2. PICK m : m = [l EXCEPT !.default_sink_name = x]
  OBVIOUS
<1>3. m = Answer(x, b, c, d)
  BY <1>1, <1>2 DEF Answer
<1>4. PICK n : n = [m EXCEPT !.server_info_done = y]
  OBVIOUS
<1>5. n = Answer(x, b, y, d)
  BY <1>3, <1>4 DEF Answer
<1>6. [n EXCEPT !.sinks_done = z] = Answer(x, b, y, z)
  BY <1>5 DEF Answer
<1> QED
  BY <1>1, <1>2, <1>4, <1>6 DEF ToServerInfo

LEMMA AnswerToSinks ==
  ASSUME NEW a, NEW b, NEW c, NEW d, NEW x
  PROVE  /\ WithDevice(Answer(a, b, c, d), x) = Answer(a, Append(b, x), c, d)
         /\ WithEnd(Answer(a, b, c, d), x) = Answer(a, b, c, x)
<1>1. WithDevice(Answer(a, b, c, d), x) = Answer(a, Append(b, x), c, d)
  BY DEF WithDevice, Answer
<1>2. WithEnd(Answer(a, b, c, d), x) = Answer(a, b, c, x)
  BY DEF WithEnd, Answer
<1> QED
  BY <1>1, <1>2

LEMMA AnswerToFirst ==
  ASSUME NEW a, NEW x, NEW done
  PROVE  ToServerInfo(Answer(a, <<>>, FALSE, FALSE), x, TRUE, done) =
             Answer(x, <<>>, TRUE, done)
<1>1. PICK yes : yes = TRUE
  BY Zenon
<1>2. PICK no : no = FALSE
  BY Zenon
<1>3. ToServerInfo(Answer(a, <<>>, no, no), x, yes, done) = Answer(x, <<>>, yes, done)
  BY AnswerToServerInfo
<1> QED
  BY <1>1, <1>2, <1>3, Zenon

LEMMA AnswerToSecond ==
  ASSUME NEW a, NEW b, NEW x
  PROVE  /\ WithDevice(Answer(a, b, TRUE, FALSE), x) = Answer(a, Append(b, x), TRUE, FALSE)
         /\ WithEnd(Answer(a, b, TRUE, FALSE), TRUE) = Answer(a, b, TRUE, TRUE)
<1>1. PICK yes : yes = TRUE
  BY Zenon
<1>2. PICK no : no = FALSE
  BY Zenon
<1>3. /\ WithDevice(Answer(a, b, yes, no), x) = Answer(a, Append(b, x), yes, no)
      /\ WithEnd(Answer(a, b, yes, no), yes) = Answer(a, b, yes, yes)
  BY AnswerToSinks
<1> QED
  BY <1>1, <1>2, <1>3, Zenon

(* The end of an iteration keeps the conversation as its callback left it, *)
(* and leaves it only when it is complete or broken off.                   *)
LEMMA IterationKeeps ==
  ASSUME requested \in BOOLEAN, stage = "loop", NEW s, NEW l, NEW sent,
         Lookup!Iterated(s, l, sent), Conversation(l, sent, offered', requested)
  PROVE  LookupInv'
<1>1. lookup' = l
  BY DEF Lookup!Iterated
<1>2. CASE ~requested /\ requested' = TRUE /\ answers' = Append(sent, "server_info")
           /\ stage' = stage
  <2>1. Asking(l, sent, offered', FALSE)
    BY <1>2 DEF Conversation
  <2>2. answers' = <<"server_info">>
    <3>1. sent = <<>>
      BY <2>1 DEF Asking
    <3>2. answers' = Append(sent, "server_info")
      BY <1>2
    <3> QED
      BY <3>1, <3>2, AppendToNone
  <2> QED
    BY <1>1, <1>2, <2>1, <2>2 DEF LookupInv, Conversation, Asking
<1>3. CASE requested' = requested /\ answers' = sent
  <2>1. requested' \in BOOLEAN /\ Conversation(l, sent, offered', requested')
    BY <1>3
  <2>2. Conversation(lookup', answers', offered', requested')
    BY <1>1, <1>3, <2>1
  <2>3. stage' = "out" /\ ~broken' => requested /\ Lookup!Done(l)
    BY DEF Lookup!Iterated, Lookup!Leave
  <2>4. requested /\ Lookup!Done(l) => Complete(l, sent, offered')
    <3>1. Asking(l, sent, offered', requested) => l.sinks_done = FALSE
      BY DEF Asking, Lookup!NewLookup
    <3>2. Answering(l, sent, offered') => l.sinks_done = FALSE
      BY DEF Answering, Answer
    <3>3. Lookup!Done(l) => l.sinks_done # FALSE
      BY Zenon DEF Lookup!Done
    <3> QED
      BY <3>1, <3>2, <3>3, Zenon DEF Conversation
  <2>5. stage' = "out" /\ ~broken' => Complete(lookup', answers', offered')
    BY <1>1, <1>3, <2>3, <2>4
  <2> QED
    BY <2>1, <2>2, <2>5 DEF LookupInv
<1> QED
  BY <1>2, <1>3 DEF Lookup!Iterated

(* Nothing of the conversation changes.                                    *)
LEMMA QuietIterationKeeps ==
  ASSUME LookupInv, stage = "loop",
         Lookup!ContextChanges \/ Lookup!Nothing \/ Lookup!LoopFails
  PROVE  LookupInv'
<1>1. CASE Lookup!ContextChanges \/ Lookup!Nothing
  <2>1. PICK s : Lookup!Iterated(s, lookup, answers)
    BY <1>1 DEF Lookup!ContextChanges, Lookup!Nothing
  <2>2. offered' = offered
    BY <1>1 DEF Lookup!ContextChanges, Lookup!Nothing
  <2>3. Conversation(lookup, answers, offered', requested)
    BY <2>2 DEF LookupInv
  <2> QED
    BY <2>1, <2>3, IterationKeeps DEF LookupInv
<1>2. CASE Lookup!LoopFails
  BY <1>2 DEF Lookup!LoopFails, LookupInv
<1> QED
  BY <1>1, <1>2

(* The first answer: the second request is made, and then the server has a *)
(* list to send, or it is not, and then nothing is left to wait for.       *)
LEMMA ServerAnswersKeeps ==
  ASSUME Lookup!LookupAssumption, LookupInv, stage = "loop", Lookup!ServerAnswers
  PROVE  LookupInv'
<1>1. Asking(lookup, answers, offered, TRUE) /\ requested
  <2>1. answers # <<>> /\ Head(answers) = "server_info"
    BY DEF Lookup!ServerAnswers
  <2>2. ~Answering(lookup, answers, offered)
    <3> SUFFICES ASSUME Answering(lookup, answers, offered) PROVE FALSE
      OBVIOUS
    <3>1. answers \in Seq(Sinks \cup {"eol"})
      BY DEF Answering, RestOf
    <3>2. Head(answers) \in Sinks \cup {"eol"}
      BY <2>1, <3>1, HeadTailProperties
    <3> QED
      BY <2>1, <3>2 DEF Lookup!LookupAssumption
  <2>3. ~Complete(lookup, answers, offered)
    BY <2>1 DEF Complete
  <2>4. requested \in BOOLEAN /\ Conversation(lookup, answers, offered, requested)
    BY DEF LookupInv
  <2>5. Asking(lookup, answers, offered, requested) /\ requested # FALSE
    <3>1. Asking(lookup, answers, offered, requested)
      BY <2>2, <2>3, <2>4, Zenon DEF Conversation
    <3> QED
      BY <2>1, <3>1 DEF Asking
  <2> QED
    BY <2>4, <2>5
<1>2. PICK default \in Defaults, asks \in BOOLEAN, there \in SUBSET Sinks :
        LET sent == Lookup!SetToSeq(IF kind = "resolve" THEN there \cap {default} ELSE there)
        IN  /\ offered' = (IF asks THEN sent ELSE <<>>)
            /\ Lookup!Iterated(state, Lookup!OnServerInfo(lookup, default, asks),
                 Tail(answers) \o (IF asks THEN Append(sent, "eol") ELSE <<>>))
  BY DEF Lookup!ServerAnswers, Defaults
<1> DEFINE sinks == Lookup!SetToSeq(IF kind = "resolve" THEN there \cap {default} ELSE there)
           l == Lookup!OnServerInfo(lookup, default, asks)
           sent == Tail(answers) \o (IF asks THEN Append(sinks, "eol") ELSE <<>>)
<1>3. sinks \in Seq(Sinks)
  <2>1. (IF kind = "resolve" THEN there \cap {default} ELSE there) \in SUBSET Sinks
    OBVIOUS
  <2> QED
    BY <2>1, ListedSinks
<1>4. l = Answer(default, <<>>, TRUE, ~asks)
  <2>1. lookup = Answer(Lookup!None, <<>>, FALSE, FALSE)
    BY <1>1 DEF Asking, Lookup!NewLookup, Answer
  <2>2. l = ToServerInfo(lookup, default, TRUE, ~asks)
    BY DEF Lookup!OnServerInfo, ToServerInfo
  <2>3. ToServerInfo(Answer(Lookup!None, <<>>, FALSE, FALSE), default, TRUE, ~asks)
          = Answer(default, <<>>, TRUE, ~asks)
    <3>1. PICK done : done = ~asks
      BY Zenon
    <3>2. ToServerInfo(Answer(Lookup!None, <<>>, FALSE, FALSE), default, TRUE, done)
            = Answer(default, <<>>, TRUE, done)
      BY AnswerToFirst, Zenon
    <3> QED
      BY <3>1, <3>2, Zenon
  <2> QED
    BY <2>1, <2>2, <2>3, Zenon
<1>5. Lookup!Iterated(state, l, sent) /\ offered' = (IF asks THEN sinks ELSE <<>>)
  BY <1>2
<1>6. Tail(answers) = <<>>
  BY <1>1, TailOfOne DEF Asking
<1>7. <<>> \in Seq(Devices) /\ <<>> \in Seq(Sinks)
  OBVIOUS
<1> HIDE DEF sinks, l
<1>8. Conversation(l, sent, offered', requested)
  <2>1. CASE asks
    <3>1. /\ sent = Append(sinks, "eol") /\ offered' = sinks
          /\ l = Answer(default, <<>>, TRUE, FALSE)
      <4>1. Append(sinks, "eol") \in Seq(Sinks \cup {"eol"})
        BY <1>3
      <4>2. sent = Append(sinks, "eol") /\ offered' = sinks
        BY <1>5, <1>6, <2>1, <4>1, ConcatEmptySeq
      <4>3. l = Answer(default, <<>>, TRUE, FALSE)
        <5>1. ~asks = FALSE
          BY <2>1
        <5> QED
          BY <1>4, <5>1, Zenon
      <4> QED
        BY <4>2, <4>3
    <3> HIDE DEF sent
    <3>2. /\ sent \in Seq(Sinks \cup {"eol"}) /\ Len(sent) = Len(sinks) + 1
          /\ \A i \in 1..Len(sinks) : sent[i] = sinks[i]
          /\ sent[Len(sinks) + 1] = "eol"
      <4>1. sinks \in Seq(Sinks \cup {"eol"}) /\ "eol" \in Sinks \cup {"eol"}
        BY <1>3
      <4> QED
        BY <3>1, <4>1, AppendProperties
    <3>3. RestOf(sent, <<>>, sinks) /\ FoundOf(<<>>, sinks, default)
      BY <1>3, <3>2 DEF RestOf, FoundOf
    <3> QED
      BY <1>1, <1>3, <1>7, <3>1, <3>3 DEF Conversation, Answering
  <2>2. CASE ~asks
    <3>1. sent = <<>> /\ offered' = <<>> /\ l = Answer(default, <<>>, TRUE, TRUE)
      <4>1. sent = <<>> /\ offered' = <<>>
        BY <1>5, <1>6, <1>7, <2>2, ConcatEmptySeq
      <4>2. l = Answer(default, <<>>, TRUE, TRUE)
        <5>1. ~asks = TRUE
          BY <2>2
        <5> QED
          BY <1>4, <5>1, Zenon
      <4> QED
        BY <4>1, <4>2
    <3> HIDE DEF sent
    <3>2. FoundOf(<<>>, <<>>, default) /\ Len(<<>>) = Len(<<>>)
      BY DEF FoundOf
    <3> QED
      BY <1>1, <1>7, <3>1, <3>2 DEF Conversation, Complete
  <2> QED
    BY <2>1, <2>2
<1> QED
  BY <1>5, <1>8, IterationKeeps DEF LookupInv

(* A sink of the second answer, or its end.                                *)
LEMMA SinkAnswersKeeps ==
  ASSUME Lookup!LookupAssumption, LookupInv, stage = "loop", Lookup!SinkAnswers
  PROVE  LookupInv'
<1>1. answers # <<>> /\ Head(answers) # "server_info" /\ offered' = offered
  BY DEF Lookup!SinkAnswers
<1>2. Answering(lookup, answers, offered) /\ requested
  <2>1. ~Complete(lookup, answers, offered)
    BY <1>1 DEF Complete
  <2>2. ~Asking(lookup, answers, offered, requested)
    <3>1. requested \in BOOLEAN
      BY DEF LookupInv
    <3> QED
      BY <1>1, <3>1 DEF Asking
  <2> QED
    BY <2>1, <2>2, Zenon DEF LookupInv, Conversation
<1>3. PICK default \in Defaults, found \in Seq(Devices) :
        /\ lookup = Answer(default, found, TRUE, FALSE)
        /\ FoundOf(found, offered, default) /\ RestOf(answers, found, offered)
  BY <1>2 DEF Answering
<1>4. /\ offered \in Seq(Sinks) /\ answers \in Seq(Sinks \cup {"eol"})
      /\ Len(answers) = Len(offered) - Len(found) + 1
      /\ Len(found) <= Len(offered) /\ Len(offered) \in Nat /\ Len(found) \in Nat
  <2>1. offered \in Seq(Sinks)
    BY <1>2, Zenon DEF Answering
  <2> QED
    BY <1>3, <2>1 DEF FoundOf, RestOf
<1>5. Head(answers) = answers[1] /\ Len(Tail(answers)) = Len(answers) - 1
      /\ Tail(answers) \in Seq(Sinks \cup {"eol"})
      /\ \A i \in 1..Len(answers) - 1 : Tail(answers)[i] = answers[i + 1]
  BY <1>1, <1>4, HeadAndTail
<1>6. CASE Len(found) = Len(offered)
  <2>1. Head(answers) = "eol" /\ Tail(answers) = <<>>
    <3>1. Len(answers) = 1
      BY <1>4, <1>6
    <3>2. Head(answers) = "eol"
      BY <1>3, <1>5, <3>1 DEF RestOf
    <3>3. Tail(answers) \in Seq(Sinks \cup {"eol"}) /\ Len(Tail(answers)) = 0
      BY <1>5, <3>1
    <3> QED
      BY <3>2, <3>3, EmptySeq
  <2>2. Lookup!Iterated(state, Answer(default, found, TRUE, TRUE), <<>>)
    <3>1. [lookup EXCEPT !.sinks_done = TRUE] = Answer(default, found, TRUE, TRUE)
      <4>1. [lookup EXCEPT !.sinks_done = TRUE] = WithEnd(lookup, TRUE)
        BY DEF WithEnd
      <4>2. WithEnd(Answer(default, found, TRUE, FALSE), TRUE)
              = Answer(default, found, TRUE, TRUE)
        BY AnswerToSecond, Zenon
      <4>3. lookup = Answer(default, found, TRUE, FALSE)
        BY <1>3
      <4> QED
        BY <4>1, <4>2, <4>3, Zenon
    <3> QED
      BY <2>1, <3>1, Zenon DEF Lookup!SinkAnswers
  <2>3. Complete(Answer(default, found, TRUE, TRUE), <<>>, offered')
    BY <1>1, <1>3, <1>4, <1>6 DEF Complete
  <2> QED
    BY <1>2, <2>2, <2>3, IterationKeeps DEF LookupInv, Conversation
<1>7. CASE Len(found) < Len(offered)
  <2> DEFINE sink == offered[Len(found) + 1]
             device == [id |-> sink, is_default |-> sink = default]
  <2>1. Len(found) + 1 \in 1..Len(offered) /\ sink \in Sinks
    BY <1>4, <1>7
  <2>2. Head(answers) = sink
    <3>1. 1 \in 1..Len(offered) - Len(found)
      BY <1>4, <1>7
    <3> QED
      BY <1>3, <1>5, <3>1 DEF RestOf
  <2>3. sink # "eol"
    BY <2>1 DEF Lookup!LookupAssumption
  <2>4. Lookup!Device(sink) = device /\ device \in Devices
    BY <1>3, <2>1 DEF Lookup!Device, Answer, Devices
  <2> HIDE DEF device
  <2>5. Lookup!Iterated(state, Answer(default, Append(found, device), TRUE, FALSE),
                        Tail(answers))
    <3>1. Lookup!Iterated(state, [lookup EXCEPT !.found = Append(@, Lookup!Device(sink))],
                          Tail(answers))
      BY <2>2, <2>3, Zenon DEF Lookup!SinkAnswers
    <3>2. [lookup EXCEPT !.found = Append(@, Lookup!Device(sink))]
            = Answer(default, Append(found, device), TRUE, FALSE)
      <4>1. [lookup EXCEPT !.found = Append(@, Lookup!Device(sink))] =
                WithDevice(lookup, Lookup!Device(sink))
        BY DEF WithDevice
      <4>2. WithDevice(Answer(default, found, TRUE, FALSE), device)
              = Answer(default, Append(found, device), TRUE, FALSE)
        BY AnswerToSecond, Zenon
      <4>3. lookup = Answer(default, found, TRUE, FALSE) /\ Lookup!Device(sink) = device
        BY <1>3, <2>4
      <4> QED
        BY <4>1, <4>2, <4>3, Zenon
    <3> QED
      BY <3>1, <3>2, Zenon
  <2> DEFINE more == Append(found, device)
  <2>6. /\ more \in Seq(Devices) /\ Len(more) = Len(found) + 1
        /\ more[Len(found) + 1] = device
        /\ \A i \in 1..Len(found) : more[i] = found[i]
    BY <1>4, <2>4
  <2> HIDE DEF more
  <2>7. FoundOf(more, offered, default)
    <3>1. ASSUME NEW i \in 1..Len(more)
          PROVE  more[i] = [id |-> offered[i], is_default |-> offered[i] = default]
      <4>1. CASE i = Len(found) + 1
        BY <2>6, <4>1 DEF device
      <4>2. CASE i \in 1..Len(found)
        BY <1>3, <2>6, <4>2 DEF FoundOf
      <4> QED
        BY <1>4, <2>6, <4>1, <4>2
    <3> QED
      BY <1>4, <1>7, <2>6, <3>1 DEF FoundOf
  <2>8. RestOf(Tail(answers), more, offered)
    <3>1. \A i \in 1..Len(offered) - Len(more) : Tail(answers)[i] = offered[Len(more) + i]
      <4> TAKE i \in 1..Len(offered) - Len(more)
      <4>1. /\ i \in 1..Len(answers) - 1 /\ i + 1 \in 1..Len(offered) - Len(found)
            /\ Len(found) + (i + 1) = Len(more) + i
        <5>1. Len(more) = Len(found) + 1
          BY <2>6
        <5> QED
          BY <1>4, <5>1
      <4>2. Tail(answers)[i] = answers[i + 1]
        BY <1>5, <4>1
      <4>3. answers[i + 1] = offered[Len(found) + (i + 1)]
        BY <1>3, <4>1 DEF RestOf
      <4> QED
        BY <4>1, <4>2, <4>3
    <3>2. Len(Tail(answers)) = Len(offered) - Len(more) + 1
      BY <1>4, <1>5, <2>6
    <3>3. Tail(answers)[Len(Tail(answers))] = "eol"
      <4>1. Len(Tail(answers)) \in 1..Len(answers) - 1
        BY <1>4, <1>5, <1>7
      <4>2. Tail(answers)[Len(Tail(answers))] = answers[Len(answers)]
        <5>1. Len(Tail(answers)) + 1 = Len(answers)
          BY <1>4, <1>5
        <5> QED
          BY <1>5, <4>1, <5>1
      <4> QED
        BY <1>3, <4>2 DEF RestOf
    <3> QED
      BY <1>5, <3>1, <3>2, <3>3 DEF RestOf
  <2>9. Answering(Answer(default, more, TRUE, FALSE), Tail(answers), offered')
    BY <1>1, <1>4, <2>6, <2>7, <2>8 DEF Answering
  <2>10. Lookup!Iterated(state, Answer(default, more, TRUE, FALSE), Tail(answers))
    BY <2>5 DEF more
  <2> QED
    BY <1>2, <2>9, <2>10, IterationKeeps DEF LookupInv, Conversation
<1> QED
  BY <1>4, <1>6, <1>7

LEMMA LookupKeeps ==
  Lookup!LookupAssumption /\ LookupInv /\ [Lookup!Next]_Lookup!vars => LookupInv'
<1> SUFFICES ASSUME Lookup!LookupAssumption, LookupInv, [Lookup!Next]_Lookup!vars
             PROVE  LookupInv'
  OBVIOUS
<1>1. CASE UNCHANGED Lookup!vars
  BY <1>1 DEF Lookup!vars, LookupInv
<1>2. CASE Lookup!Prepares
  <2>1. /\ UNCHANGED <<requested, lookup, answers, offered>>
        /\ stage' = "out" => broken'
    BY <1>2 DEF Lookup!Prepares, Lookup!Prepare, Lookup!Leave
  <2> QED
    BY <2>1 DEF LookupInv
<1> QED
  BY <1>1, <1>2, QuietIterationKeeps, ServerAnswersKeeps, SinkAnswersKeeps
  DEF Lookup!Next, Lookup!Iterate

(* Unless a request is refused or the connection lost, neither             *)
(* ResolveMonitorSourceName nor EnumerateAudioRenderDevices leaves its     *)
(* conversation before the second answer is complete or nothing more is    *)
(* asked for, and what they keep is each sink of it, once and in order,    *)
(* with the default sink marked; otherwise it is the beginning of that,    *)
(* which may be all of it or nothing.  For any set of sinks.               *)
THEOREM LookupReturnsTheAnswerAlways == Spec => []LookupReturnsTheAnswer
<1> DEFINE Inv == part = "lookup" => LookupInv
<1>1. Init => Inv
  BY DEF Init, Lookup!Init, LookupInv, Conversation, Asking
<1>2. Inv /\ [Next]_parts => Inv'
  <2> SUFFICES ASSUME Inv, [Next]_parts PROVE Inv'
    OBVIOUS
  <2>1. part' = part
    BY DEF Next, parts
  <2>2. part = "lookup" => [Lookup!Next]_Lookup!vars
    BY DEF Next, parts, search, Lookup!vars
  <2> QED
    BY <2>1, <2>2, LookupKeeps, PartsAssumption
<1>3. Inv => LookupReturnsTheAnswer
  <2> SUFFICES ASSUME LookupInv, stage = "out"
               PROVE  Lookup!ReturnsTheAnswer
    BY DEF LookupReturnsTheAnswer, Lookup!ReturnsTheAnswer
  <2>1. PICK default \in Defaults, found \in Seq(Devices) :
          /\ lookup.found = found /\ lookup.default_sink_name = default
          /\ offered \in Seq(Sinks) /\ FoundOf(found, offered, default)
    <3>1. CASE Asking(lookup, answers, offered, requested)
      <4>1. /\ lookup.found = <<>> /\ offered = <<>> /\ <<>> \in Seq(Devices)
            /\ <<>> \in Seq(Sinks) /\ lookup.default_sink_name \in Defaults
        BY <3>1 DEF Asking, Lookup!NewLookup, Defaults
      <4>2. FoundOf(<<>>, <<>>, lookup.default_sink_name)
        BY DEF FoundOf
      <4> QED
        BY <4>1, <4>2
    <3>2. CASE \E done \in BOOLEAN, default \in Defaults, found \in Seq(Devices) :
                 /\ lookup = Answer(default, found, TRUE, done) /\ offered \in Seq(Sinks)
                 /\ FoundOf(found, offered, default)
      BY <3>2 DEF Answer
    <3> QED
      BY <3>1, <3>2 DEF LookupInv, Conversation, Answering, Complete
  <2>2. ~broken => Len(found) = Len(offered)
    <3>1. Complete(lookup, answers, offered) => Len(lookup.found) = Len(offered)
      BY DEF Complete, Answer
    <3> QED
      BY <2>1, <3>1 DEF LookupInv
  <2>3. /\ DOMAIN found = 1..Len(found) /\ found = [i \in DOMAIN found |-> found[i]]
        /\ Len(found) <= Len(offered)
    BY <2>1 DEF FoundOf
  <2> QED
    BY <2>1, <2>2, <2>3 DEF FoundOf, Lookup!ReturnsTheAnswer
<1> QED
  BY <1>1, <1>2, <1>3, PTL DEF Spec
=============================================================================
