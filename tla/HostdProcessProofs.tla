------------------------- MODULE HostdProcessProofs -------------------------
(***************************************************************************)
(* Proofs about HostdProcess, for any number of calls of start and stop.   *)
(*                                                                         *)
(* What makes the settled state true is that every value of state has a    *)
(* task that answers for it: Starting a start that will register its       *)
(* child, Stopping a stop that will give up, Running a child whose exit is *)
(* yet to be reported; and that whoever takes the state away from Running  *)
(* while a sender is registered is going to register another child or to   *)
(* drop that sender.                                                       *)
(***************************************************************************)
EXTENDS HostdProcess, TLAPS

(* Where a start is tells how far its child and its wait task are.         *)
StartPoints ==
    \A c \in Starts :
        /\ pc[StartTask(c)] \in {"idle", "refused", "admitted", "starting",
                                 "failed", "spawned", "registered", "done"}
        /\ child[c] # "none" <=>
              pc[StartTask(c)] \in {"spawned", "registered", "done"}
        /\ pc[WaitTask(c)] # "none" <=> pc[StartTask(c)] = "done"
        /\ pc[StartTask(c)] = "failed" => SpawnMayFail

(* A wait task has passed "waiting" only when its child is dead, and its   *)
(* own sender is gone when it is done.                                     *)
WaitPoints ==
    \A c \in Starts :
        /\ pc[WaitTask(c)] \in {"none", "waiting", "exited", "judged",
                                "reported", "done"}
        /\ pc[WaitTask(c)] \in {"exited", "judged", "reported", "done"} =>
              child[c] # "alive"
        /\ pc[WaitTask(c)] = "done" => killTx # c

(* A stop holds a sender only until it has used it.                        *)
StopPoints ==
    \A p \in Stops :
        /\ pc[StopTask(p)] \in {"idle", "stopping", "sleeping", "done"}
        /\ held[p] # None => pc[StopTask(p)] = "stopping"

(* Every passing state has somebody who ends it.                           *)
StartingOwned ==
    state = "Starting" =>
        \E c \in Starts : pc[StartTask(c)] \in {"starting", "spawned", "failed"}

StoppingOwned ==
    state = "Stopping" =>
        \E p \in Stops : pc[StopTask(p)] \in {"stopping", "sleeping"}

RunningOwned ==
    state = "Running" =>
        \E c \in Starts :
            /\ Registered(c)
            /\ pc[WaitTask(c)] \in {"none", "waiting", "exited", "judged"}

(* The child that can be killed runs under the state Running, unless       *)
(* another start or exit is about to take its sender away.                 *)
SenderOwned ==
    killTx # None =>
        \/ state = "Running"
        \/ \E c \in Starts :
              \/ pc[StartTask(c)] \in {"starting", "spawned", "failed"}
              \/ pc[WaitTask(c)] = "reported"

IInv ==
    /\ TypeOK /\ ChildReachable
    /\ StartPoints /\ WaitPoints /\ StopPoints
    /\ StartingOwned /\ StoppingOwned /\ RunningOwned /\ SenderOwned

-----------------------------------------------------------------------------
(* The tasks are different tasks.                                          *)
LEMMA TaskNames ==
  /\ \A c \in Starts : StartTask(c) \in Tasks /\ WaitTask(c) \in Tasks
  /\ \A p \in Stops : StopTask(p) \in Tasks
  /\ \A c, d : StartTask(c) = StartTask(d) => c = d
  /\ \A c, d : WaitTask(c) = WaitTask(d) => c = d
  /\ \A p, q : StopTask(p) = StopTask(q) => p = q
  /\ \A c, d : StartTask(c) # WaitTask(d)
  /\ \A c, p : StartTask(c) # StopTask(p) /\ WaitTask(c) # StopTask(p)
BY DEF Tasks, StartTask, WaitTask, StopTask

(* From f to g the start c, the wait task c or the stop p has come to x,   *)
(* and no other task has moved.                                            *)
StartMoves(f, g, c, x) ==
    /\ g[StartTask(c)] = x
    /\ \A d \in Starts : d # c => g[StartTask(d)] = f[StartTask(d)]
    /\ \A d \in Starts : g[WaitTask(d)] = f[WaitTask(d)]
    /\ \A p \in Stops : g[StopTask(p)] = f[StopTask(p)]

WaitMoves(f, g, c, x) ==
    /\ g[WaitTask(c)] = x
    /\ \A d \in Starts : d # c => g[WaitTask(d)] = f[WaitTask(d)]
    /\ \A d \in Starts : g[StartTask(d)] = f[StartTask(d)]
    /\ \A p \in Stops : g[StopTask(p)] = f[StopTask(p)]

StopMoves(f, g, p, x) ==
    /\ g[StopTask(p)] = x
    /\ \A q \in Stops : q # p => g[StopTask(q)] = f[StopTask(q)]
    /\ \A d \in Starts : g[StartTask(d)] = f[StartTask(d)]
    /\ \A d \in Starts : g[WaitTask(d)] = f[WaitTask(d)]

LEMMA StartGo ==
  ASSUME NEW f \in [Tasks -> Points], NEW c \in Starts, NEW x \in Points,
         NEW g, g = [f EXCEPT ![StartTask(c)] = x]
  PROVE  g \in [Tasks -> Points] /\ StartMoves(f, g, c, x)
BY TaskNames DEF StartMoves

LEMMA WaitGo ==
  ASSUME NEW f \in [Tasks -> Points], NEW c \in Starts, NEW x \in Points,
         NEW g, g = [f EXCEPT ![WaitTask(c)] = x]
  PROVE  g \in [Tasks -> Points] /\ WaitMoves(f, g, c, x)
BY TaskNames DEF WaitMoves

LEMMA StopGo ==
  ASSUME NEW f \in [Tasks -> Points], NEW p \in Stops, NEW x \in Points,
         NEW g, g = [f EXCEPT ![StopTask(p)] = x]
  PROVE  g \in [Tasks -> Points] /\ StopMoves(f, g, p, x)
BY TaskNames DEF StopMoves

-----------------------------------------------------------------------------
LEMMA StartRefusedKeeps ==
  ASSUME ManagerAssumption, IInv, NEW c \in Starts, StartRefused(c)
  PROVE  IInv'
<1>1. /\ "refused" \in Points
      /\ pc \in [Tasks -> Points]
      /\ pc' = [pc EXCEPT ![StartTask(c)] = "refused"]
  BY DEF Points, IInv, TypeOK, Types, StartRefused, Go
<1>2. /\ StartMoves(pc, pc', c, "refused") /\ pc' \in [Tasks -> Points]
      /\ pc[StartTask(c)] = "idle"
  <2>1. pc[StartTask(c)] = "idle"
    BY DEF StartRefused, Go
  <2> QED
    BY <1>1, <2>1, StartGo
<1>3. Types'
  BY <1>2 DEF StartRefused, Go, IInv, TypeOK, Types, States, inner, procs
<1>4. OneOwner' /\ ChildReachable'
  BY <1>2, ManagerAssumption DEF StartMoves, StartRefused, inner, procs, IInv,
     TypeOK, Types, OneOwner, ChildReachable, Alive, Registered, StopPoints,
     StartPoints
<1>5. StartPoints' /\ WaitPoints' /\ StopPoints'
  BY <1>2, ManagerAssumption DEF StartMoves, StartRefused, inner, procs, IInv,
     TypeOK, Types, OneOwner, Registered, StartPoints, WaitPoints, StopPoints
<1>6. StartingOwned' /\ StoppingOwned' /\ RunningOwned' /\ SenderOwned'
  BY <1>2 DEF StartMoves, StartRefused, inner, procs, IInv, TypeOK, OneOwner,
     Registered, StartingOwned, StoppingOwned, RunningOwned, SenderOwned,
     StartPoints, WaitPoints
<1> QED
  BY <1>3, <1>4, <1>5, <1>6 DEF IInv, TypeOK

LEMMA StartAdmittedKeeps ==
  ASSUME ManagerAssumption, IInv, NEW c \in Starts, StartAdmitted(c)
  PROVE  IInv'
<1>1. /\ "admitted" \in Points
      /\ pc \in [Tasks -> Points]
      /\ pc' = [pc EXCEPT ![StartTask(c)] = "admitted"]
  BY DEF Points, IInv, TypeOK, Types, StartAdmitted, Go
<1>2. /\ StartMoves(pc, pc', c, "admitted") /\ pc' \in [Tasks -> Points]
      /\ pc[StartTask(c)] = "idle"
  <2>1. pc[StartTask(c)] = "idle"
    BY DEF StartAdmitted, Go
  <2> QED
    BY <1>1, <2>1, StartGo
<1>3. Types'
  BY <1>2 DEF StartAdmitted, Go, IInv, TypeOK, Types, States, inner, procs
<1>4. OneOwner' /\ ChildReachable'
  BY <1>2, ManagerAssumption DEF StartMoves, StartAdmitted, inner, procs, IInv,
     TypeOK, Types, OneOwner, ChildReachable, Alive, Registered, StopPoints,
     StartPoints
<1>5. StartPoints' /\ WaitPoints' /\ StopPoints'
  BY <1>2, ManagerAssumption DEF StartMoves, StartAdmitted, inner, procs, IInv,
     TypeOK, Types, OneOwner, Registered, StartPoints, WaitPoints, StopPoints
<1>6. StartingOwned' /\ StoppingOwned' /\ RunningOwned' /\ SenderOwned'
  BY <1>2 DEF StartMoves, StartAdmitted, inner, procs, IInv, TypeOK, OneOwner,
     Registered, StartingOwned, StoppingOwned, RunningOwned, SenderOwned,
     StartPoints, WaitPoints
<1> QED
  BY <1>3, <1>4, <1>5, <1>6 DEF IInv, TypeOK

LEMMA BeginStartingKeeps ==
  ASSUME ManagerAssumption, IInv, NEW c \in Starts, BeginStarting(c)
  PROVE  IInv'
<1>1. /\ "starting" \in Points
      /\ pc \in [Tasks -> Points]
      /\ pc' = [pc EXCEPT ![StartTask(c)] = "starting"]
  BY DEF Points, IInv, TypeOK, Types, BeginStarting, Go
<1>2. /\ StartMoves(pc, pc', c, "starting") /\ pc' \in [Tasks -> Points]
      /\ pc[StartTask(c)] = "admitted"
  <2>1. pc[StartTask(c)] = "admitted"
    BY DEF BeginStarting, Go
  <2> QED
    BY <1>1, <2>1, StartGo
<1>3. Types'
  BY <1>2 DEF BeginStarting, Go, IInv, TypeOK, Types, States, inner, procs
<1>4. OneOwner' /\ ChildReachable'
  BY <1>2, ManagerAssumption DEF StartMoves, BeginStarting, inner, procs, IInv,
     TypeOK, Types, OneOwner, ChildReachable, Alive, Registered, StopPoints,
     StartPoints
<1>5. StartPoints' /\ WaitPoints' /\ StopPoints'
  BY <1>2, ManagerAssumption DEF StartMoves, BeginStarting, inner, procs, IInv,
     TypeOK, Types, OneOwner, Registered, StartPoints, WaitPoints, StopPoints
<1>6. StartingOwned' /\ StoppingOwned' /\ RunningOwned' /\ SenderOwned'
  BY <1>2 DEF StartMoves, BeginStarting, inner, procs, IInv, TypeOK, OneOwner,
     Registered, StartingOwned, StoppingOwned, RunningOwned, SenderOwned,
     StartPoints, WaitPoints
<1> QED
  BY <1>3, <1>4, <1>5, <1>6 DEF IInv, TypeOK

LEMMA SpawnHostdKeeps ==
  ASSUME ManagerAssumption, IInv, NEW c \in Starts, SpawnHostd(c)
  PROVE  IInv'
<1>1. /\ "spawned" \in Points
      /\ pc \in [Tasks -> Points]
      /\ pc' = [pc EXCEPT ![StartTask(c)] = "spawned"]
  BY DEF Points, IInv, TypeOK, Types, SpawnHostd, Go
<1>2. /\ StartMoves(pc, pc', c, "spawned") /\ pc' \in [Tasks -> Points]
      /\ pc[StartTask(c)] = "starting"
  <2>1. pc[StartTask(c)] = "starting"
    BY DEF SpawnHostd, Go
  <2> QED
    BY <1>1, <2>1, StartGo
<1>3. Types'
  BY <1>2 DEF SpawnHostd, Go, IInv, TypeOK, Types, States, inner, procs
<1>4. OneOwner' /\ ChildReachable'
  BY <1>2, ManagerAssumption DEF StartMoves, SpawnHostd, inner, procs, IInv, TypeOK,
     Types, OneOwner, ChildReachable, Alive, Registered, StopPoints, StartPoints
<1>5. StartPoints' /\ WaitPoints' /\ StopPoints'
  BY <1>2, ManagerAssumption DEF StartMoves, SpawnHostd, inner, procs, IInv, TypeOK,
     Types, OneOwner, Registered, StartPoints, WaitPoints, StopPoints
<1>6. StartingOwned' /\ StoppingOwned' /\ RunningOwned' /\ SenderOwned'
  BY <1>2 DEF StartMoves, SpawnHostd, inner, procs, IInv, TypeOK, OneOwner,
     Registered, StartingOwned, StoppingOwned, RunningOwned, SenderOwned,
     StartPoints, WaitPoints
<1> QED
  BY <1>3, <1>4, <1>5, <1>6 DEF IInv, TypeOK

LEMMA SpawnFailsKeeps ==
  ASSUME ManagerAssumption, IInv, NEW c \in Starts, SpawnFails(c)
  PROVE  IInv'
<1>1. /\ "failed" \in Points
      /\ pc \in [Tasks -> Points]
      /\ pc' = [pc EXCEPT ![StartTask(c)] = "failed"]
  BY DEF Points, IInv, TypeOK, Types, SpawnFails, Go
<1>2. /\ StartMoves(pc, pc', c, "failed") /\ pc' \in [Tasks -> Points]
      /\ pc[StartTask(c)] = "starting"
  <2>1. pc[StartTask(c)] = "starting"
    BY DEF SpawnFails, Go
  <2> QED
    BY <1>1, <2>1, StartGo
<1>3. Types'
  BY <1>2 DEF SpawnFails, Go, IInv, TypeOK, Types, States, inner, procs
<1>4. OneOwner' /\ ChildReachable'
  BY <1>2, ManagerAssumption DEF StartMoves, SpawnFails, inner, procs, IInv, TypeOK,
     Types, OneOwner, ChildReachable, Alive, Registered, StopPoints, StartPoints
<1>5. StartPoints' /\ WaitPoints' /\ StopPoints'
  BY <1>2, ManagerAssumption DEF StartMoves, SpawnFails, inner, procs, IInv, TypeOK,
     Types, OneOwner, Registered, StartPoints, WaitPoints, StopPoints
<1>6. StartingOwned' /\ StoppingOwned' /\ RunningOwned' /\ SenderOwned'
  BY <1>2 DEF StartMoves, SpawnFails, inner, procs, IInv, TypeOK, OneOwner,
     Registered, StartingOwned, StoppingOwned, RunningOwned, SenderOwned,
     StartPoints, WaitPoints
<1> QED
  BY <1>3, <1>4, <1>5, <1>6 DEF IInv, TypeOK

LEMMA RegisterChildKeeps ==
  ASSUME ManagerAssumption, IInv, NEW c \in Starts, RegisterChild(c)
  PROVE  IInv'
<1>1. /\ "registered" \in Points
      /\ pc \in [Tasks -> Points]
      /\ pc' = [pc EXCEPT ![StartTask(c)] = "registered"]
  BY DEF Points, IInv, TypeOK, Types, RegisterChild, Go
<1>2. /\ StartMoves(pc, pc', c, "registered") /\ pc' \in [Tasks -> Points]
      /\ pc[StartTask(c)] = "spawned"
  <2>1. pc[StartTask(c)] = "spawned"
    BY DEF RegisterChild, Go
  <2> QED
    BY <1>1, <2>1, StartGo
<1>3. Types'
  BY <1>2 DEF RegisterChild, Dropped, Go, IInv, TypeOK, Types, States, inner, procs
<1>4. OneOwner' /\ ChildReachable'
  <2>1. /\ killTx' = c /\ signalled' = signalled \cup ({killTx} \ {None})
        /\ held' = held /\ child' = child
        /\ pc[StartTask(c)] = "spawned"
    BY <1>2 DEF RegisterChild, Dropped
  <2>2. \A d \in Starts : Registered(d)' <=> d = c \/ Registered(d)
    BY <1>2 DEF StartMoves, Registered
  <2>3. /\ ~Registered(c) /\ c # None
        /\ killTx # None => Registered(killTx)
        /\ \A p \in Stops : held[p] \in Starts \cup {None}
        /\ \A p \in Stops : held[p] # None => Registered(held[p])
    BY <2>1, ManagerAssumption DEF Registered, IInv, TypeOK, Types, OneOwner
  <2>4. c \notin signalled
    BY <2>3 DEF IInv, TypeOK, OneOwner
  <2>5. OneOwner'
    BY <2>1, <2>2, <2>3, <2>4 DEF IInv, TypeOK, Types, OneOwner, Registered
  <2>6. ChildReachable'
    BY <2>1, <2>2, <2>3 DEF IInv, TypeOK, Types, ChildReachable, Alive
  <2> QED
    BY <2>5, <2>6
<1>5. StartPoints' /\ WaitPoints' /\ StopPoints'
  BY <1>2, ManagerAssumption DEF StartMoves, RegisterChild, Dropped, inner, procs,
     IInv, TypeOK, Types, OneOwner, Registered, StartPoints, WaitPoints, StopPoints
<1>6. StartingOwned' /\ StoppingOwned' /\ RunningOwned' /\ SenderOwned'
  BY <1>2 DEF StartMoves, RegisterChild, Dropped, inner, procs, IInv, TypeOK,
     OneOwner, Registered, StartingOwned, StoppingOwned, RunningOwned, SenderOwned,
     StartPoints, WaitPoints
<1> QED
  BY <1>3, <1>4, <1>5, <1>6 DEF IInv, TypeOK

LEMMA WaitReturnsKeeps ==
  ASSUME ManagerAssumption, IInv, NEW c \in Starts, WaitReturns(c)
  PROVE  IInv'
<1>1. /\ "exited" \in Points
      /\ pc \in [Tasks -> Points]
      /\ pc' = [pc EXCEPT ![WaitTask(c)] = "exited"]
  BY DEF Points, IInv, TypeOK, Types, WaitReturns, Go
<1>2. /\ WaitMoves(pc, pc', c, "exited") /\ pc' \in [Tasks -> Points]
      /\ pc[WaitTask(c)] = "waiting"
  <2>1. pc[WaitTask(c)] = "waiting"
    BY DEF WaitReturns, Go
  <2> QED
    BY <1>1, <2>1, WaitGo
<1>3. Types'
  BY <1>2 DEF WaitReturns, Go, IInv, TypeOK, Types, States, inner, procs
<1>4. OneOwner' /\ ChildReachable'
  BY <1>2, ManagerAssumption DEF WaitMoves, WaitReturns, inner, procs, IInv, TypeOK,
     Types, OneOwner, ChildReachable, Alive, Registered, StopPoints, StartPoints
<1>5. StartPoints' /\ WaitPoints' /\ StopPoints'
  BY <1>2, ManagerAssumption DEF WaitMoves, WaitReturns, inner, procs, IInv, TypeOK,
     Types, OneOwner, Registered, StartPoints, WaitPoints, StopPoints
<1>6. StartingOwned' /\ StoppingOwned' /\ RunningOwned' /\ SenderOwned'
  BY <1>2 DEF WaitMoves, WaitReturns, inner, procs, IInv, TypeOK, OneOwner,
     Registered, StartingOwned, StoppingOwned, RunningOwned, SenderOwned,
     StartPoints, WaitPoints
<1> QED
  BY <1>3, <1>4, <1>5, <1>6 DEF IInv, TypeOK

LEMMA ReadStopRequestedKeeps ==
  ASSUME ManagerAssumption, IInv, NEW c \in Starts, ReadStopRequested(c)
  PROVE  IInv'
<1>1. /\ "judged" \in Points
      /\ pc \in [Tasks -> Points]
      /\ pc' = [pc EXCEPT ![WaitTask(c)] = "judged"]
  BY DEF Points, IInv, TypeOK, Types, ReadStopRequested, Go
<1>2. /\ WaitMoves(pc, pc', c, "judged") /\ pc' \in [Tasks -> Points]
      /\ pc[WaitTask(c)] = "exited"
  <2>1. pc[WaitTask(c)] = "exited"
    BY DEF ReadStopRequested, Go
  <2> QED
    BY <1>1, <2>1, WaitGo
<1>3. Types'
  BY <1>2 DEF ReadStopRequested, Go, IInv, TypeOK, Types, States, inner, procs
<1>4. OneOwner' /\ ChildReachable'
  BY <1>2, ManagerAssumption DEF WaitMoves, ReadStopRequested, inner, procs, IInv,
     TypeOK, Types, OneOwner, ChildReachable, Alive, Registered, StopPoints,
     StartPoints
<1>5. StartPoints' /\ WaitPoints' /\ StopPoints'
  BY <1>2, ManagerAssumption DEF WaitMoves, ReadStopRequested, inner, procs, IInv,
     TypeOK, Types, OneOwner, Registered, StartPoints, WaitPoints, StopPoints
<1>6. StartingOwned' /\ StoppingOwned' /\ RunningOwned' /\ SenderOwned'
  BY <1>2 DEF WaitMoves, ReadStopRequested, inner, procs, IInv, TypeOK, OneOwner,
     Registered, StartingOwned, StoppingOwned, RunningOwned, SenderOwned,
     StartPoints, WaitPoints
<1> QED
  BY <1>3, <1>4, <1>5, <1>6 DEF IInv, TypeOK

LEMMA ReportExitKeeps ==
  ASSUME ManagerAssumption, IInv, NEW c \in Starts, ReportExit(c)
  PROVE  IInv'
<1>1. /\ "reported" \in Points
      /\ pc \in [Tasks -> Points]
      /\ pc' = [pc EXCEPT ![WaitTask(c)] = "reported"]
  BY DEF Points, IInv, TypeOK, Types, ReportExit, Go
<1>2. /\ WaitMoves(pc, pc', c, "reported") /\ pc' \in [Tasks -> Points]
      /\ pc[WaitTask(c)] = "judged"
  <2>1. pc[WaitTask(c)] = "judged"
    BY DEF ReportExit, Go
  <2> QED
    BY <1>1, <2>1, WaitGo
<1>3. Types'
  BY <1>2 DEF ReportExit, Go, IInv, TypeOK, Types, States, inner, procs
<1>4. OneOwner' /\ ChildReachable'
  BY <1>2, ManagerAssumption DEF WaitMoves, ReportExit, inner, procs, IInv, TypeOK,
     Types, OneOwner, ChildReachable, Alive, Registered, StopPoints, StartPoints
<1>5. StartPoints' /\ WaitPoints' /\ StopPoints'
  BY <1>2, ManagerAssumption DEF WaitMoves, ReportExit, inner, procs, IInv, TypeOK,
     Types, OneOwner, Registered, StartPoints, WaitPoints, StopPoints
<1>6. StartingOwned' /\ StoppingOwned' /\ RunningOwned' /\ SenderOwned'
  BY <1>2 DEF WaitMoves, ReportExit, inner, procs, IInv, TypeOK, OneOwner,
     Registered, StartingOwned, StoppingOwned, RunningOwned, SenderOwned,
     StartPoints, WaitPoints
<1> QED
  BY <1>3, <1>4, <1>5, <1>6 DEF IInv, TypeOK

LEMMA CleanupKeeps ==
  ASSUME ManagerAssumption, IInv, NEW c \in Starts, Cleanup(c)
  PROVE  IInv'
<1>1. /\ "done" \in Points
      /\ pc \in [Tasks -> Points]
      /\ pc' = [pc EXCEPT ![WaitTask(c)] = "done"]
  BY DEF Points, IInv, TypeOK, Types, Cleanup, Go
<1>2. /\ WaitMoves(pc, pc', c, "done") /\ pc' \in [Tasks -> Points]
      /\ pc[WaitTask(c)] = "reported"
  <2>1. pc[WaitTask(c)] = "reported"
    BY DEF Cleanup, Go
  <2> QED
    BY <1>1, <2>1, WaitGo
<1>3. Types'
  BY <1>2 DEF Cleanup, Dropped, Go, IInv, TypeOK, Types, States, inner, procs
<1>4. OneOwner' /\ ChildReachable'
  BY <1>2, ManagerAssumption DEF WaitMoves, Cleanup, Dropped, inner, procs, IInv,
     TypeOK, Types, OneOwner, ChildReachable, Alive, Registered, StopPoints,
     StartPoints
<1>5. StartPoints' /\ WaitPoints' /\ StopPoints'
  BY <1>2, ManagerAssumption DEF WaitMoves, Cleanup, Dropped, inner, procs, IInv,
     TypeOK, Types, OneOwner, Registered, StartPoints, WaitPoints, StopPoints
<1>6. StartingOwned' /\ StoppingOwned' /\ RunningOwned' /\ SenderOwned'
  BY <1>2 DEF WaitMoves, Cleanup, Dropped, inner, procs, IInv, TypeOK, OneOwner,
     Registered, StartingOwned, StoppingOwned, RunningOwned, SenderOwned,
     StartPoints, WaitPoints
<1> QED
  BY <1>3, <1>4, <1>5, <1>6 DEF IInv, TypeOK

LEMMA StopIdleKeeps ==
  ASSUME ManagerAssumption, IInv, NEW p \in Stops, StopIdle(p)
  PROVE  IInv'
<1>1. /\ "done" \in Points
      /\ pc \in [Tasks -> Points]
      /\ pc' = [pc EXCEPT ![StopTask(p)] = "done"]
  BY DEF Points, IInv, TypeOK, Types, StopIdle, Go
<1>2. /\ StopMoves(pc, pc', p, "done") /\ pc' \in [Tasks -> Points]
      /\ pc[StopTask(p)] = "idle"
  <2>1. pc[StopTask(p)] = "idle"
    BY DEF StopIdle, Go
  <2> QED
    BY <1>1, <2>1, StopGo
<1>3. Types'
  BY <1>2 DEF StopIdle, Go, IInv, TypeOK, Types, States, inner, procs
<1>4. OneOwner' /\ ChildReachable'
  BY <1>2, ManagerAssumption DEF StopMoves, StopIdle, inner, procs, IInv, TypeOK,
     Types, OneOwner, ChildReachable, Alive, Registered, StopPoints, StartPoints
<1>5. StartPoints' /\ WaitPoints' /\ StopPoints'
  BY <1>2, ManagerAssumption DEF StopMoves, StopIdle, inner, procs, IInv, TypeOK,
     Types, OneOwner, Registered, StartPoints, WaitPoints, StopPoints
<1>6. StartingOwned' /\ StoppingOwned' /\ RunningOwned' /\ SenderOwned'
  BY <1>2 DEF StopMoves, StopIdle, inner, procs, IInv, TypeOK, OneOwner, Registered,
     StartingOwned, StoppingOwned, RunningOwned, SenderOwned, StartPoints,
     WaitPoints
<1> QED
  BY <1>3, <1>4, <1>5, <1>6 DEF IInv, TypeOK

LEMMA StopBeginsKeeps ==
  ASSUME ManagerAssumption, IInv, NEW p \in Stops, StopBegins(p)
  PROVE  IInv'
<1>1. /\ "stopping" \in Points
      /\ pc \in [Tasks -> Points]
      /\ pc' = [pc EXCEPT ![StopTask(p)] = "stopping"]
  BY DEF Points, IInv, TypeOK, Types, StopBegins, Go
<1>2. /\ StopMoves(pc, pc', p, "stopping") /\ pc' \in [Tasks -> Points]
      /\ pc[StopTask(p)] = "idle"
  <2>1. pc[StopTask(p)] = "idle"
    BY DEF StopBegins, Go
  <2> QED
    BY <1>1, <2>1, StopGo
<1>3. Types'
  BY <1>2 DEF StopBegins, Go, IInv, TypeOK, Types, States, inner, procs
<1>4. OneOwner' /\ ChildReachable'
  BY <1>2, ManagerAssumption DEF StopMoves, StopBegins, inner, procs, IInv, TypeOK,
     Types, OneOwner, ChildReachable, Alive, Registered, StopPoints, StartPoints
<1>5. StartPoints' /\ WaitPoints' /\ StopPoints'
  BY <1>2, ManagerAssumption DEF StopMoves, StopBegins, inner, procs, IInv, TypeOK,
     Types, OneOwner, Registered, StartPoints, WaitPoints, StopPoints
<1>6. StartingOwned' /\ StoppingOwned' /\ RunningOwned' /\ SenderOwned'
  BY <1>2 DEF StopMoves, StopBegins, inner, procs, IInv, TypeOK, OneOwner,
     Registered, StartingOwned, StoppingOwned, RunningOwned, SenderOwned,
     StartPoints, WaitPoints
<1> QED
  BY <1>3, <1>4, <1>5, <1>6 DEF IInv, TypeOK

LEMMA SendKillKeeps ==
  ASSUME ManagerAssumption, IInv, NEW p \in Stops, SendKill(p)
  PROVE  IInv'
<1>1. /\ "sleeping" \in Points
      /\ pc \in [Tasks -> Points]
      /\ pc' = [pc EXCEPT ![StopTask(p)] = "sleeping"]
  BY DEF Points, IInv, TypeOK, Types, SendKill, Go
<1>2. /\ StopMoves(pc, pc', p, "sleeping") /\ pc' \in [Tasks -> Points]
      /\ pc[StopTask(p)] = "stopping"
  <2>1. pc[StopTask(p)] = "stopping"
    BY DEF SendKill, Go
  <2> QED
    BY <1>1, <2>1, StopGo
<1>3. Types'
  BY <1>2 DEF SendKill, Used, Go, IInv, TypeOK, Types, States, inner, procs
<1>4. OneOwner' /\ ChildReachable'
  BY <1>2, ManagerAssumption DEF StopMoves, SendKill, Used, inner, procs, IInv,
     TypeOK, Types, OneOwner, ChildReachable, Alive, Registered, StopPoints,
     StartPoints
<1>5. StartPoints' /\ WaitPoints' /\ StopPoints'
  BY <1>2, ManagerAssumption DEF StopMoves, SendKill, Used, inner, procs, IInv,
     TypeOK, Types, OneOwner, Registered, StartPoints, WaitPoints, StopPoints
<1>6. StartingOwned' /\ StoppingOwned' /\ RunningOwned' /\ SenderOwned'
  BY <1>2 DEF StopMoves, SendKill, Used, inner, procs, IInv, TypeOK, OneOwner,
     Registered, StartingOwned, StoppingOwned, RunningOwned, SenderOwned,
     StartPoints, WaitPoints
<1> QED
  BY <1>3, <1>4, <1>5, <1>6 DEF IInv, TypeOK

LEMMA StopTimesOutKeeps ==
  ASSUME ManagerAssumption, IInv, NEW p \in Stops, StopTimesOut(p)
  PROVE  IInv'
<1>1. /\ "done" \in Points
      /\ pc \in [Tasks -> Points]
      /\ pc' = [pc EXCEPT ![StopTask(p)] = "done"]
  BY DEF Points, IInv, TypeOK, Types, StopTimesOut, Go
<1>2. /\ StopMoves(pc, pc', p, "done") /\ pc' \in [Tasks -> Points]
      /\ pc[StopTask(p)] = "sleeping"
  <2>1. pc[StopTask(p)] = "sleeping"
    BY DEF StopTimesOut, Go
  <2> QED
    BY <1>1, <2>1, StopGo
<1>3. Types'
  BY <1>2 DEF StopTimesOut, Go, IInv, TypeOK, Types, States, inner, procs
<1>4. OneOwner' /\ ChildReachable'
  BY <1>2, ManagerAssumption DEF StopMoves, StopTimesOut, inner, procs, IInv,
     TypeOK, Types, OneOwner, ChildReachable, Alive, Registered, StopPoints,
     StartPoints
<1>5. StartPoints' /\ WaitPoints' /\ StopPoints'
  BY <1>2, ManagerAssumption DEF StopMoves, StopTimesOut, inner, procs, IInv,
     TypeOK, Types, OneOwner, Registered, StartPoints, WaitPoints, StopPoints
<1>6. StartingOwned' /\ StoppingOwned' /\ RunningOwned' /\ SenderOwned'
  BY <1>2 DEF StopMoves, StopTimesOut, inner, procs, IInv, TypeOK, OneOwner,
     Registered, StartingOwned, StoppingOwned, RunningOwned, SenderOwned,
     StartPoints, WaitPoints
<1> QED
  BY <1>3, <1>4, <1>5, <1>6 DEF IInv, TypeOK

LEMMA StopReturnsKeeps ==
  ASSUME ManagerAssumption, IInv, NEW p \in Stops, StopReturns(p)
  PROVE  IInv'
<1>1. /\ "done" \in Points
      /\ pc \in [Tasks -> Points]
      /\ pc' = [pc EXCEPT ![StopTask(p)] = "done"]
  BY DEF Points, IInv, TypeOK, Types, StopReturns, Go
<1>2. /\ StopMoves(pc, pc', p, "done") /\ pc' \in [Tasks -> Points]
      /\ pc[StopTask(p)] = "sleeping"
  <2>1. pc[StopTask(p)] = "sleeping"
    BY DEF StopReturns, Go
  <2> QED
    BY <1>1, <2>1, StopGo
<1>3. Types'
  BY <1>2 DEF StopReturns, Go, IInv, TypeOK, Types, States, inner, procs
<1>4. OneOwner' /\ ChildReachable'
  BY <1>2, ManagerAssumption DEF StopMoves, StopReturns, inner, procs, IInv, TypeOK,
     Types, OneOwner, ChildReachable, Alive, Registered, StopPoints, StartPoints
<1>5. StartPoints' /\ WaitPoints' /\ StopPoints'
  BY <1>2, ManagerAssumption DEF StopMoves, StopReturns, inner, procs, IInv, TypeOK,
     Types, OneOwner, Registered, StartPoints, WaitPoints, StopPoints
<1>6. StartingOwned' /\ StoppingOwned' /\ RunningOwned' /\ SenderOwned'
  BY <1>2 DEF StopMoves, StopReturns, inner, procs, IInv, TypeOK, OneOwner,
     Registered, StartingOwned, StoppingOwned, RunningOwned, SenderOwned,
     StartPoints, WaitPoints
<1> QED
  BY <1>3, <1>4, <1>5, <1>6 DEF IInv, TypeOK

LEMMA WatchChildKeeps ==
  ASSUME ManagerAssumption, IInv, NEW c \in Starts, WatchChild(c)
  PROVE  IInv'
<1>1. /\ pc'[StartTask(c)] = "done" /\ pc'[WaitTask(c)] = "waiting"
      /\ pc[StartTask(c)] = "registered"
      /\ \A d \in Starts :
            d # c => /\ pc'[StartTask(d)] = pc[StartTask(d)]
                     /\ pc'[WaitTask(d)] = pc[WaitTask(d)]
      /\ \A p \in Stops : pc'[StopTask(p)] = pc[StopTask(p)]
      /\ pc' \in [Tasks -> Points]
  <2>1. pc \in [Tasks -> Points] /\ "done" \in Points /\ "waiting" \in Points
    BY DEF IInv, TypeOK, Types, Points
  <2> QED
    BY <2>1, TaskNames DEF WatchChild
<1>2. Types'
  BY <1>1 DEF WatchChild, IInv, TypeOK, Types, inner, procs
<1>3. \A d \in Starts : Registered(d)' <=> Registered(d)
  BY <1>1 DEF Registered
<1>4. OneOwner' /\ ChildReachable'
  BY <1>1, <1>3 DEF WatchChild, inner, procs, IInv, TypeOK, Types, OneOwner,
     ChildReachable, Alive
<1>5. StartPoints' /\ WaitPoints' /\ StopPoints'
  BY <1>1 DEF WatchChild, inner, procs, IInv, StartPoints, WaitPoints, StopPoints
<1>6. StartingOwned' /\ StoppingOwned' /\ RunningOwned' /\ SenderOwned'
  BY <1>1, <1>3 DEF WatchChild, inner, procs, IInv, StartPoints, StartingOwned,
     StoppingOwned, RunningOwned, SenderOwned
<1> QED
  BY <1>2, <1>4, <1>5, <1>6 DEF IInv, TypeOK

(* The end of a child changes no sender and no state.                      *)
LEMMA ChildEndKeeps ==
  ASSUME IInv, NEW c \in Starts, child[c] = "alive",
         NEW code \in {"zero", "nonzero"}, child' = [child EXCEPT ![c] = code],
         UNCHANGED <<inner, pc, report, held, wasStop, signalled, view>>
  PROVE  IInv'
<1>1. /\ child'[c] = code
      /\ \A d \in Starts : d # c => child'[d] = child[d]
      /\ child' \in [Starts -> {"none", "alive", "zero", "nonzero"}]
  BY DEF IInv, TypeOK, Types
<1>2. Types' /\ OneOwner'
  BY <1>1 DEF inner, IInv, TypeOK, Types, OneOwner, Registered
<1>3. ChildReachable'
  BY <1>1 DEF inner, IInv, ChildReachable, Alive, Registered
<1>4. StartPoints' /\ WaitPoints' /\ StopPoints'
  BY <1>1 DEF inner, IInv, StartPoints, WaitPoints, StopPoints
<1>5. StartingOwned' /\ StoppingOwned' /\ RunningOwned' /\ SenderOwned'
  BY DEF inner, IInv, StartingOwned, StoppingOwned, RunningOwned, SenderOwned,
     Registered
<1> QED
  BY <1>2, <1>3, <1>4, <1>5 DEF IInv, TypeOK

(* Reports change what is owed and shown only.                             *)
LEMMA ReportKeeps ==
  ASSUME IInv, NEW t \in Tasks, Report(t)
  PROVE  IInv'
<1>1. /\ UNCHANGED <<inner, pc, held, wasStop, procs>>
      /\ view' \in States
      /\ report' \in [Tasks -> {"none", "unread"} \cup States]
  BY DEF Report, ReadStatus, EmitStatus, IInv, TypeOK, Types
<1> QED
  BY <1>1 DEF IInv, TypeOK, Types, OneOwner, ChildReachable, Alive, StartPoints,
     WaitPoints, StopPoints,
     StartingOwned, StoppingOwned, RunningOwned, SenderOwned, Registered, inner, procs

LEMMA StutterKeeps == ASSUME IInv, UNCHANGED vars PROVE IInv'
BY DEF IInv, TypeOK, Types, OneOwner, ChildReachable, Alive, StartPoints,
   WaitPoints, StopPoints,
   StartingOwned, StoppingOwned, RunningOwned, SenderOwned, Registered, vars, inner, procs

-----------------------------------------------------------------------------
LEMMA InitKeeps == ASSUME ManagerAssumption, Init PROVE IInv
<1>1. /\ \A c \in Starts : pc[StartTask(c)] = "idle" /\ pc[WaitTask(c)] = "none"
      /\ \A p \in Stops : pc[StopTask(p)] = "idle"
      /\ pc \in [Tasks -> Points]
  <2>1. /\ \A c \in Starts : StartTask(c)[1] = "start" /\ WaitTask(c)[1] = "wait"
        /\ \A p \in Stops : StopTask(p)[1] = "stop"
    BY DEF StartTask, WaitTask, StopTask
  <2> QED
    BY <2>1, TaskNames DEF Init, Points
<1>2. Types
  BY <1>1 DEF Init, Types, States
<1>3. OneOwner /\ ChildReachable
  BY DEF Init, OneOwner, ChildReachable, Alive
<1>4. StartPoints /\ WaitPoints /\ StopPoints
  BY <1>1 DEF Init, StartPoints, WaitPoints, StopPoints
<1>5. StartingOwned /\ StoppingOwned /\ RunningOwned /\ SenderOwned
  BY DEF Init, StartingOwned, StoppingOwned, RunningOwned, SenderOwned
<1> QED
  BY <1>2, <1>3, <1>4, <1>5 DEF IInv, TypeOK

(* The inductive invariant of the process manager.                         *)
THEOREM ManagerInvariance == Spec => []IInv
<1>1. Init => IInv
  BY ManagerAssumption, InitKeeps
<1>2. IInv /\ [Next]_vars => IInv'
  <2> SUFFICES ASSUME IInv, [Next]_vars PROVE IInv'
    OBVIOUS
  <2> USE ManagerAssumption
  <2>1. CASE \E t \in Tasks : Report(t)
    BY <2>1, ReportKeeps
  <2>2. ASSUME NEW c \in Starts, StartRefused(c) \/ StartAdmitted(c) \/ StartStep(c)
        PROVE  IInv'
    BY <2>2, StartRefusedKeeps, StartAdmittedKeeps, BeginStartingKeeps, SpawnHostdKeeps,
       SpawnFailsKeeps, RegisterChildKeeps, WatchChildKeeps DEF StartStep
  <2>3. ASSUME NEW c \in Starts, ExitsByItself(c) \/ KillChild(c)
        PROVE  IInv'
    <3>1. child[c] = "alive" /\ UNCHANGED <<inner, pc, report, held, wasStop, signalled, view>>
      BY <2>3 DEF ExitsByItself, KillChild
    <3>2. PICK code \in {"zero", "nonzero"} : child' = [child EXCEPT ![c] = code]
      BY <2>3 DEF ExitsByItself, KillChild
    <3> QED
      BY <3>1, <3>2, ChildEndKeeps
  <2>4. ASSUME NEW c \in Starts,
               WaitReturns(c) \/ ReadStopRequested(c) \/ ReportExit(c) \/ Cleanup(c)
        PROVE  IInv'
    BY <2>4, WaitReturnsKeeps, ReadStopRequestedKeeps, ReportExitKeeps, CleanupKeeps
  <2>5. ASSUME NEW p \in Stops, StopIdle(p) \/ StopBegins(p) \/ StopStep(p)
        PROVE  IInv'
    BY <2>5, StopIdleKeeps, StopBeginsKeeps, SendKillKeeps, StopTimesOutKeeps,
       StopReturnsKeeps DEF StopStep
  <2>6. CASE UNCHANGED vars
    BY <2>6, StutterKeeps
  <2> QED
    BY <2>1, <2>2, <2>3, <2>4, <2>5, <2>6 DEF Next, WaitStep
<1> QED
  BY <1>1, <1>2, PTL DEF Spec

(* Types, and one place for every sender (child_kill_tx and stop's         *)
(* kill_tx in hostd_process.rs).                                           *)
THEOREM ManagerTypes == Spec => []TypeOK
<1>1. IInv => TypeOK
  BY DEF IInv
<1> QED
  BY <1>1, ManagerInvariance, PTL

(* However many starts, stops and exits overlap, no hostd that start has   *)
(* registered gets out of reach.                                           *)
THEOREM ChildReachableHolds == Spec => []ChildReachable
<1>1. IInv => ChildReachable
  BY DEF IInv
<1> QED
  BY <1>1, ManagerInvariance, PTL

(* When everything has settled, a child is alive exactly if its sender is  *)
(* the manager's.                                                          *)
LEMMA SettledChildren ==
  ASSUME ManagerAssumption, IInv, Settled
  PROVE  Alive = {killTx} \ {None}
<1>1. ASSUME NEW c \in Alive PROVE c = killTx /\ c # None
  <2>1. /\ c \in Starts /\ child[c] = "alive" /\ AtRest(StartTask(c)) /\ AtRest(WaitTask(c))
        /\ \A p \in Stops : AtRest(StopTask(p))
    BY TaskNames DEF Alive, Settled
  <2>2. Registered(c) /\ pc[StartTask(c)] = "done"
    BY <2>1 DEF AtRest, IInv, StartPoints, Registered
  <2>3. pc[WaitTask(c)] = "waiting"
    BY <2>1, <2>2 DEF IInv, StartPoints, WaitPoints, AtRest
  <2>4. c \notin signalled
    BY <2>1, <2>3 DEF Settled
  <2>5. \A p \in Stops : held[p] = None
    BY <2>1 DEF IInv, StopPoints, AtRest
  <2>6. c # None
    BY <2>1, ManagerAssumption DEF ManagerAssumption
  <2> QED
    BY <2>2, <2>4, <2>5, <2>6 DEF IInv, ChildReachable
<1>2. ASSUME killTx # None PROVE killTx \in Alive
  <2>1. killTx \in Starts /\ Registered(killTx)
    BY <1>2 DEF IInv, TypeOK, Types, OneOwner
  <2>2. AtRest(StartTask(killTx)) /\ AtRest(WaitTask(killTx))
    BY <2>1, TaskNames DEF Settled
  <2>3. pc[StartTask(killTx)] = "done"
    BY <2>1, <2>2 DEF Registered, AtRest
  <2>4. pc[WaitTask(killTx)] = "waiting"
    BY <2>1, <2>2, <2>3 DEF IInv, StartPoints, WaitPoints, AtRest
  <2> QED
    BY <2>1, <2>4 DEF Settled
<1> QED
  BY <1>1, <1>2

(* Unless a spawn fails, the settled state tells the truth, for any number *)
(* of overlapping starts, stops and exits.                                 *)
THEOREM SettledStateHolds ==
  ASSUME SpawnMayFail = FALSE
  PROVE  Spec => []SettledStateIsTrue
<1>1. IInv => SettledStateIsTrue
  <2> SUFFICES ASSUME IInv, Settled
               PROVE  /\ state \notin {"Starting", "Stopping"}
                      /\ state = "Running" <=> Alive # {}
                      /\ Alive = {killTx} \ {None}
    BY DEF SettledStateIsTrue, Used
  <2>1. /\ \A c \in Starts : /\ pc[StartTask(c)] \in {"idle", "refused", "done"}
                             /\ pc[WaitTask(c)] \in {"none", "waiting", "done"}
        /\ \A p \in Stops : pc[StopTask(p)] \in {"idle", "done"}
    <3>1. \A t \in Tasks : AtRest(t)
      BY DEF Settled
    <3>2. /\ \A c \in Starts : AtRest(StartTask(c)) /\ AtRest(WaitTask(c))
          /\ \A p \in Stops : AtRest(StopTask(p))
      BY <3>1, TaskNames
    <3> QED
      BY <3>2 DEF AtRest, IInv, StartPoints, WaitPoints, StopPoints
  <2>2. state \notin {"Starting", "Stopping"}
    BY <2>1 DEF IInv, StartingOwned, StoppingOwned
  <2>3. Alive = {killTx} \ {None}
    BY ManagerAssumption, SettledChildren
  <2>4. state = "Running" => Alive # {}
    <3> SUFFICES ASSUME state = "Running" PROVE Alive # {}
      OBVIOUS
    <3>1. PICK c \in Starts : Registered(c)
                              /\ pc[WaitTask(c)] \in {"none", "waiting", "exited", "judged"}
      BY DEF IInv, RunningOwned
    <3>2. pc[StartTask(c)] = "done"
      BY <2>1, <3>1 DEF Registered
    <3>3. pc[WaitTask(c)] = "waiting"
      BY <2>1, <3>1, <3>2 DEF IInv, StartPoints
    <3> QED
      BY <3>3 DEF Settled
  <2>5. Alive # {} => state = "Running"
    BY <2>1, <2>3 DEF IInv, SenderOwned
  <2> QED
    BY <2>2, <2>3, <2>4, <2>5
<1> QED
  BY <1>1, ManagerInvariance, PTL
=============================================================================
