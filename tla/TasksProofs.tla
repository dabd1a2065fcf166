------------------------------ MODULE TasksProofs ------------------------------
(* Proofs about the scheduler, for any number of Task objects and processes.
   The inductive invariant adds to the checked properties what they rest on: the
   pids of the listed tasks are distinct and have been issued, no other task
   shares the current one's, and the turns already given follow the order of the
   list. *)
EXTENDS Tasks, CommonLemmas

Positions == 1 .. Len(tasklist)
PidAt(i)  == object[tasklist[i]].pid
Issued    == 1 .. task_last_id - 1

ListInv ==
    /\ \A i \in Positions : tasklist[i] \in allocated /\ PidAt(i) \in Issued
    /\ \A i, j \in Positions : PidAt(i) = PidAt(j) => i = j

\* No task has been entered yet, and none is current.
Idle ==
    /\ currentTask = NoTask /\ flow = Boot /\ ahead = {}
    /\ \/ boot \in {"load", "done"} /\ tasklist = <<>>
       \/ boot = "enter" /\ Len(tasklist) = 1 /\ ~object[tasklist[1]].running

\* kernel_main is entering the first task.
Entering ==
    /\ boot \in {"start", "jump"} /\ flow = Boot /\ ahead = {}
    /\ currentTask \in Object /\ Len(tasklist) = 1 /\ tasklist[1] = currentTask
    /\ object[currentTask].running <=> boot = "jump"
    /\ halted \/ cr3 = object[currentTask].pid

\* A program runs.
Running ==
    /\ currentTask \in Object /\ boot \notin {"load", "enter"}
    /\ object[currentTask].running
    /\ flow = object[currentTask].pid /\ flow \in Issued
    /\ \A i \in Positions : PidAt(i) = flow => tasklist[i] = currentTask

CurrentInv == Idle \/ Entering \/ Running

WaitInv ==
    \A i \in Positions :
       tasklist[i] # currentTask /\ object[tasklist[i]].running
          => object[tasklist[i]].esp = PidAt(i)

\* Going round the list from position i, j comes no later than k.
Passed(i, j, k) == (i < j /\ j <= k) \/ (j <= k /\ k < i) \/ (k < i /\ i < j)

AheadInv ==
    /\ ahead \subseteq Issued \X Issued
    /\ ahead = {} \/ \E k \in Positions : tasklist[k] = currentTask
    /\ \A i, j, k \in Positions :
          tasklist[k] = currentTask /\ <<PidAt(i), PidAt(j)>> \in ahead => Passed(i, j, k)

IInv == TypeOK /\ ListInv /\ CurrentInv /\ WaitInv /\ OwnAddressSpace /\ AheadInv

-------------------------------------------------------------------------------

\* The task list holds objects with pids, by position.
LEMMA ListFacts ==
    ASSUME TypeOK
    PROVE  /\ Len(tasklist) \in Nat /\ DOMAIN tasklist = Positions
           /\ \A i \in Positions : tasklist[i] \in Object /\ PidAt(i) \in Boot .. MaxPid
           /\ Listed = {tasklist[i] : i \in Positions}
           /\ ListedPids = {PidAt(i) : i \in Positions}
<1>1. tasklist \in Seq(Object)
      BY DEF TypeOK
<1>2. /\ Len(tasklist) \in Nat /\ DOMAIN tasklist = Positions
      /\ \A i \in Positions : tasklist[i] \in Object
      BY <1>1, LenProperties, ElementOfSeq DEF Positions
<1>3. Listed = {tasklist[i] : i \in Positions}
      BY <1>2 DEF Listed, Range
<1>4. ListedPids = {PidAt(i) : i \in Positions}
      BY <1>3 DEF ListedPids, PidAt
<1>5. \A i \in Positions : PidAt(i) \in Boot .. MaxPid
      BY <1>2 DEF TypeOK, Task, PidAt
<1>   QED BY <1>2, <1>3, <1>4, <1>5

\* The next pid is none of those issued.
LEMMA IssuedPids ==
    ASSUME TypeOK
    PROVE  /\ task_last_id \in Nat \ {0} /\ Issued \subseteq Pid
           /\ task_last_id \notin Issued /\ Boot \notin Issued
<1>1. task_last_id \in 1 .. MaxPid + 1
      BY DEF TypeOK
<1>   QED BY <1>1, TaskAssumption DEF Issued, Pid, Boot

\* A program that calls is the current task, and listed.
LEMMA CallerListed ==
    ASSUME IInv, flow \in ListedPids
    PROVE  /\ Running
           /\ currentTask \in Object /\ currentTask # NoTask /\ currentTask \in allocated
           /\ \E k \in Positions : tasklist[k] = currentTask
<1>1. PICK k \in Positions : PidAt(k) = flow
      BY ListFacts DEF IInv
<1>2. flow \in Issued /\ flow # Boot
      BY <1>1, IssuedPids DEF IInv, ListInv
<1>3. Running
      BY <1>2 DEF IInv, CurrentInv, Idle, Entering
<1>4. tasklist[k] = currentTask /\ tasklist[k] \in allocated
      BY <1>1, <1>3 DEF IInv, Running, ListInv
<1>   QED BY <1>3, <1>4, TaskAssumption DEF Running

\* The task that comes next, by position.
LEMMA NextPosition ==
    ASSUME IInv, tasklist # <<>>
    PROVE  \E n \in Positions :
              /\ NextTask = tasklist[n]
              /\ \A k \in Positions : tasklist[k] = currentTask =>
                    n = IF k = Len(tasklist) THEN 1 ELSE k + 1
<1>   DEFINE after == {i \in 2 .. Len(tasklist) : tasklist[i - 1] = currentTask}
<1>1. /\ Len(tasklist) \in Nat /\ 1 \in Positions
  <2>1. Len(tasklist) \in Nat /\ Len(tasklist) # 0
        BY EmptySeq DEF IInv, TypeOK
  <2>   QED BY <2>1 DEF Positions
<1>2. \A i, j \in Positions : tasklist[i] = tasklist[j] => i = j
      BY DEF IInv, ListInv, PidAt
<1>3. CASE after = {}
  <2>1. NextTask = tasklist[1]
        BY <1>3 DEF NextTask
  <2>2. ASSUME NEW k \in Positions, tasklist[k] = currentTask PROVE k = Len(tasklist)
    <3>1. CASE k < Len(tasklist)
      <4>1. k + 1 \in 2 .. Len(tasklist) /\ (k + 1) - 1 = k
            BY <1>1, <3>1 DEF Positions
      <4>2. k + 1 \in after
            BY <4>1, <2>2
      <4>   QED BY <4>2, <1>3
    <3>   QED BY <3>1, <1>1 DEF Positions
  <2>   QED BY <1>1, <2>1, <2>2
<1>4. CASE after # {}
  <2>1. PICK n \in after : TRUE
        BY <1>4
  <2>2. n \in 2 .. Len(tasklist) /\ tasklist[n - 1] = currentTask /\ n \in Positions
        /\ n - 1 \in Positions /\ n \in Int
        BY <1>1, <2>1 DEF Positions
  <2>3. \A i \in after : i = n
    <3>   SUFFICES ASSUME NEW i \in after PROVE i = n
          OBVIOUS
    <3>1. i \in Int /\ i - 1 \in Positions /\ tasklist[i - 1] = currentTask
          BY <1>1 DEF Positions
    <3>2. i - 1 = n - 1
          BY <3>1, <2>2, <1>2
    <3>   QED BY <3>1, <3>2, <2>2
  <2>4. (CHOOSE i \in after : \A j \in after : i <= j) = n
    <3>   DEFINE First(i) == i \in after /\ \A j \in after : i <= j
    <3>1. First(n)
          BY <2>1, <2>2, <2>3
    <3>2. First(CHOOSE i : First(i))
          BY <3>1, Zenon
    <3>3. (CHOOSE i \in after : \A j \in after : i <= j) = CHOOSE i : First(i)
          OBVIOUS
    <3>   HIDE DEF after
    <3>   QED BY <3>2, <3>3, <2>3
  <2>5. NextTask = tasklist[n]
        BY <1>4, <2>4 DEF NextTask
  <2>6. ASSUME NEW k \in Positions, tasklist[k] = currentTask
        PROVE  n = IF k = Len(tasklist) THEN 1 ELSE k + 1
    <3>1. k = n - 1
          BY <2>2, <2>6, <1>2
    <3>   QED BY <3>1, <2>2, <1>1
  <2>   QED BY <2>2, <2>5, <2>6
<1>   QED BY <1>3, <1>4

-------------------------------------------------------------------------------
(* Each action preserves the invariant. *)

\* At boot there is no task.
LEMMA InitInv == Init => IInv
<1>   SUFFICES ASSUME Init PROVE IInv
      OBVIOUS
<1>1. Positions = {} /\ tasklist \in Seq(Object)
      BY DEF Init, Positions
<1>2. 1 .. task_last_id - 1 = {}
      BY DEF Init
<1>3. TypeOK
  <2>1. [pid |-> Boot, running |-> FALSE, esp |-> Boot] \in Task
        BY TaskAssumption DEF Task, Boot
  <2>2. object \in [Object -> Task]
        BY <2>1 DEF Init
  <2>3. task_last_id \in 1 .. MaxPid + 1 /\ cr3 \in Boot .. MaxPid /\ flow \in Boot .. MaxPid
        BY TaskAssumption DEF Init, Boot
  <2>4. boot \in Stages /\ halted \in BOOLEAN
        BY DEF Init, Stages
  <2>   QED BY <1>1, <2>2, <2>3, <2>4 DEF Init, TypeOK
<1>4. ListInv /\ WaitInv /\ CurrentInv /\ OwnAddressSpace
      BY <1>1 DEF Init, ListInv, WaitInv, CurrentInv, Idle, OwnAddressSpace
<1>5. AheadInv
      BY <1>1 DEF Init, AheadInv
<1>   QED BY <1>3, <1>4, <1>5 DEF IInv

\* A step that leaves the tasks and the scheduler alone.
LEMMA QuietInv ==
    ASSUME IInv,
           UNCHANGED <<tasklist, currentTask, object, task_last_id, flow, ahead>>,
           allocated \subseteq allocated', allocated' \subseteq Object,
           boot' = boot \/ (boot = "load" /\ boot' = "done"), halted' \in BOOLEAN,
           cr3' \in Boot .. MaxPid, halted' \/ (halted' = halted /\ cr3' = cr3)
    PROVE  IInv'
<1>1. TypeOK'
      BY DEF IInv, TypeOK, Stages
<1>2. ListInv' /\ WaitInv'
      BY DEF IInv, ListInv, WaitInv, Positions, PidAt, Issued
<1>3. CurrentInv'
  <2>1. Idle => Idle'
        BY DEF Idle
  <2>2. Entering => Entering'
        BY DEF Entering
  <2>3. Running => Running'
        BY DEF Running, Positions, PidAt, Issued
  <2>   QED BY <2>1, <2>2, <2>3 DEF IInv, CurrentInv
<1>4. AheadInv'
      BY DEF IInv, AheadInv, Positions, PidAt, Issued, Passed
<1>5. OwnAddressSpace'
      BY DEF IInv, OwnAddressSpace
<1>   QED BY <1>1, <1>2, <1>3, <1>4, <1>5 DEF IInv

\* resume, when the frame of a task that has run is its own.
LEMMA ResumeFacts ==
    ASSUME NEW objects \in [Object -> Task], NEW n \in Object,
           objects[n].running => objects[n].esp = objects[n].pid,
           resume(n, objects)
    PROVE  /\ currentTask' = n /\ flow' = objects[n].pid /\ cr3' = objects[n].pid
           /\ object' \in [Object -> Task] /\ object'[n].running
           /\ \A t \in Object : /\ object'[t].pid = objects[t].pid
                                /\ object'[t].esp = objects[t].esp
                                /\ t # n => object'[t].running = objects[t].running
<1>1. /\ currentTask' = n /\ cr3' = objects[n].pid
      /\ flow' = IF objects[n].running THEN objects[n].esp ELSE objects[n].pid
      BY DEF resume
<1>2. object' = [objects EXCEPT ![n].running = TRUE]
      BY DEF resume
<1>3. flow' = objects[n].pid
      BY <1>1
<1>4. /\ object' \in [Object -> Task] /\ object'[n].running
      /\ \A t \in Object : /\ object'[t].pid = objects[t].pid
                           /\ object'[t].esp = objects[t].esp
                           /\ t # n => object'[t].running = objects[t].running
      BY <1>2 DEF Task
<1>   QED BY <1>1, <1>3, <1>4

\* What a switch does, whoever is interrupted: the next task runs as itself.
LEMMA SwitchFacts ==
    ASSUME IInv, Running, switchTask
    PROVE  /\ NextTask \in Object
           /\ NextTask = currentTask \/ tasklist # <<>>
           /\ currentTask' = NextTask /\ flow' = object[NextTask].pid /\ cr3' = flow'
           /\ object' \in [Object -> Task] /\ object'[NextTask].running
           /\ \A t \in Object :
                 /\ object'[t].pid = object[t].pid
                 /\ t # NextTask => object'[t].running = object[t].running
                 /\ t # currentTask => object'[t].esp = object[t].esp
           /\ object'[currentTask].esp = flow
           /\ ahead' = Turn(object[NextTask].pid)
           /\ UNCHANGED <<tasklist, allocated, task_last_id, boot, halted>>
<1>1. /\ currentTask \in Object /\ object[currentTask].running
      /\ flow = object[currentTask].pid
      /\ object \in [Object -> Task] /\ flow \in Boot .. MaxPid
      BY DEF IInv, Running, TypeOK
<1>2. /\ resume(NextTask, Interrupted)
      /\ ahead' = Turn(object[NextTask].pid)
      /\ UNCHANGED <<tasklist, allocated, task_last_id, boot, halted>>
      BY <1>1, TaskAssumption DEF switchTask
<1>3. /\ Interrupted \in [Object -> Task]
      /\ \A t \in Object : /\ Interrupted[t].pid = object[t].pid
                           /\ Interrupted[t].running = object[t].running
                           /\ t # currentTask => Interrupted[t].esp = object[t].esp
      /\ Interrupted[currentTask].esp = flow
      BY <1>1 DEF Interrupted, Task
<1>4. /\ NextTask \in Object
      /\ NextTask = currentTask \/ tasklist # <<>>
      /\ NextTask # currentTask /\ object[NextTask].running
            => object[NextTask].esp = object[NextTask].pid
  <2>1. CASE tasklist = <<>>
        BY <2>1, <1>1 DEF NextTask
  <2>2. CASE tasklist # <<>>
    <3>1. PICK i \in Positions : NextTask = tasklist[i]
          BY <2>2, NextPosition
    <3>   QED BY <2>2, <3>1, ListFacts DEF IInv, WaitInv, PidAt
  <2>   QED BY <2>1, <2>2
<1>5. ASSUME Interrupted[NextTask].running
      PROVE  Interrupted[NextTask].esp = Interrupted[NextTask].pid
  <2>1. CASE NextTask = currentTask
        BY <2>1, <1>1, <1>3
  <2>2. CASE NextTask # currentTask
    <3>1. object[NextTask].running
          BY <1>3, <1>4, <1>5
    <3>   QED BY <3>1, <2>2, <1>3, <1>4
  <2>   QED BY <2>1, <2>2
<1>6. /\ currentTask' = NextTask
      /\ flow' = Interrupted[NextTask].pid /\ cr3' = Interrupted[NextTask].pid
      /\ object' \in [Object -> Task] /\ object'[NextTask].running
      /\ \A t \in Object : /\ object'[t].pid = Interrupted[t].pid
                           /\ object'[t].esp = Interrupted[t].esp
                           /\ t # NextTask => object'[t].running = Interrupted[t].running
      BY <1>2, <1>3, <1>4, <1>5, ResumeFacts
<1>7. /\ \A t \in Object : /\ object'[t].pid = object[t].pid
                           /\ t # NextTask => object'[t].running = object[t].running
                           /\ t # currentTask => object'[t].esp = object[t].esp
      /\ object'[currentTask].esp = flow
      BY <1>1, <1>3, <1>6
<1>8. flow' = object[NextTask].pid /\ cr3' = flow'
      BY <1>3, <1>4, <1>6
<1>   QED BY <1>2, <1>4, <1>6, <1>7, <1>8

\* The turns given still follow the list after one more turn.
LEMMA SwitchAhead ==
    ASSUME IInv, Running, switchTask
    PROVE  AheadInv'
<1>   DEFINE p == object[NextTask].pid
<1>0. /\ currentTask' = NextTask /\ ahead' = Turn(p)
      /\ UNCHANGED <<tasklist, task_last_id>>
      /\ \A i \in Positions : tasklist[i] \in Object /\ PidAt(i)' = PidAt(i)
      BY SwitchFacts, ListFacts DEF IInv, PidAt
<1>1. CASE tasklist = <<>>
  <2>1. Positions = {} /\ ListedPids = {}
        BY <1>1, ListFacts DEF IInv, Positions
  <2>2. ahead = {}
        BY <2>1 DEF IInv, AheadInv
  <2>3. ahead' = {}
        BY <1>0, <2>1, <2>2 DEF Turn
  <2>   QED BY <2>3 DEF AheadInv
<1>2. CASE tasklist # <<>>
  <2>1. PICK n \in Positions :
           /\ NextTask = tasklist[n]
           /\ \A k \in Positions : tasklist[k] = currentTask =>
                 n = IF k = Len(tasklist) THEN 1 ELSE k + 1
        BY <1>2, NextPosition
  <2>2. /\ p = PidAt(n) /\ p \in Issued /\ ListedPids \subseteq Issued
        /\ Len(tasklist) \in Nat
        /\ \A i, j \in Positions : PidAt(i) = PidAt(j) => i = j
        BY <2>1, ListFacts DEF IInv, ListInv, PidAt
  <2>   HIDE DEF p
  <2>3. \A pair \in ahead' : \/ pair \in ahead /\ pair[1] # p
                             \/ pair[1] \in ListedPids \ {p} /\ pair = <<pair[1], p>>
        BY <1>0 DEF Turn
  <2>4. ahead' \subseteq Issued \X Issued
        BY <1>0, <2>2 DEF IInv, AheadInv, Turn
  <2>5. ASSUME NEW i \in Positions, NEW j \in Positions, <<PidAt(i), PidAt(j)>> \in ahead'
        PROVE  Passed(i, j, n)
    <3>1. i # n
          BY <2>2, <2>3, <2>5
    <3>2. CASE PidAt(j) = p
      <4>1. j = n
            BY <3>2, <2>2
      <4>   QED BY <3>1, <4>1 DEF Passed, Positions
    <3>3. CASE <<PidAt(i), PidAt(j)>> \in ahead
      <4>1. PICK k \in Positions : tasklist[k] = currentTask
            BY <3>3 DEF IInv, AheadInv
      <4>2. Passed(i, j, k)
            BY <3>3, <4>1 DEF IInv, AheadInv
      <4>3. n = IF k = Len(tasklist) THEN 1 ELSE k + 1
            BY <2>1, <4>1
      <4>   QED BY <3>1, <4>2, <4>3, <2>2 DEF Passed, Positions
    <3>   QED BY <3>2, <3>3, <2>3, <2>5
  <2>6. \A k \in Positions : tasklist[k] = currentTask' => k = n
        BY <1>0, <2>1, <2>2 DEF PidAt
  <2>   QED BY <1>0, <2>1, <2>4, <2>5, <2>6 DEF AheadInv, Positions, Issued, Passed
<1>   QED BY <1>1, <1>2

\* A list of one task.
LEMMA OneTask ==
    ASSUME Len(tasklist) = 1
    PROVE  Positions = {1} /\ tasklist # <<>> /\ 2 .. Len(tasklist) = {}
<1>1. 1 .. 1 = {1} /\ 2 .. 1 = {}
      OBVIOUS
<1>2. Len(<<>>) = 0
      OBVIOUS
<1>3. tasklist # <<>>
      BY <1>2
<1>   QED BY <1>1, <1>3 DEF Positions

\* While kernel_main enters the first task, that task is the next one too.
LEMMA EnteringNext ==
    ASSUME IInv, Entering
    PROVE  NextTask = currentTask /\ currentTask # NoTask /\ currentTask \in allocated
<1>1. 1 \in Positions /\ tasklist[1] = currentTask /\ 2 .. Len(tasklist) = {}
      BY OneTask DEF Entering
<1>2. tasklist # <<>>
      BY OneTask DEF Entering
<1>   QED BY <1>1, <1>2, TaskAssumption DEF NextTask, Entering, IInv, ListInv

\* An interrupt while kernel_main enters the first task.
LEMMA SwitchEntering ==
    ASSUME IInv, Entering, switchTask
    PROVE  IInv' /\ (flow' = flow \/ Running')
<1>1. /\ currentTask \in Object /\ flow = Boot /\ ahead = {}
      /\ Positions = {1} /\ tasklist[1] = currentTask /\ tasklist # <<>>
      /\ object[currentTask].running <=> boot = "jump"
      /\ boot \in {"start", "jump"}
      /\ object \in [Object -> Task]
      BY OneTask DEF Entering, IInv, TypeOK
<1>2. NextTask = currentTask
      BY EnteringNext
<1>3. /\ resume(currentTask, Interrupted)
      /\ ahead' = Turn(object[currentTask].pid)
      /\ UNCHANGED <<tasklist, allocated, task_last_id, boot, halted>>
      BY <1>1, <1>2, TaskAssumption DEF switchTask
<1>4. /\ Interrupted \in [Object -> Task]
      /\ \A t \in Object : /\ Interrupted[t].pid = object[t].pid
                           /\ Interrupted[t].running = object[t].running
      /\ Interrupted[currentTask].esp = Boot
      BY <1>1, TaskAssumption DEF Interrupted, Task, Boot
<1>5. /\ currentTask' = currentTask /\ cr3' = object[currentTask].pid
      /\ flow' = IF boot = "jump" THEN Boot ELSE object[currentTask].pid
      BY <1>1, <1>3, <1>4 DEF resume
<1>6. /\ object' \in [Object -> Task] /\ object'[currentTask].running
      /\ \A t \in Object : object'[t].pid = object[t].pid
  <2>1. object' = [Interrupted EXCEPT ![currentTask].running = TRUE]
        BY <1>3 DEF resume
  <2>2. \A t \in Object : /\ Interrupted[t] \in Task /\ Interrupted[t].pid = object[t].pid
                          /\ [Interrupted[t] EXCEPT !.running = TRUE] \in Task
        BY <1>4 DEF Task
  <2>3. DOMAIN Interrupted = Object
        BY <1>4
  <2>4. \A t \in Object : object'[t] = IF t = currentTask
                                        THEN [Interrupted[t] EXCEPT !.running = TRUE]
                                        ELSE Interrupted[t]
        BY <2>1, <2>3, <1>1
  <2>5. DOMAIN object' = Object /\ object' = [t \in DOMAIN object' |-> object'[t]]
        BY <2>1, <2>3
  <2>6. object' \in [Object -> Task]
        BY <2>2, <2>4, <2>5
  <2>   QED BY <2>2, <2>4, <2>6, <1>1 DEF Task
<1>7. /\ object[currentTask].pid \in Issued /\ Issued \subseteq Pid
      /\ Positions' = Positions /\ Issued' = Issued
      /\ PidAt(1) = object[currentTask].pid /\ PidAt(1)' = PidAt(1)
  <2>1. PidAt(1) = object[currentTask].pid /\ PidAt(1)' = PidAt(1)
        BY <1>1, <1>3, <1>6 DEF PidAt
  <2>2. PidAt(1) \in Issued
        BY <1>1 DEF IInv, ListInv
  <2>   QED BY <2>1, <2>2, <1>3, IssuedPids DEF IInv, Positions, Issued
<1>8. ahead' = {}
  <2>1. ListedPids = {object[currentTask].pid}
        BY <1>1, <1>7, ListFacts DEF IInv
  <2>   QED BY <2>1, <1>1, <1>3 DEF Turn
<1>9. TypeOK'
  <2>1. flow' \in Boot .. MaxPid /\ cr3' \in Boot .. MaxPid
    <3>1. object[currentTask].pid \in Boot .. MaxPid /\ Boot \in Boot .. MaxPid
          BY <1>1 DEF Task, IInv, TypeOK
    <3>   QED BY <1>5, <3>1
  <2>   QED BY <2>1, <1>3, <1>5, <1>6, <1>8 DEF IInv, TypeOK
<1>10. ListInv' /\ WaitInv' /\ AheadInv'
      BY <1>1, <1>3, <1>5, <1>7, <1>8 DEF IInv, ListInv, WaitInv, AheadInv
<1>11. OwnAddressSpace'
      BY <1>5 DEF OwnAddressSpace
<1>12. CASE boot = "jump"
  <2>1. Entering'
        BY <1>1, <1>3, <1>5, <1>6, <1>8, <1>12 DEF Entering
  <2>   QED BY <2>1, <1>1, <1>5, <1>9, <1>10, <1>11, <1>12 DEF IInv, CurrentInv
<1>13. CASE boot = "start"
  <2>1. Running'
        BY <1>1, <1>3, <1>5, <1>6, <1>7, <1>13 DEF Running
  <2>   QED BY <2>1, <1>9, <1>10, <1>11 DEF IInv, CurrentInv
<1>   QED BY <1>1, <1>12, <1>13

\* Switching keeps the invariant: it moves on in the list and changes nothing else of it.
LEMMA SwitchInv ==
    ASSUME IInv, switchTask
    PROVE  IInv'
<1>1. CASE currentTask = NoTask
  <2>1. UNCHANGED vars
        BY <1>1 DEF switchTask
  <2>2. /\ allocated' \subseteq Object /\ halted' \in BOOLEAN
        /\ cr3' \in Boot .. MaxPid
        BY <2>1 DEF vars, IInv, TypeOK
  <2>   QED BY <2>1, <2>2, QuietInv DEF vars
<1>2. CASE Running
  <2>1. /\ NextTask \in Object
        /\ currentTask' = NextTask /\ flow' = object[NextTask].pid /\ cr3' = flow'
        /\ object' \in [Object -> Task] /\ object'[NextTask].running
        /\ \A t \in Object :
              /\ object'[t].pid = object[t].pid
              /\ t # NextTask => object'[t].running = object[t].running
              /\ t # currentTask => object'[t].esp = object[t].esp
        /\ object'[currentTask].esp = flow
        /\ UNCHANGED <<tasklist, allocated, task_last_id, boot, halted>>
        BY <1>2, SwitchFacts
  <2>2. /\ currentTask \in Object /\ boot \notin {"load", "enter"}
        /\ object[currentTask].running /\ flow = object[currentTask].pid
        /\ flow \in Issued
        /\ \A i \in Positions : PidAt(i) = flow => tasklist[i] = currentTask
        BY <1>2 DEF Running
  <2>3. \A i \in Positions : tasklist[i] \in Object /\ PidAt(i)' = PidAt(i)
        BY <2>1, ListFacts DEF IInv, PidAt
  <2>4. AheadInv'
        BY <1>2, SwitchAhead
  <2>5. Positions' = Positions /\ Issued' = Issued /\ Issued \subseteq Pid
        BY <2>1, IssuedPids DEF Positions, Issued, IInv
  <2>6. ListInv'
        BY <2>1, <2>3, <2>5 DEF IInv, ListInv
  <2>7. object[NextTask].pid \in Issued
        /\ \A i \in Positions : PidAt(i) = object[NextTask].pid => tasklist[i] = NextTask
    <3>1. CASE tasklist = <<>>
          BY <3>1, <2>2 DEF NextTask, Positions
    <3>2. CASE tasklist # <<>>
          BY <3>2, NextPosition DEF IInv, ListInv, PidAt
    <3>   QED BY <3>1, <3>2
  <2>8. CurrentInv'
        BY <2>1, <2>2, <2>3, <2>5, <2>7 DEF CurrentInv, Running
  <2>9. WaitInv'
    <3>   SUFFICES ASSUME NEW i \in Positions, tasklist[i] # NextTask,
                          object'[tasklist[i]].running
                   PROVE  object'[tasklist[i]].esp = PidAt(i)
          BY <2>1, <2>3, <2>5 DEF WaitInv
    <3>1. CASE tasklist[i] = currentTask
          BY <3>1, <2>1, <2>2 DEF PidAt
    <3>2. CASE tasklist[i] # currentTask
      <4>1. object[tasklist[i]].running /\ object'[tasklist[i]].esp = object[tasklist[i]].esp
            BY <3>2, <2>1, <2>3
      <4>   QED BY <3>2, <4>1 DEF IInv, WaitInv
    <3>   QED BY <3>1, <3>2
  <2>10. OwnAddressSpace'
        BY <2>1 DEF OwnAddressSpace
  <2>11. flow' \in Pid /\ ahead' \subseteq Pid \X Pid
        BY <2>1, <2>4, <2>5, <2>7 DEF AheadInv
  <2>12. TypeOK'
        BY <2>1, <2>11 DEF IInv, TypeOK, Pid, Boot
  <2>   QED BY <2>4, <2>6, <2>8, <2>9, <2>10, <2>12 DEF IInv
<1>3. CASE Entering
      BY <1>3, SwitchEntering
<1>   QED BY <1>1, <1>2, <1>3 DEF IInv, CurrentInv, Idle

\* A new task joins the end of the list; whether it is entered at once is left
\* to the two steps that create one.
LEMMA CreatedFacts ==
    ASSUME IInv, NEW t \in Object, Created(t)
    PROVE  /\ t \notin allocated /\ \A i \in Positions : tasklist[i] # t
           /\ tasklist' \in Seq(Object)
           /\ Positions' = 1 .. Len(tasklist) + 1 /\ Len(tasklist) \in Nat
           /\ tasklist'[Len(tasklist) + 1] = t
           /\ \A i \in Positions : /\ i \in Positions' /\ tasklist'[i] = tasklist[i]
                                   /\ tasklist[i] \in Object /\ tasklist[i] \in allocated'
           /\ \A i \in Positions' : i \in Positions \/ i = Len(tasklist) + 1
           /\ t \in allocated' /\ allocated' \subseteq Object
           /\ task_last_id \in Pid /\ task_last_id' \in 1 .. MaxPid + 1
           /\ Issued \subseteq Issued' /\ task_last_id \in Issued'
           /\ \A i \in Positions : PidAt(i) # task_last_id
           /\ NewTask \in Task
<1>1. /\ t \in Object \ allocated /\ task_last_id <= MaxPid
      /\ allocated' = allocated \cup {t}
      /\ tasklist' = Append(tasklist, t)
      /\ task_last_id' = task_last_id + 1
      BY DEF Created
<1>2. tasklist \in Seq(Object) /\ Len(tasklist) \in Nat
      BY LenProperties DEF IInv, TypeOK
<1>3. /\ tasklist' \in Seq(Object) /\ Len(tasklist') = Len(tasklist) + 1
      /\ \A i \in 1 .. Len(tasklist) : tasklist'[i] = tasklist[i]
      /\ tasklist'[Len(tasklist) + 1] = t
      BY <1>1, <1>2, AppendProperties
<1>4. /\ \A i \in Positions : tasklist[i] \in Object /\ tasklist[i] \in allocated
      /\ \A i \in Positions : tasklist[i] # t
      BY <1>1, ListFacts DEF IInv, ListInv
<1>5. /\ task_last_id \in Pid /\ task_last_id' \in 1 .. MaxPid + 1
      /\ Issued \subseteq Issued' /\ task_last_id \in Issued'
      BY <1>1, IssuedPids, TaskAssumption DEF IInv, Issued, Pid
<1>6. \A i \in Positions : PidAt(i) # task_last_id
      BY IssuedPids DEF IInv, ListInv
<1>7. NewTask \in Task
      BY <1>5, TaskAssumption DEF NewTask, Task, Pid, Boot
<1>8. Positions' = 1 .. Len(tasklist) + 1
      BY <1>3 DEF Positions
<1>9. \A i \in Positions' : i \in Positions \/ i = Len(tasklist) + 1
      BY <1>2, <1>8 DEF Positions
<1>10. \A i \in Positions : i \in Positions'
      BY <1>2, <1>8 DEF Positions
<1>11. allocated \subseteq Object
      BY DEF IInv, TypeOK
<1>   QED BY <1>1, <1>2, <1>3, <1>4, <1>5, <1>6, <1>7, <1>8, <1>9, <1>10, <1>11 DEF Positions

\* Creating a task keeps it: the new one is last in the list, with a fresh pid.
LEMMA CreateInv ==
    ASSUME IInv, flow \in ListedPids, NEW t \in Object, Created(t),
           object' = [object EXCEPT ![t] = NewTask], cr3' = cr3,
           UNCHANGED <<currentTask, flow, ahead, boot, halted>>
    PROVE  IInv'
<1>0. PICK new : new = Len(tasklist) + 1
      OBVIOUS
<1>1. /\ Running
      /\ currentTask \in Object /\ currentTask # NoTask /\ currentTask \in allocated
      /\ \E k \in Positions : tasklist[k] = currentTask
      BY CallerListed
<1>2. /\ t \notin allocated /\ \A i \in Positions : tasklist[i] # t
      /\ tasklist' \in Seq(Object) /\ new \in Positions'
      /\ tasklist'[new] = t
      /\ \A i \in Positions : /\ i \in Positions' /\ tasklist'[i] = tasklist[i]
                              /\ tasklist[i] \in Object /\ tasklist[i] \in allocated'
      /\ \A i \in Positions' : i \in Positions \/ i = new
      /\ t \in allocated' /\ allocated' \subseteq Object
      /\ task_last_id' \in 1 .. MaxPid + 1
      /\ Issued \subseteq Issued' /\ task_last_id \in Issued'
      /\ \A i \in Positions : PidAt(i) # task_last_id
      /\ NewTask \in Task
      BY <1>0, CreatedFacts
<1>3. object \in [Object -> Task]
      BY DEF IInv, TypeOK
<1>4. /\ object' \in [Object -> Task] /\ object'[t] = NewTask
      /\ \A o \in Object : o # t => object'[o] = object[o]
      BY <1>2, <1>3
<1>5. /\ \A i \in Positions : PidAt(i)' = PidAt(i)
      /\ PidAt(new)' = task_last_id /\ ~object'[t].running
      BY <1>2, <1>4 DEF PidAt, NewTask
<1>6. TypeOK'
      BY <1>2, <1>4 DEF IInv, TypeOK
<1>7. ListInv'
      BY <1>2, <1>5 DEF IInv, ListInv
<1>8. CurrentInv'
  <2>1. /\ currentTask # t /\ object'[currentTask] = object[currentTask]
        BY <1>1, <1>2, <1>4
  <2>2. /\ boot \notin {"load", "enter"} /\ object[currentTask].running
        /\ flow = object[currentTask].pid /\ flow \in Issued
        /\ \A i \in Positions : PidAt(i) = flow => tasklist[i] = currentTask
        BY <1>1 DEF Running
  <2>3. flow # task_last_id
        BY <2>2, IssuedPids DEF IInv
  <2>   QED BY <1>1, <1>2, <1>5, <2>1, <2>2, <2>3 DEF CurrentInv, Running
<1>9. WaitInv'
  <2>   SUFFICES ASSUME NEW i \in Positions', tasklist'[i] # currentTask,
                        object'[tasklist'[i]].running
                 PROVE  object'[tasklist'[i]].esp = PidAt(i)'
        BY DEF WaitInv
  <2>1. i \in Positions /\ tasklist'[i] = tasklist[i] /\ object'[tasklist[i]] = object[tasklist[i]]
        BY <1>2, <1>4, <1>5
  <2>   QED BY <2>1, <1>5 DEF IInv, WaitInv
<1>10. OwnAddressSpace'
      BY DEF IInv, OwnAddressSpace
<1>11. AheadInv'
  <2>1. \A pair \in ahead : pair[1] # task_last_id /\ pair[2] # task_last_id
        BY IssuedPids DEF IInv, AheadInv
  <2>2. ASSUME NEW i \in Positions', NEW j \in Positions', NEW k \in Positions',
               tasklist'[k] = currentTask, <<PidAt(i)', PidAt(j)'>> \in ahead
        PROVE  Passed(i, j, k)
    <3>1. i \in Positions /\ j \in Positions
          BY <1>2, <1>5, <2>1, <2>2
    <3>2. k \in Positions
          BY <1>1, <1>2, <2>2
    <3>   QED BY <3>1, <3>2, <1>2, <1>5, <2>2 DEF IInv, AheadInv
  <2>3. \E k \in Positions' : tasklist'[k] = currentTask
        BY <1>1, <1>2
  <2>4. ahead' \subseteq Issued' \X Issued'
        BY <1>2 DEF IInv, AheadInv
  <2>   QED BY <2>2, <2>3, <2>4 DEF AheadInv, Passed
<1>   QED BY <1>6, <1>7, <1>8, <1>9, <1>10, <1>11 DEF IInv

\* A program that cannot be loaded leaves the list alone.
LEMMA RefusedInv ==
    ASSUME IInv, Refused, halted' = halted,
           boot' = boot \/ (boot = "load" /\ boot' = "done")
    PROVE  IInv'
<1>1. allocated \subseteq allocated' /\ allocated' \subseteq Object
      BY DEF Refused, IInv, TypeOK
<1>2. UNCHANGED <<tasklist, currentTask, object, task_last_id, cr3, flow, ahead>>
      BY DEF Refused
<1>3. halted' \in BOOLEAN /\ cr3' \in Boot .. MaxPid
      BY <1>2 DEF IInv, TypeOK
<1>   QED BY <1>1, <1>2, <1>3, QuietInv

\* The first task is created while nothing runs.
LEMMA LoadInv ==
    ASSUME IInv, kernel_main_load
    PROVE  IInv'
<1>1. /\ boot = "load" /\ halted' = halted
      /\ tasklist = <<>> /\ currentTask = NoTask /\ flow = Boot /\ ahead = {}
      BY DEF kernel_main_load, IInv, CurrentInv, Idle, Entering, Running
<1>2. CASE Refused /\ boot' = "done"
      BY <1>1, <1>2, RefusedInv
<1>3. ASSUME NEW t \in Object, Created(t), object' = [object EXCEPT ![t] = NewTask],
             boot' = "enter", UNCHANGED <<currentTask, cr3, flow, ahead>>
      PROVE  IInv'
  <2>1. Positions = {} /\ Len(tasklist) = 0
        BY <1>1 DEF Positions
  <2>2. /\ tasklist' \in Seq(Object) /\ Positions' = {1} /\ tasklist'[1] = t
        /\ t \in allocated' /\ allocated' \subseteq Object
        /\ task_last_id \in Pid /\ task_last_id' \in 1 .. MaxPid + 1
        /\ task_last_id \in Issued' /\ Issued \subseteq Issued'
        /\ NewTask \in Task
        BY <1>3, <2>1, CreatedFacts
  <2>3. /\ object' \in [Object -> Task] /\ object'[t].pid = task_last_id
        /\ ~object'[t].running
        BY <1>3, <2>2 DEF NewTask, IInv, TypeOK
  <2>4. TypeOK'
        BY <1>1, <1>3, <2>2, <2>3 DEF IInv, TypeOK, Stages
  <2>5. PidAt(1)' = task_last_id
        BY <2>2, <2>3 DEF PidAt
  <2>6. ListInv' /\ WaitInv'
        BY <2>2, <2>3, <2>5 DEF ListInv, WaitInv
  <2>7. Len(tasklist') = 1
        BY <1>1, <1>3, AppendProperties DEF Created
  <2>8. CurrentInv'
        BY <1>1, <1>3, <2>2, <2>3, <2>7 DEF CurrentInv, Idle
  <2>9. AheadInv' /\ OwnAddressSpace'
        BY <1>1, <1>3 DEF AheadInv, OwnAddressSpace
  <2>   QED BY <2>4, <2>6, <2>8, <2>9 DEF IInv
<1>   QED BY <1>2, <1>3 DEF kernel_main_load

\* The three steps that enter the first task.
LEMMA EnterInv ==
    ASSUME IInv, kernel_main_enter \/ kernel_main_start \/ kernel_main_jump
    PROVE  IInv'
<1>1. CASE kernel_main_enter
  <2>1. /\ flow = Boot /\ ahead = {} /\ Positions = {1} /\ Len(tasklist) = 1
        /\ ~object[tasklist[1]].running
    <3>1. Idle /\ boot = "enter"
          BY <1>1 DEF kernel_main_enter, IInv, CurrentInv, Entering, Running
    <3>   QED BY <3>1, OneTask DEF Idle
  <2>2. /\ tasklist[1] \in Object /\ PidAt(1) \in Boot .. MaxPid
        BY <2>1, ListFacts DEF IInv
  <2>3. /\ cr3' = PidAt(1) /\ currentTask' = tasklist[1] /\ boot' = "start"
        /\ UNCHANGED <<tasklist, object, allocated, task_last_id, flow, halted, ahead>>
        BY <1>1 DEF kernel_main_enter, PidAt
  <2>4. TypeOK'
        BY <2>2, <2>3 DEF IInv, TypeOK, Stages
  <2>5. ListInv' /\ WaitInv'
        BY <2>1, <2>3 DEF IInv, ListInv, WaitInv, Positions, PidAt, Issued
  <2>6. Entering'
        BY <2>1, <2>2, <2>3 DEF Entering, PidAt
  <2>7. AheadInv' /\ OwnAddressSpace'
        BY <2>1, <2>3 DEF AheadInv, OwnAddressSpace
  <2>   QED BY <2>4, <2>5, <2>6, <2>7 DEF IInv, CurrentInv
<1>2. CASE kernel_main_start
  <2>1. /\ boot = "start" /\ flow = Boot /\ ahead = {} /\ Positions = {1}
        /\ currentTask \in Object /\ tasklist[1] = currentTask /\ Len(tasklist) = 1
        /\ halted \/ cr3 = object[currentTask].pid
        /\ object \in [Object -> Task]
    <3>1. Entering /\ boot = "start" /\ object \in [Object -> Task]
          BY <1>2, IssuedPids DEF kernel_main_start, IInv, CurrentInv, Idle, Running, TypeOK
    <3>   QED BY <3>1, OneTask DEF Entering
  <2>2. /\ object' = [object EXCEPT ![currentTask].running = TRUE] /\ boot' = "jump"
        /\ UNCHANGED <<tasklist, currentTask, allocated, task_last_id, cr3, flow, halted,
                       ahead>>
        BY <1>2 DEF kernel_main_start
  <2>3. /\ object' \in [Object -> Task] /\ object'[currentTask].running
        /\ object'[currentTask].pid = object[currentTask].pid
        BY <2>1, <2>2 DEF Task
  <2>4. TypeOK'
        BY <2>2, <2>3 DEF IInv, TypeOK, Stages
  <2>5. PidAt(1)' = PidAt(1)
        BY <2>1, <2>2, <2>3 DEF PidAt
  <2>6. ListInv' /\ WaitInv'
    <3>1. Positions' = {1} /\ Issued' = Issued /\ tasklist'[1] = currentTask'
          BY <2>1, <2>2 DEF Positions, Issued
    <3>2. tasklist[1] \in allocated /\ PidAt(1) \in Issued
          BY <2>1 DEF IInv, ListInv
    <3>   QED BY <2>2, <2>5, <3>1, <3>2 DEF ListInv, WaitInv
  <2>7. Entering'
        BY <2>1, <2>2, <2>3 DEF Entering
  <2>8. AheadInv' /\ OwnAddressSpace'
        BY <2>1, <2>2 DEF AheadInv, OwnAddressSpace
  <2>   QED BY <2>4, <2>6, <2>7, <2>8 DEF IInv, CurrentInv
<1>3. CASE kernel_main_jump
  <2>1. /\ ahead = {} /\ Positions = {1} /\ object[currentTask].running
        /\ currentTask \in Object /\ tasklist[1] = currentTask
        /\ halted \/ cr3 = object[currentTask].pid
    <3>1. Entering /\ boot = "jump"
          BY <1>3, IssuedPids DEF kernel_main_jump, IInv, CurrentInv, Idle, Running
    <3>   QED BY <3>1, OneTask DEF Entering
  <2>2. /\ flow' = PidAt(1) /\ boot' = "done"
        /\ UNCHANGED <<tasklist, currentTask, object, allocated, task_last_id, cr3,
                       halted, ahead>>
        BY <1>3, <2>1 DEF kernel_main_jump, PidAt
  <2>3. PidAt(1) \in Issued /\ PidAt(1) \in Boot .. MaxPid
        BY <2>1, ListFacts DEF IInv, ListInv
  <2>4. TypeOK'
        BY <2>2, <2>3 DEF IInv, TypeOK, Stages
  <2>5. ListInv' /\ WaitInv' /\ AheadInv'
        BY <2>1, <2>2 DEF IInv, ListInv, WaitInv, AheadInv, Positions, PidAt, Issued
  <2>6. Running'
        BY <2>1, <2>2, <2>3 DEF Running, Positions, PidAt, Issued
  <2>7. OwnAddressSpace'
        BY <2>1, <2>2 DEF OwnAddressSpace, PidAt
  <2>   QED BY <2>4, <2>5, <2>6, <2>7 DEF IInv, CurrentInv
<1>   QED BY <1>1, <1>2, <1>3

\* exit takes the calling task from the list.
LEMMA ExitInv ==
    ASSUME IInv, exit
    PROVE  IInv'
<1>1. /\ flow \in ListedPids
      /\ tasklist' = Unlisted /\ allocated' = allocated \ {currentTask} /\ ahead' = {}
      /\ UNCHANGED <<currentTask, object, task_last_id, cr3, flow, boot, halted>>
      BY DEF exit, Calling
<1>2. /\ Running /\ currentTask \in Object /\ currentTask # NoTask
      /\ \E k \in Positions : tasklist[k] = currentTask
      BY <1>1, CallerListed
<1>3. PICK k \in Positions : tasklist[k] = currentTask
      BY <1>2
<1>4. /\ tasklist \in Seq(Object) /\ Len(tasklist) \in Nat /\ DOMAIN tasklist = Positions
      /\ \A i \in Positions : tasklist[i] \in Object
      /\ \A i, j \in Positions : tasklist[i] = tasklist[j] => i = j
      BY ListFacts DEF IInv, TypeOK, ListInv, PidAt
<1>5. Unlisted = RemoveAt(tasklist, k)
  <2>   DEFINE Chosen(i) == /\ i \in DOMAIN tasklist /\ tasklist[i] = currentTask
                            /\ \A j \in 1 .. i - 1 : tasklist[j] # currentTask
  <2>1. \A j \in 1 .. k - 1 : j \in Positions /\ j # k
        BY <1>4 DEF Positions
  <2>2. Chosen(k)
        BY <1>3, <1>4, <2>1
  <2>3. \A i : Chosen(i) => i = k
        BY <1>3, <1>4
  <2>4. Chosen(CHOOSE i : Chosen(i))
        BY <2>2, Zenon
  <2>5. Unlisted = RemoveAt(tasklist, CHOOSE i : Chosen(i))
        BY DEF Unlisted
  <2>   HIDE DEF Chosen
  <2>   QED BY <2>3, <2>4, <2>5
<1>6. /\ tasklist' \in Seq(Object) /\ Len(tasklist') = Len(tasklist) - 1
      /\ \A i \in 1 .. Len(tasklist) - 1 :
            tasklist'[i] = IF i < k THEN tasklist[i] ELSE tasklist[i + 1]
      BY <1>1, <1>3, <1>4, <1>5, RemoveAtProperties DEF Positions
<1>7. ASSUME NEW i \in Positions'
      PROVE  \E m \in Positions : /\ m # k /\ m = IF i < k THEN i ELSE i + 1
                                  /\ tasklist'[i] = tasklist[m]
  <2>1. i \in 1 .. Len(tasklist) - 1
        BY <1>6 DEF Positions
  <2>2. CASE i < k
        BY <2>1, <2>2, <1>4, <1>6 DEF Positions
  <2>3. CASE i >= k
    <3>1. i + 1 \in Positions /\ i + 1 # k /\ ~(i < k)
          BY <2>1, <2>3, <1>4 DEF Positions
    <3>   QED BY <2>1, <3>1, <1>6
  <2>4. i < k \/ i >= k
        BY <2>1, <1>4 DEF Positions
  <2>   QED BY <2>2, <2>3, <2>4
<1>8. \A i \in Positions' : tasklist'[i] # currentTask
      BY <1>3, <1>4, <1>7
<1>9. TypeOK'
      BY <1>1, <1>6 DEF IInv, TypeOK
<1>10. ListInv'
  <2>1. ASSUME NEW i \in Positions'
        PROVE  tasklist'[i] \in allocated' /\ PidAt(i)' \in Issued'
        BY <1>1, <1>7, <1>8 DEF IInv, ListInv, PidAt, Issued
  <2>2. ASSUME NEW i \in Positions', NEW j \in Positions', PidAt(i)' = PidAt(j)'
        PROVE  i = j
    <3>1. PICK m \in Positions : m = (IF i < k THEN i ELSE i + 1) /\ tasklist'[i] = tasklist[m]
          BY <1>7
    <3>2. PICK l \in Positions : l = (IF j < k THEN j ELSE j + 1) /\ tasklist'[j] = tasklist[l]
          BY <1>7
    <3>3. PidAt(m) = PidAt(l)
          BY <1>1, <2>2, <3>1, <3>2 DEF PidAt
    <3>4. m = l
          BY <3>3 DEF IInv, ListInv
    <3>   QED BY <3>1, <3>2, <3>4, <1>4, <1>6 DEF Positions
  <2>   QED BY <2>1, <2>2 DEF ListInv
<1>11. CurrentInv'
  <2>1. /\ boot \notin {"load", "enter"} /\ object[currentTask].running
        /\ flow = object[currentTask].pid /\ flow \in Issued
        BY <1>2 DEF Running
  <2>2. \A i \in Positions' : PidAt(i)' # flow
    <3>   SUFFICES ASSUME NEW i \in Positions', PidAt(i)' = flow PROVE FALSE
          OBVIOUS
    <3>1. PICK m \in Positions : m # k /\ tasklist'[i] = tasklist[m]
          BY <1>7
    <3>2. PidAt(m) = PidAt(k)
          BY <1>1, <1>3, <2>1, <3>1 DEF PidAt
    <3>   QED BY <3>1, <3>2 DEF IInv, ListInv
  <2>   QED BY <1>1, <1>2, <2>1, <2>2 DEF CurrentInv, Running, Issued
<1>12. WaitInv'
      BY <1>1, <1>7 DEF IInv, WaitInv, PidAt
<1>13. AheadInv' /\ OwnAddressSpace'
      BY <1>1 DEF IInv, AheadInv, OwnAddressSpace
<1>   QED BY <1>9, <1>10, <1>11, <1>12, <1>13 DEF IInv

\* Every step keeps the invariant.
LEMMA NextInv == IInv /\ [Next]_vars => IInv'
<1>   SUFFICES ASSUME IInv, [Next]_vars PROVE IInv'
      OBVIOUS
<1>0. /\ allocated \subseteq Object /\ halted \in BOOLEAN
      /\ cr3 \in Boot .. MaxPid /\ Boot \in Boot .. MaxPid
      BY TaskAssumption DEF IInv, TypeOK, Boot
<1>1. CASE kernel_main_load
      BY <1>1, LoadInv
<1>8. CASE kernel_main_enter \/ kernel_main_start \/ kernel_main_jump
      BY <1>8, EnterInv
<1>2. CASE irq_handler
      BY <1>2, SwitchInv DEF irq_handler
<1>3. CASE isr_handler
  <2>1. CASE switchTask
        BY <2>1, SwitchInv
  <2>2. CASE /\ halted' = TRUE
             /\ UNCHANGED <<tasklist, currentTask, object, allocated, task_last_id, cr3,
                            flow, boot, ahead>>
        BY <1>0, <2>2, QuietInv
  <2>   QED BY <1>3, <2>1, <2>2 DEF isr_handler
<1>4. CASE process_create
  <2>1. flow \in ListedPids /\ boot' = boot /\ halted' = halted
        BY <1>4 DEF process_create, Calling
  <2>2. CASE Refused
        BY <1>0, <2>1, <2>2, RefusedInv
  <2>3. ASSUME NEW t \in Object, Created(t), object' = [object EXCEPT ![t] = NewTask],
               cr3' = cr3, UNCHANGED <<currentTask, flow, ahead>>
        PROVE  IInv'
        BY <2>1, <2>3, CreateInv
  <2>   QED BY <1>4, <2>2, <2>3 DEF process_create, Restored
<1>5. CASE process_create_inKernelSpace
  <2>1. /\ allocated \subseteq allocated' /\ allocated' \subseteq Object
        /\ cr3' = Boot /\ halted' = TRUE
        /\ UNCHANGED <<tasklist, currentTask, object, task_last_id, flow, boot, ahead>>
        BY <1>0, <1>5 DEF process_create_inKernelSpace
  <2>   QED BY <1>0, <2>1, QuietInv
<1>6. CASE exit
      BY <1>6, ExitInv
<1>7. CASE UNCHANGED vars
      BY <1>0, <1>7, QuietInv DEF vars
<1>   QED BY <1>1, <1>2, <1>3, <1>4, <1>5, <1>6, <1>7, <1>8 DEF Next

\* The inductive invariant holds in every state.
THEOREM TasksInvariant == Spec => []IInv
BY InitInv, NextInv, PTL DEF Spec

-------------------------------------------------------------------------------
(* What the invariant says of the scheduler. *)

\* The scheduler's variables keep their types.
THEOREM TasksTyped == Spec => []TypeOK
<1>1. IInv => TypeOK
      BY DEF IInv
<1>   QED BY <1>1, TasksInvariant, PTL

\* The processor runs the current task, and every other task that has started
\* waits with its own frame.
THEOREM ContextsSeparate == Spec => []OwnContext
<1>1. IInv => OwnContext
  <2>   SUFFICES ASSUME IInv PROVE OwnContext
        OBVIOUS
  <2>1. currentTask # NoTask /\ ~Starting => flow = object[currentTask].pid
        BY DEF IInv, CurrentInv, Idle, Entering, Running, Starting
  <2>2. ASSUME NEW t \in Listed \ {currentTask}, object[t].running
        PROVE  object[t].esp = object[t].pid
    <3>1. PICK i \in Positions : t = tasklist[i]
          BY ListFacts DEF IInv
    <3>   QED BY <2>2, <3>1 DEF IInv, WaitInv, PidAt
  <2>   QED BY <2>1, <2>2 DEF OwnContext
<1>   QED BY <1>1, TasksInvariant, PTL

\* A program runs in its own address space.
THEOREM AddressSpaces == Spec => []OwnAddressSpace
<1>1. IInv => OwnAddressSpace
      BY DEF IInv
<1>   QED BY <1>1, TasksInvariant, PTL

\* Listed tasks are live objects with pids of their own.
THEOREM ListedTasks == Spec => []ListedAlive
<1>1. IInv => ListedAlive
  <2>   SUFFICES ASSUME IInv PROVE ListedAlive
        OBVIOUS
  <2>1. Listed = {tasklist[i] : i \in Positions} /\ DOMAIN tasklist = Positions
        BY ListFacts DEF IInv
  <2>   QED BY <2>1 DEF IInv, ListInv, PidAt, ListedAlive
<1>   QED BY <1>1, TasksInvariant, PTL

\* Whom a switch can reach.
LEMMA StepResumes ==
    ASSUME IInv, Next
    PROVE  flow' # flow => /\ currentTask' \in allocated'
                           /\ flow' = object'[currentTask'].pid
<1>1. CASE kernel_main_jump
  <2>1. /\ currentTask' = currentTask /\ object' = object /\ allocated' = allocated
        /\ flow' = object[currentTask].pid
        BY <1>1 DEF kernel_main_jump
  <2>2. 1 \in Positions /\ tasklist[1] = currentTask
    <3>1. Entering
          BY <1>1, IssuedPids DEF kernel_main_jump, IInv, CurrentInv, Idle, Running
    <3>   QED BY <3>1, OneTask DEF Entering
  <2>   QED BY <2>1, <2>2 DEF IInv, ListInv
<1>2. CASE switchTask
  <2>1. CASE currentTask = NoTask
        BY <1>2, <2>1 DEF switchTask, vars
  <2>3. CASE Entering
    <3>1. flow' = flow \/ Running'
          BY <1>2, <2>3, SwitchEntering
    <3>2. /\ currentTask' = currentTask /\ allocated' = allocated
          /\ currentTask \in allocated
          BY <1>2, <2>3, EnteringNext DEF switchTask, resume
    <3>   QED BY <3>1, <3>2 DEF Running
  <2>2. CASE Running
    <3>1. /\ NextTask \in Object /\ currentTask' = NextTask /\ allocated' = allocated
          /\ flow' = object[NextTask].pid /\ object'[NextTask].pid = object[NextTask].pid
          /\ NextTask = currentTask \/ tasklist # <<>>
          BY <1>2, <2>2, SwitchFacts
    <3>2. CASE NextTask = currentTask
          BY <2>2, <3>1, <3>2 DEF Running
    <3>3. CASE tasklist # <<>>
          BY <3>1, <3>3, NextPosition DEF IInv, ListInv
    <3>   QED BY <3>1, <3>2, <3>3
  <2>   QED BY <2>1, <2>2, <2>3 DEF IInv, CurrentInv, Idle
<1>3. CASE UNCHANGED flow
      BY <1>3
<1>   QED BY <1>1, <1>2, <1>3
         DEF Next, irq_handler, isr_handler, kernel_main_load, kernel_main_enter,
             kernel_main_start, process_create, Refused, process_create_inKernelSpace,
             exit

\* No switch reaches a task that has exited.
THEOREM NeverResumed == Spec => ExitedNeverResumed
<1>1. IInv /\ [Next]_vars => [flow' # flow => /\ currentTask' \in allocated'
                                              /\ flow' = object'[currentTask'].pid]_vars
      BY StepResumes DEF vars
<1>   QED BY <1>1, TasksInvariant, PTL DEF Spec, ExitedNeverResumed

\* A switch goes to a task that has had no turn since any other listed one.
LEMMA StepInTurn ==
    ASSUME IInv, Next, currentTask' # currentTask, NEW p \in ListedPids
    PROVE  <<p, flow'>> \notin ahead \/ p = flow'
<1>1. CASE kernel_main_enter
      BY <1>1 DEF kernel_main_enter, IInv, CurrentInv, Idle, Entering, Running
<1>2. CASE switchTask
  <2>1. currentTask # NoTask
        BY <1>2 DEF switchTask, vars
  <2>2. CASE Entering
        BY <2>2, EnteringNext, <2>1, <1>2 DEF switchTask, resume
  <2>3. CASE Running
    <3>1. currentTask' = NextTask /\ flow' = object[NextTask].pid /\ tasklist # <<>>
          BY <1>2, <2>3, SwitchFacts
    <3>2. PICK n \in Positions :
             /\ NextTask = tasklist[n]
             /\ \A k \in Positions : tasklist[k] = currentTask =>
                   n = IF k = Len(tasklist) THEN 1 ELSE k + 1
          BY <3>1, NextPosition
    <3>3. PICK i \in Positions : p = PidAt(i)
          BY ListFacts DEF IInv
    <3>   SUFFICES ASSUME <<p, flow'>> \in ahead, i # n PROVE FALSE
          BY <3>1, <3>2, <3>3 DEF PidAt
    <3>4. flow' = PidAt(n) /\ Len(tasklist) \in Nat
          BY <3>1, <3>2, ListFacts DEF IInv, PidAt
    <3>5. PICK k \in Positions : tasklist[k] = currentTask
          BY DEF IInv, AheadInv
    <3>6. Passed(i, n, k)
          BY <3>3, <3>4, <3>5 DEF IInv, AheadInv
    <3>7. n = IF k = Len(tasklist) THEN 1 ELSE k + 1
          BY <3>2, <3>5
    <3>   QED BY <3>4, <3>6, <3>7 DEF Passed, Positions
  <2>   QED BY <2>1, <2>2, <2>3 DEF IInv, CurrentInv, Idle
<1>3. CASE UNCHANGED currentTask
      BY <1>3
<1>   QED BY <1>1, <1>2, <1>3
         DEF Next, irq_handler, isr_handler, kernel_main_load, kernel_main_start,
             kernel_main_jump, process_create, Refused, process_create_inKernelSpace,
             exit

\* Between two exits no task gets a second turn while another waits for its
\* first.
THEOREM InTurn == Spec => NoOvertaking
<1>1. IInv /\ [Next]_vars =>
         [currentTask' # currentTask =>
             \A p \in ListedPids : <<p, flow'>> \notin ahead \/ p = flow']_vars
      BY StepInTurn DEF vars
<1>   QED BY <1>1, TasksInvariant, PTL DEF Spec, NoOvertaking
===============================================================================
