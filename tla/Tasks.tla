--------------------------------- MODULE Tasks ---------------------------------
(* Processes and the round-robin scheduler: src/src/kernel/task/task.cpp, the
   interrupt entries that call it (int/isr.cpp), the process calls of
   task/syscall.cpp, and the start of the first task in main.cpp.

   A step is a stretch of kernel code that runs with interrupts off, or the
   arrival of an interrupt.  Interrupts are off in every kernel entry, and on
   while kernel_main starts the first task (timer_sleep, which the disk driver
   calls before that, turns them on), so that start is taken apart.

   A Task is an object of the kernel heap: its address can be handed out again
   once it is deleted, and the pointers that still name it then name whatever
   lives there, so objects keep their contents when they are freed.  Processes
   are told apart by pid; an address space and a saved stack frame are named by
   the pid they belong to, Boot for kernel_main's.

   Programs are taken to do nothing after their exit call.  Not modelled: calls
   that do not touch the scheduler, and a task list that grows past its first
   10 slots. *)
EXTENDS Integers, SequencesExt

CONSTANTS
    Object,  \* the addresses a Task object can have
    NoTask,  \* the null pointer
    MaxPid   \* how many processes are created

ASSUME TaskAssumption ==
    /\ MaxPid \in Nat
    /\ NoTask \notin Object

VARIABLES
    tasklist,      \* the tasks the scheduler goes round
    currentTask,   \* the task the kernel believes is running
    object,        \* the contents of each Task object
    allocated,     \* the objects the heap has handed out and not got back
    task_last_id,  \* the pid the next task gets
    cr3,           \* the address space the processor translates with
    flow,          \* whose instructions the processor runs
    boot,          \* how far kernel_main has come
    halted,        \* the error screen: interrupts off, for ever
    ahead          \* <<p, q>>: q has had a turn since p's last one (history)

vars == <<tasklist, currentTask, object, allocated, task_last_id, cr3, flow,
          boot, halted, ahead>>

Boot == 0
Pid  == 1 .. MaxPid

\* kernel_main loads the first task, makes it current, marks it running, and
\* jumps into it or idles.
Stages == {"load", "enter", "start", "jump", "done"}

Task == [pid : Boot .. MaxPid, running : BOOLEAN, esp : Boot .. MaxPid]

Listed     == Range(tasklist)
ListedPids == {object[t].pid : t \in Listed}

TypeOK ==
    /\ tasklist \in Seq(Object)
    /\ currentTask \in Object \cup {NoTask}
    /\ object \in [Object -> Task]
    /\ allocated \subseteq Object
    /\ task_last_id \in 1 .. MaxPid + 1
    /\ cr3 \in Boot .. MaxPid /\ flow \in Boot .. MaxPid
    /\ boot \in Stages /\ halted \in BOOLEAN
    /\ ahead \subseteq Pid \X Pid

-------------------------------------------------------------------------------
(* switchTask and resume. *)

\* Variant of NextTask: the index wraps one task too early.
WrapsEarly ==
    LET after == {i \in 2 .. Len(tasklist) - 1 : tasklist[i - 1] = currentTask}
    IN  IF tasklist = <<>> THEN currentTask
        ELSE IF after = {} THEN tasklist[1]
        ELSE tasklist[CHOOSE i \in after : \A j \in after : i <= j]

\* The task after the current one.  indexOf answers the list's length for a task
\* that is not listed (its loop ends with the count in eax), which wraps to the
\* first; in an empty list slot 0 still holds the task that was removed last.
NextTask ==
    LET after == {i \in 2 .. Len(tasklist) : tasklist[i - 1] = currentTask}
    IN  IF tasklist = <<>> THEN currentTask
        ELSE IF after = {} THEN tasklist[1]
        ELSE tasklist[CHOOSE i \in after : \A j \in after : i <= j]

\* The turn passes to pid p.
Turn(p) ==
    {pair \in ahead : pair[1] # p} \cup {<<q, p>> : q \in ListedPids \ {p}}

\* objects is what the Task objects hold when resume is called.
resume(t, objects) ==
    /\ cr3' = objects[t].pid
    /\ currentTask' = t
    /\ object' = [objects EXCEPT ![t].running = TRUE]
    /\ flow' = IF objects[t].running THEN objects[t].esp ELSE objects[t].pid

\* Variant of Interrupted: the frame goes to the task that is switched to.
InterruptedNext == [object EXCEPT ![NextTask].esp = flow]

\* The interrupted program's frame, saved in the current task.
Interrupted == [object EXCEPT ![currentTask].esp = flow]

switchTask ==
    IF currentTask = NoTask
    THEN UNCHANGED vars
    ELSE /\ resume(NextTask, Interrupted)
         /\ ahead' = Turn(object[NextTask].pid)
         /\ UNCHANGED <<tasklist, allocated, task_last_id, boot, halted>>

-------------------------------------------------------------------------------
(* Task::create and Task::close. *)

\* Variant of NewTask: the counter is advanced first.
NewTaskLate == [pid |-> task_last_id + 1, running |-> FALSE, esp |-> Boot]

NewTask == [pid |-> task_last_id, running |-> FALSE, esp |-> Boot]

\* Task::create with a program that loads.
Created(t) ==
    /\ t \in Object \ allocated /\ task_last_id <= MaxPid
    /\ allocated' = allocated \cup {t}
    /\ tasklist' = Append(tasklist, t)
    /\ task_last_id' = task_last_id + 1

\* Task::create without memory for the object, or with a program that elf32_load
\* refuses before it makes an address space: the object is not given back.
Refused ==
    /\ \E lost \in SUBSET (Object \ allocated) :
          /\ \A s, t \in lost : s = t
          /\ allocated' = allocated \cup lost
    /\ UNCHANGED <<tasklist, currentTask, object, task_last_id, cr3, flow, ahead>>

Init ==
    /\ tasklist = <<>> /\ currentTask = NoTask
    /\ object = [t \in Object |-> [pid |-> Boot, running |-> FALSE, esp |-> Boot]]
    /\ allocated = {}
    /\ task_last_id = 1
    /\ cr3 = Boot /\ flow = Boot
    /\ boot = "load" /\ halted = FALSE
    /\ ahead = {}

\* The first program is loaded, or the kernel idles without one.
kernel_main_load ==
    /\ boot = "load" /\ ~halted
    /\ \/ \E t \in Object : /\ Created(t)
                            /\ object' = [object EXCEPT ![t] = NewTask]
                            /\ boot' = "enter"
                            /\ UNCHANGED <<currentTask, cr3, flow, ahead>>
       \/ Refused /\ boot' = "done"
    /\ UNCHANGED halted

\* Task::resume of the first task, statement by statement.
kernel_main_enter ==
    /\ boot = "enter" /\ ~halted
    /\ cr3' = object[tasklist[1]].pid
    /\ currentTask' = tasklist[1]
    /\ boot' = "start"
    /\ UNCHANGED <<tasklist, object, allocated, task_last_id, flow, halted, ahead>>

\* An interrupt that comes first enters the task itself, and kernel_main is not
\* returned to.
kernel_main_start ==
    /\ boot = "start" /\ flow = Boot /\ ~halted
    /\ object' = [object EXCEPT ![currentTask].running = TRUE]
    /\ boot' = "jump"
    /\ UNCHANGED <<tasklist, currentTask, allocated, task_last_id, cr3, flow, halted,
                   ahead>>

kernel_main_jump ==
    /\ boot = "jump" /\ flow = Boot /\ ~halted
    /\ flow' = object[currentTask].pid
    /\ boot' = "done"
    /\ UNCHANGED <<tasklist, currentTask, object, allocated, task_last_id, cr3, halted,
                   ahead>>

kernel_main == kernel_main_load \/ kernel_main_enter \/ kernel_main_start \/ kernel_main_jump

\* A timer, keyboard or other hardware interrupt.
irq_handler == ~halted /\ switchTask

\* A program traps.  The traps above 15 that are no system call switch tasks;
\* the others show the error screen.
isr_handler ==
    /\ ~halted /\ flow \in ListedPids
    /\ \/ switchTask
       \/ /\ halted' = TRUE
          /\ UNCHANGED <<tasklist, currentTask, object, allocated, task_last_id, cr3,
                         flow, boot, ahead>>

Calling == ~halted /\ flow \in ListedPids

\* Variant of Restored: create leaves the new task's address space in force.
RestoredNot == task_last_id

\* The address space in force when create returns.
Restored == cr3

\* process_create and process_createWithStdout.
process_create ==
    /\ Calling
    /\ \/ \E t \in Object : /\ Created(t)
                            /\ object' = [object EXCEPT ![t] = NewTask]
                            /\ cr3' = Restored
                            /\ UNCHANGED <<currentTask, flow, ahead>>
       \/ Refused
    /\ UNCHANGED <<boot, halted>>

\* A program with a section below the user's pages: elf32_load gives its address
\* space back and leaves the kernel's in force, create does not restore the
\* caller's, and the answer is then written to the caller's stack, which is not
\* mapped.
process_create_inKernelSpace ==
    /\ Calling
    /\ \E t \in Object \ allocated : allocated' = allocated \cup {t}
    /\ cr3' = Boot
    /\ halted' = TRUE
    /\ UNCHANGED <<tasklist, currentTask, object, task_last_id, flow, boot, ahead>>

\* Variant of Unlisted: the task stays in the list.
UnlistedNot == tasklist

\* The list without the current task.
Unlisted ==
    RemoveAt(tasklist, CHOOSE i \in DOMAIN tasklist :
                          /\ tasklist[i] = currentTask
                          /\ \A j \in 1 .. i - 1 : tasklist[j] # currentTask)

\* exit: the object and the address space are freed under the program, which
\* goes on in them until the next interrupt.
exit ==
    /\ Calling
    /\ tasklist' = Unlisted
    /\ allocated' = allocated \ {currentTask}
    /\ ahead' = {}
    /\ UNCHANGED <<currentTask, object, task_last_id, cr3, flow, boot, halted>>

Next ==
    \/ kernel_main_load
    \/ kernel_main_enter
    \/ kernel_main_start
    \/ kernel_main_jump
    \/ irq_handler
    \/ isr_handler
    \/ process_create
    \/ process_create_inKernelSpace
    \/ exit

\* The timer interrupts every millisecond and programs cannot be entered or
\* resumed with interrupts off, so an interrupt always comes; between two of them
\* the processor gets on with kernel_main.
Spec == Init /\ [][Next]_vars /\ WF_vars(irq_handler) /\ WF_vars(kernel_main)

-------------------------------------------------------------------------------
(* Properties *)

\* kernel_main has made the first task current and not yet entered it.
Starting == boot \in {"start", "jump"} /\ flow = Boot

\* The processor runs the program the kernel believes is current, and every
\* other task that has started waits with a frame of its own: a frame saved in
\* the wrong object, or one left from an earlier task at the same address, would
\* resume a program in another's address space.
OwnContext ==
    /\ currentTask # NoTask /\ ~Starting => flow = object[currentTask].pid
    /\ \A t \in Listed \ {currentTask} :
          object[t].running => object[t].esp = object[t].pid

\* A program runs in its own address space: switching, the loader's excursion
\* into a new one and every way back agree.
OwnAddressSpace == ~halted /\ flow # Boot => cr3 = flow

\* Every listed task is a live object, listed once, with a pid of its own: what
\* Task::get, close and indexOf take for granted.
ListedAlive ==
    /\ Listed \subseteq allocated
    /\ \A i, j \in DOMAIN tasklist :
          object[tasklist[i]].pid = object[tasklist[j]].pid => i = j

\* A switch goes to a task whose object is still allocated, so never to one that
\* has exited, although the scheduler keeps its pointer to the object and stores
\* the last frame there.
ExitedNeverResumed ==
    [][flow' # flow => /\ currentTask' \in allocated'
                       /\ flow' = object'[currentTask'].pid]_vars

\* Between two exits no task gets a second turn while another waits for its
\* first.
NoOvertaking ==
    [][currentTask' # currentTask =>
          \A p \in ListedPids : <<p, flow'>> \notin ahead \/ p = flow']_vars

\* A listed task gets its turn again unless the machine stops: exits send the
\* scheduler back to the head of the list, but each one also shortens the way.
EveryTaskRuns ==
    \A p \in Pid : p \in ListedPids ~> (flow = p \/ halted)
===============================================================================
