------------------------------- MODULE S31Task -------------------------------
(***************************************************************************)
(* The life of one task of radio_firmware/s31_rtos/s31_rtos_core.c around  *)
(* its notifications (S31Notify): xTaskCreatePinnedToCore with the failure *)
(* of every step, s31_rtos_task_entry, vTaskSuspend, the thread-local      *)
(* slots and their destructors, vTaskDelete by the task itself and by      *)
(* another one, and s31_rtos_task_release of the control block.            *)
(*                                                                         *)
(* The Linux bridge, outside the repository, is modelled by its use: it    *)
(* runs the thread, ends a stopped one where it waits, and releases the    *)
(* control block once the payload has left.  Nothing here relies on the    *)
(* blob gate (docs/S31_radio_core.md): the new thread may run before its   *)
(* creator goes on, and the release waits for nobody, so that another      *)
(* context may still be about to use the control block.                    *)
(***************************************************************************)
EXTENDS S31Notify

CONSTANTS
  Creator,    \* the notifier that creates the task
  Slots       \* the TLS slots, 0 .. 3 in the code

ASSUME TaskAssumption == /\ Creator \in Notifiers /\ Slots \subseteq Nat
                         /\ \A s \in Styles : s.slots \subseteq Slots

\* What the RTOS layer allocates for a task.
Resources == {"tcb", "notify", "suspend", "stack"}

Contexts == {Target} \cup Notifiers

VARIABLES
  life,         \* how far the task is
  job,          \* where a context is inside a function of this module
  held,         \* how often each resource is allocated
  linux_task,   \* t->linux_task is stored and the handle returned
  tls,          \* the slots with a destructor
  tls_cleaned,  \* t->tls_cleaned
  todo,         \* the slots a running loop has still to visit
  stopped,      \* s31_linux_task_stop was called
  ran           \* history: how often each destructor was called

taskVars == <<life, job, held, linux_task, tls, tls_cleaned, todo, stopped, ran>>
vars == <<style, value, state, pc, call, start, elapsed, left, sent, owed, taken, fresh,
          life, job, held, linux_task, tls, tls_cleaned, todo, stopped, ran>>

Lives == {"none", "creating", "failed",
          "created",    \* the Linux thread exists
          "running",    \* inside s31_rtos_task_entry
          "exiting",    \* back in the bridge's trampoline
          "released"}

Jobs == {"none", "contexts", "check", "stack", "thread", "publish",  \* the creation
         "dtors", "dtorWaits",     \* the destructor loop
         "stop", "suspended",
         "astray"}                 \* acts on a freed control block

TypeOK == /\ NotifyTypeOK
          /\ life \in Lives
          /\ job \in [Contexts -> Jobs]
          /\ held \in [Resources -> Int]
          /\ linux_task \in BOOLEAN /\ tls_cleaned \in BOOLEAN /\ stopped \in BOOLEAN
          /\ tls \in SUBSET Slots
          /\ todo \in [Contexts -> SUBSET Slots]
          /\ ran \in [Slots -> Nat]

Init == /\ NotifyInit
        /\ life = "none"
        /\ job = [c \in Contexts |-> "none"]
        /\ held = [r \in Resources |-> 0]
        /\ linux_task = FALSE /\ tls_cleaned = FALSE /\ stopped = FALSE
        /\ tls = {}
        /\ todo = [c \in Contexts |-> {}]
        /\ ran = [i \in Slots |-> 0]

Goto(c, where) == job' = [job EXCEPT ![c] = where]

Allocated(rs) == [r \in Resources |-> held[r] + IF r \in rs THEN 1 ELSE 0]

Freed(rs) == [r \in Resources |-> held[r] - IF r \in rs THEN 1 ELSE 0]

-----------------------------------------------------------------------------
(* xTaskCreatePinnedToCore *)

CreateFails == life' = "failed" /\ Goto(Creator, "none")

Create ==
  /\ life = "none"
  /\ \/ life' = "creating" /\ held' = Allocated({"tcb"}) /\ Goto(Creator, "contexts")
     \/ CreateFails /\ UNCHANGED held
  /\ UNCHANGED <<notifyVars, linux_task, tls, tls_cleaned, todo, stopped, ran>>

WaitObjects == {"notify", "suspend"}

\* Both are asked for before either is looked at.
CreateContexts ==
  /\ job[Creator] = "contexts"
  /\ \E got \in SUBSET WaitObjects : held' = Allocated(got)
  /\ Goto(Creator, "check")
  /\ UNCHANGED <<notifyVars, life, linux_task, tls, tls_cleaned, todo, stopped, ran>>

Got == {r \in WaitObjects : held[r] = 1}

\* With one missing, the one that exists is destroyed again.
CheckContexts ==
  /\ job[Creator] = "check"
  /\ \/ /\ Got = WaitObjects
        /\ Goto(Creator, "stack")
        /\ UNCHANGED <<life, held>>
     \/ /\ Got # WaitObjects
        /\ held' = Freed(Got \cup {"tcb"})
        /\ CreateFails
  /\ UNCHANGED <<notifyVars, linux_task, tls, tls_cleaned, todo, stopped, ran>>

CreateStack ==
  /\ job[Creator] = "stack"
  /\ \/ held' = Allocated({"stack"}) /\ Goto(Creator, "thread") /\ UNCHANGED life
     \/ held' = Freed({"notify", "suspend", "tcb"}) /\ CreateFails
  /\ UNCHANGED <<notifyVars, linux_task, tls, tls_cleaned, todo, stopped, ran>>

\* Faulty: a thread that cannot be created leaves its stack allocated.
CreateThreadLeaking ==
  /\ job[Creator] = "thread"
  /\ \/ held' = Freed({"stack"}) /\ life' = "created" /\ Goto(Creator, "publish")
     \/ held' = Freed({"notify", "suspend", "tcb"}) /\ CreateFails
  /\ UNCHANGED <<notifyVars, linux_task, tls, tls_cleaned, todo, stopped, ran>>

\* s31_linux_task_create.  No code of this layer frees the stack of a thread
\* that was created: it is taken to belong to the bridge from then on.
CreateThread ==
  /\ job[Creator] = "thread"
  /\ \/ held' = Freed({"stack"}) /\ life' = "created" /\ Goto(Creator, "publish")
     \/ held' = Freed({"stack", "notify", "suspend", "tcb"}) /\ CreateFails
  /\ UNCHANGED <<notifyVars, linux_task, tls, tls_cleaned, todo, stopped, ran>>

\* t->linux_task and *task_handle are written after the thread exists.
Publish ==
  /\ job[Creator] = "publish"
  /\ linux_task' = TRUE
  /\ Goto(Creator, "none")
  /\ UNCHANGED <<notifyVars, life, held, tls, tls_cleaned, todo, stopped, ran>>

-----------------------------------------------------------------------------
(* The task *)

\* The thread calls s31_rtos_task_entry, perhaps before it is published.
TaskEntry ==
  /\ life = "created"
  /\ life' = "running"
  /\ UNCHANGED <<notifyVars, job, held, linux_task, tls, tls_cleaned, todo, stopped, ran>>

\* The payload runs and is in none of the functions modelled here.
Payload == life = "running" /\ job[Target] = "none" /\ pc[Target] = "idle"

vTaskSetThreadLocalStoragePointerAndDelCallback(i) ==
  /\ Payload
  /\ i \in style.slots \ tls
  /\ tls' = tls \cup {i}
  /\ UNCHANGED <<notifyVars, life, job, held, linux_task, tls_cleaned, todo, stopped, ran>>

\* Nothing ever wakes the suspend_context: only the bridge ends this wait.
vTaskSuspend ==
  /\ Payload
  /\ Goto(Target, "suspended")
  /\ UNCHANGED <<notifyVars, life, held, linux_task, tls, tls_cleaned, todo, stopped, ran>>

SuspendInterrupted ==
  /\ job[Target] = "suspended"
  /\ Goto(Target, "none")
  /\ UNCHANGED <<notifyVars, life, held, linux_task, tls, tls_cleaned, todo, stopped, ran>>

-----------------------------------------------------------------------------
(* The destructors, called by the task or by the one that deletes it *)

\* Faulty: the cleaned flag is not set before the destructors run.
CleanTlsThenFlag(c) ==
  /\ Goto(c, "dtors")
  /\ todo' = [todo EXCEPT ![c] = IF tls_cleaned THEN {} ELSE Slots]
  /\ tls_cleaned' = (tls_cleaned \/ tls = {})

CleanTls(c) ==
  /\ Goto(c, "dtors")
  /\ todo' = [todo EXCEPT ![c] = IF tls_cleaned THEN {} ELSE Slots]
  /\ tls_cleaned' = TRUE

Lowest(s) == CHOOSE i \in s : \A j \in s : i <= j

\* The lowest slot left is visited; its destructor, if it has one by now, is
\* called and may wait.
Destroy(c) ==
  /\ job[c] = "dtors" /\ todo[c] # {}
  /\ LET i == Lowest(todo[c])
     IN /\ todo' = [todo EXCEPT ![c] = @ \ {i}]
        /\ \/ /\ i \in tls
              /\ ran' = [ran EXCEPT ![i] = @ + 1]
              /\ Goto(c, "dtors") \/ Goto(c, "dtorWaits")
           \/ /\ i \notin tls
              /\ UNCHANGED <<ran, job>>
  /\ UNCHANGED <<notifyVars, life, held, linux_task, tls, tls_cleaned, stopped>>

DestructorWoken(c) ==
  /\ job[c] = "dtorWaits"
  /\ Goto(c, "dtors")
  /\ UNCHANGED <<notifyVars, life, held, linux_task, tls, tls_cleaned, todo, stopped, ran>>

\* s31_rtos_task_entry after t->entry has returned, and vTaskDelete(NULL).
TaskEnds ==
  /\ Payload
  /\ CleanTls(Target)
  /\ UNCHANGED <<notifyVars, life, held, linux_task, tls, stopped, ran>>

\* The return to the trampoline, or s31_linux_task_exit_current.
TaskLeaves ==
  /\ job[Target] = "dtors" /\ todo[Target] = {}
  /\ life' = "exiting"
  /\ Goto(Target, "none")
  /\ UNCHANGED <<notifyVars, held, linux_task, tls, tls_cleaned, todo, stopped, ran>>

\* The handle may be used: returned, its task has not left the payload, and no
\* vTaskDelete of it has returned.
HandleValid == linux_task /\ life \in {"created", "running"} /\ ~stopped

\* Another context deletes the task, whatever the task and others are doing.
vTaskDelete(c) ==
  /\ HandleValid
  /\ pc[c] = "idle" /\ job[c] = "none"
  /\ CleanTls(c)
  /\ UNCHANGED <<notifyVars, life, held, linux_task, tls, stopped, ran>>

CleanedForStop(c) ==
  /\ c # Target /\ job[c] = "dtors" /\ todo[c] = {}
  /\ Goto(c, "stop")
  /\ UNCHANGED <<notifyVars, life, held, linux_task, tls, tls_cleaned, todo, stopped, ran>>

Stop(c) ==
  /\ job[c] = "stop"
  /\ stopped' = TRUE
  /\ Goto(c, "none")
  /\ UNCHANGED <<notifyVars, life, held, linux_task, tls, tls_cleaned, todo, ran>>

\* A deleter that finds the control block freed reads what is there now: the
\* old contents, when it goes on as above, or anything else.
ReadsFreed(c) ==
  /\ life = "released" /\ job[c] \in {"dtors", "stop"}
  /\ Goto(c, "astray")
  /\ todo' = [todo EXCEPT ![c] = {}]
  /\ UNCHANGED <<notifyVars, life, held, linux_task, tls, tls_cleaned, stopped, ran>>

-----------------------------------------------------------------------------
(* The bridge (external) *)

\* A stopped thread ends before its entry or in any wait, inside its call.
StoppedInWait ==
  /\ stopped /\ life \in {"created", "running"}
  /\ job[Target] # "dtors" /\ pc[Target] \in {"idle", "wait"}
  /\ life' = "exiting"
  /\ Goto(Target, "none")
  /\ todo' = [todo EXCEPT ![Target] = {}]
  /\ Leave
  /\ UNCHANGED <<style, value, state, sent, owed, taken,
                 held, linux_task, tls, tls_cleaned, stopped, ran>>

s31_rtos_task_release ==
  /\ life = "exiting"
  /\ life' = "released"
  /\ held' = Freed({"notify", "suspend", "tcb"})
  /\ UNCHANGED <<notifyVars, job, linux_task, tls, tls_cleaned, todo, stopped, ran>>

-----------------------------------------------------------------------------

\* The notification calls of the task, and those with its handle; nobody
\* begins to notify a task whose end has begun.
TargetCalls == /\ life = "running" /\ job[Target] = "none"
               /\ TargetNext
               /\ UNCHANGED taskVars

TickStep == Tick /\ UNCHANGED taskVars

Notify(c) == /\ HandleValid /\ ~tls_cleaned /\ job[c] = "none"
             /\ xTaskGenericNotify(c)
             /\ UNCHANGED taskVars

NotifyWake(c) == Wake(c) /\ UNCHANGED taskVars

CreateNext == Create \/ CreateContexts \/ CheckContexts \/ CreateStack \/ CreateThread \/ Publish

LifeNext == \/ TaskEntry \/ vTaskSuspend \/ SuspendInterrupted
            \/ \E i \in Slots : vTaskSetThreadLocalStoragePointerAndDelCallback(i)
            \/ TaskEnds \/ TaskLeaves
            \/ \E c \in Contexts : Destroy(c) \/ DestructorWoken(c)
            \/ \E c \in Notifiers : vTaskDelete(c) \/ CleanedForStop(c) \/ Stop(c) \/ ReadsFreed(c)
            \/ StoppedInWait \/ s31_rtos_task_release

Next == \/ CreateNext \/ LifeNext \/ TargetCalls \/ TickStep
        \/ \E c \in Notifiers : Notify(c) \/ NotifyWake(c)

Spec == Init /\ [][Next]_vars

(***************************************************************************)
(* A context inside one of these functions runs on, the clock runs, and    *)
(* the bridge ends a stopped thread and releases what has left: strongly,  *)
(* since a task that never waits between two calls would keep the gate for *)
(* ever.  Nothing forces a context to call, a notification to come or a    *)
(* wait to be interrupted.                                                 *)
(***************************************************************************)
Fairness ==
  /\ WF_vars(life = "running" /\ job[Target] = "none" /\ Locked /\ UNCHANGED taskVars)
  /\ WF_vars(life = "running" /\ (Woken \/ TimedOut) /\ UNCHANGED taskVars)
  /\ WF_vars(TickStep)
  /\ \A c \in Notifiers : WF_vars(NotifyWake(c)) /\ WF_vars(CleanedForStop(c) \/ Stop(c))
  /\ \A c \in Contexts : WF_vars(Destroy(c) \/ DestructorWoken(c))
  /\ WF_vars(TaskLeaves) /\ SF_vars(StoppedInWait) /\ WF_vars(s31_rtos_task_release)

FairSpec == Spec /\ Fairness

-----------------------------------------------------------------------------
(* Properties *)

(***************************************************************************)
(* A TLS destructor is never called twice, although any number of contexts *)
(* may delete the task while it is inside its own destructors, and each    *)
(* has been called when a task that nobody else deletes is released.  Of a *)
(* deleter that reads the freed control block nothing is said.             *)
(***************************************************************************)
Deleting(c) == job[c] \in {"dtors", "dtorWaits", "stop", "astray"}

DestroyedOnce ==
  /\ \A i \in Slots : ran[i] <= 1
  /\ life = "released" /\ ~stopped /\ (\A c \in Notifiers : ~Deleting(c))
        => \A i \in tls : ran[i] = 1

(***************************************************************************)
(* Whatever step of the creation fails, and whoever ends the task, every   *)
(* resource is given back, and given back once.                            *)
(***************************************************************************)
Reclaimed ==
  life \in {"failed", "exiting"} \/ stopped ~> \A r \in Resources : held[r] = 0
=============================================================================
