# A TLA+ model of the RT-Thread kernel

This directory models the uniprocessor kernel of RT-Thread (`src/`, `include/`):
the priority scheduler, the life of threads, the timers, and on top of them the
services of `src/ipc.c` (semaphores, mutexes, event sets, mailboxes and message
queues), memory pools, the heap of `mem.c`, the synchronisation of the drivers
(`components/drivers`: completions, work queue, wait queues, data queue, ring
buffer, serial driver) and three objects of the pthreads library. TLC checks
small instances; TLAPS proves the safety properties of the services of `ipc.c`
and of memory pools and completions for every number of threads, priorities and
objects, and those of the heap, the ring buffer and the pthreads objects for
every size.

    tlc -config sem_take_release.cfg MCSemaphore     one run (see "Runs")
    tlapm MutexProofs.tla                            the proofs of one service (see "Proofs")

## The system

RT-Thread is a real-time kernel for one processor (an SMP build exists).
Everything is done by threads and interrupt handlers that share the kernel's
data; mutual exclusion is "interrupts off". A context switch happens only in
`rt_schedule`, called at the end of most kernel functions and by the handlers.

| Component | State | Operations | What makes it correct |
|---|---|---|---|
| Scheduler, `scheduler.c` | `rt_thread_priority_table`, `rt_thread_ready_priority_group`, `rt_current_thread`, `rt_scheduler_lock_nest` | `rt_schedule`, insert and remove a thread, `rt_enter_critical` | The lists hold exactly the ready threads, the bitmap is that of the lists, the highest priority runs |
| Threads, `thread.c`, `idle.c` | `stat`, `current_priority`, `error`, `tlist` | startup, suspend, resume, sleep, yield, change of priority, exit, detach, delete | A suspended thread can be found and woken; a dead one never runs |
| Timers, `timer.c`, `clock.c` | skip list ordered by `timeout_tick`, flags, `rt_tick` | start, stop, control, check on a tick, the soft-timer thread | Expiry in order and not early, over the wrap of the tick |
| Semaphores, `ipc.c` | `value`, list of waiting threads | take, trytake, release, reset, detach, delete | No token forged, lost or idle; waiters served in order |
| Mutexes, `ipc.c` | `value`, `owner`, `hold`, `original_priority`, list | take, release, detach, delete | Mutual exclusion; owner and waiters know the truth; inheritance |
| Events, mailboxes, message queues, `ipc.c` | event bits; ring of mails and list of waiting senders; list of messages | send, receive, urgent, reset, detach, delete | Nothing lost or duplicated, order kept, waiters woken |
| Memory pools, `mempool.c` | free list, counter of waiters | alloc, free, delete | Every block in one place; the counter agrees with the list |
| pthreads, `components/libc/pthreads` | counters under a mutex, condition variables made of a semaphore | rdlock, wrlock, unlock, timed and try forms; barrier wait | A writer is alone; nobody sleeps by a free lock; a barrier passes all or none |
| Signals, `signal.c` | pending and masked signals | kill, mask, wait | A wait is interrupted or satisfied, not both |
| Driver synchronisation, `components/drivers/src` | completion flag, work list, wait queue, data queue, ring buffer | wait and done, dowork and cancel, wakeup, push and pop | No lost wake-up |
| Serial driver, `components/drivers/tty` | two FIFOs, two wait queues, `tx_started` | read, write, transmit and receive interrupts, discarding | What is in the FIFO goes out; no reader or writer sleeps for good |
| Heaps, `mem.c`, `memheap.c`, `slab.c` | block lists | malloc, free, realloc | Blocks tile the heap |
| Objects, devices, modules, shell, file systems, network, bsp | registries and I/O | | |

The components meet in three places. A thread has a single list node, `tlist`,
which is in a ready list, in the waiting list of one object or in none; each
service manipulates it. A thread has a single timer, started by a timed wait
and by a sleep and stopped by whoever resumes the thread; the tick interrupt
runs its timeout function. And `thread->error` is the one cell through which a
waiter learns whether it was served, timed out or evicted.

What is hard: a call is several interrupt-disabled sections, and anything can
happen between them. A take first suspends the running thread, then enables
interrupts, then calls `rt_schedule`: between the last two a suspended thread
is running, and a timeout or a release may make it ready again. A timeout races
with a release; a release hands a mutex to a thread that has not run yet; a
deletion wakes threads one at a time with interrupts enabled; a priority can
change while the thread sits in a list sorted by priority. The calls that end
threads, start timers and resume the work thread are not one section but many.
The drivers have a thread at one end of a buffer and an interrupt handler at
the other, and nothing between them. `PROJECT.json` lists these hazards with their lines and the properties that cover them.

## Modules

| Module | Models |
|---|---|
| `Kernel` | The kernel state as one record and the functions on it: the scheduler, suspend, resume, timeout, change of priority, the waiting lists of `ipc.c` |
| `Ipc` | EXTENDS `Kernel`. What the services share: where each thread is in its call, the calls of `rt_schedule`, sleep, deletion and creation of objects, ticks, `rt_thread_control` |
| `Semaphore` | EXTENDS `Ipc`. `rt_sem_*` |
| `SemaphoreSpec` | What a semaphore promises, without kernel, scheduler or timers; `Semaphore` implements it |
| `Mutex` | EXTENDS `Ipc`. `rt_mutex_*`, recursive, with inheritance |
| `Event` | EXTENDS `Ipc`. `rt_event_*`: one send walks the whole list of waiting threads |
| `Mailbox` | EXTENDS `Ipc`. `rt_mb_*`: a ring, waiting receivers and waiting senders, retries |
| `MessageQueue` | EXTENDS `Ipc`. `rt_mq_*`: linked blocks, copies with interrupts enabled |
| `QueueSpec` | What mailboxes and message queues promise: bounded queues; both implement it |
| `MemPool` | EXTENDS `Ipc`. `rt_mp_*`: free blocks, waiting threads, and the counts of both |
| `ThreadLife` | EXTENDS `Ipc`. Creation, startup, exit, deletion and detachment of threads, the idle thread that reclaims them, `rt_enter_critical` |
| `Timer` | The two timer lists, the tick and its wrap, `rt_timer_*`, the tick interrupt, the timer thread |
| `Completion`, `WorkQueue`, `DataQueue` | EXTENDS `Ipc`. `rt_completion_*`, `rt_workqueue_*`, `rt_data_queue_*` |
| `WaitQueue` | EXTENDS `Kernel`. `rt_wqueue_*` as operators |
| `SerialWrite`, `SerialRead` | EXTENDS `Ipc`, `WaitQueue`. The two sides of `serial.c` |
| `RingBuffer` | `rt_ringbuffer_*`, store by store |
| `Heap` | `rt_malloc`, `rt_free`, `rt_realloc` of `mem.c` |
| `Cond`, `Rwlock`, `Barrier` | Condition variables as operators; the reader-writer lock and the barrier made of them |
| `Libraries` | The last of these, which use no list of the kernel, side by side: the heap, the ring buffer, the reader-writer lock and the barrier |
| `MCServices` | EXTENDS `MemPool`, `Completion`, `Libraries` and has instances of the others. Composes all of them for TLC |
| `MCSemaphore`, `MCMutex`, `MCEvent`, `MCMailbox`, `MCMessageQueue` | Values of the constants for TLC |
| `IpcProofs` | Lemmas about the kernel functions and about the steps the services share |
| `SemaphoreProofs`, `MutexProofs`, `EventProofs`, `MailboxProofs`, `MessageQueueProofs` | Theorems about each service and their proofs |
| `ServiceProofs` | Theorems about memory pools and completions |
| `LibraryProofs` | Theorems about the parts of `Libraries` |

**Kernel.** The C functions call each other inside one interrupt-disabled
section, so a function of the kernel is an operator from the state before the
call to the state after it and has the name of the C function; a section is a
composition, for example `rt_schedule_insert_thread(rt_timer_stop(rt_list_remove(k, t), t), t)`
in `rt_thread_resume`. The ready table is a function from priorities to
sequences; the bitmap `rt_thread_ready_priority_group` is a set of its own, so
that the two can disagree. The thread timer is the fact that it runs
(`timer`); when it expires is left open, so a timeout may come at every later
moment at which interrupts are on.

**Ipc and the services.** An action is one section that no interrupt can
split; its guard `Runs(t, label)` says that the processor executes thread `t`
and that `t` is at that place of its call (`pc`). Interrupt handlers (`Tick`,
`ReleaseIsr`) are atomic and are taken between any two actions unless the code
has interrupts off (`pc = "irq_off"`, the loop of `rt_sem_control` and the
other resets). A take is `TakeAvailable`, or `TakeBlock`, `WaitSchedule`, `TakeReturn`; a release is
`Release` and, when it resumed a thread, `Schedule`; a deletion is `Delete`,
then `DeleteTest` and `DeleteOne` in turn, because the loop of
`rt_ipc_list_resume_all` tests the list with interrupts on. When that test is
stale the code takes the list head for a thread; `corrupt` records it and
nothing is said about the system after that. No call on an object starts while
it is being deleted, and its memory is used for a new object only when no
thread is still in a call on the old one: the rules the application has to
follow.

**Events, mailboxes, message queues.** A thread that `rt_event_send` resumes
has its bits already; one that a mailbox or a message queue resumes has not:
it looks again (`SendRetry`, `RecvRetry`) and, when it was overtaken, waits
for the rest of its time. How much is left is not counted: a thread with a time
limit that finds nothing either waits again or finds its time over
(`SendExpires`, `RecvExpires`). A mailbox has two lists, so two members of
`List` stand for it. In a message queue a sender takes a block (`Allocate`) and
links it (`Link`) in two sections, a receiver takes a message (`Unlink`) and
frees its block (`Free`); the block is in no list in between. `got` is a
history variable with the message that was received last, `asked` one with the
bits a thread asked for. A thread that was resumed with RT_EOK, or is copying,
when the object is deleted goes on to use freed memory (`ReadsDeleted`,
`UsesDeleted`): this too sets `corrupt`.

**Threads.** `ThreadLife` has `Init` with any of the threads started before the
scheduler. `rt_thread_exit` is one section; `rt_thread_delete` and
`rt_thread_detach` are `Kill`, `KillTimer`, `KillClose`, `KillDetach` (static
threads) and `KillDefunct`, with interrupts, timeouts of the victim and other
threads in between; the victim may be the caller itself. Two history variables
are what the exceptions in the properties are made of: `detached`, and `botched`,
the victims that a timeout made ready again or whose killer was killed on the
way. Such a thread goes on running in the model. The idle thread takes a thread from
the list of defunct threads and calls its cleanup function with the scheduler
locked (`IdleTake`), then frees it (`IdleFree`). One list stands for the
services a thread may be waiting for.

**Timers.** In `Kernel` a thread timer expires at some later moment; `Timer` is
the machinery behind that. `s` holds the two lists, flags, `init_tick` and
`timeout_tick`, all modulo `TICK_MAX + 1`, and the real due time as a history
field. Start and stop are several sections; the tick interrupt increments the
tick and walks the hard list, calling timeout functions that start, stop and
set timers; other handlers start and stop timers at any moment; the timer thread
computes how long to sleep, sleeps and walks the soft list, with `RT_TICK_MAX`
for an empty list as in the code. Its timeout functions and the callers run in
any order. History fields record what the properties except: `s.unflagged`,
`tt.blind` and `tt.lost`. Two who start one timer at once can give a timer that
is in a list another `timeout_tick`, or link it twice: `corrupt`, and the model
stops. A timeout function, the end of a check and a handler are one step
each. One skip-list level, the default.

**Drivers.** `WorkQueue` calls `rt_thread_resume` with interrupts enabled, so
its test, its removal from the list and its insertion in the ready list are
three actions there. In `SerialWrite` the contents of the FIFO are a number and
each call of `rt_serial_write` is unrolled to the copy, the store of the index,
the test and the set of `tx_started` and the steps of `rt_wqueue_wait`; the
transmitter itself (`hw`) is external. `SerialRead` does the same for
`rt_serial_read` and `rt_wqueue_uwait`. `RingBuffer` has the contents: the thread
is at one end with every look at the other end and every store an action, the
interrupt handler is at the other with any number of atomic calls of any length
between them, or the thread has both ends; `torn` records the two interleavings
that give a wrong length. Where these drivers have no lock and
two calls overlap, or a list head is taken for an item, `corrupt` is set and
the model stops, as in `Ipc`.

**Heap, pthreads.** The calls of `mem.c` are sections under `heap_sem`, hence
one action each; `rt_realloc` that moves a block is three. A block is its
header, `mem[offset]`, with what the application asked for as a history
variable. `Cond` uses the semaphore as `SemaphoreSpec` describes it, and
`Rwlock` and `Barrier` have one action per section under their mutex; the three
steps of a condition wait (unlock, take, lock again) stay apart.

The sources of every definition are in `PROJECT.json` under `map`. Operators
whose comment begins with "Slip" are deliberate mistakes (a dropped guard, a
missing reset, a wrong comparison) which `PROJECT.json` pairs with the property
that notices them; no specification uses them.

## Runs

Threads are `a`, `b`, `c` and the idle thread, which never calls anything.

| Run | Instance | Shows |
|---|---|---|
| `sem_take_release` | 3 threads (two share the highest priority), a FIFO and a PRIO semaphore, values to 2 | `TypeOK`; `Preemptive`: outside a call that is about to schedule, nobody of higher priority is ready; `HighestPrioFirst`: a PRIO list is sorted; `KeepsPromise`: every step is a step of `SemaphoreSpec` |
| `sem_reset_delete` | 2 threads, 2 semaphores, resets to 0 and 2, deletion, priority changes | `Coherent`, `NoIdleTokens`, `NobodyStranded`, `DeletedIsDrained` |
| `sem_live` | 2 threads of one priority, a FIFO semaphore | `FifoServed`, `TimedWaitEnds` |
| `mutex_single` | 3 threads of 3 priorities, 2 PRIO mutexes, one held at a time | `Inherited`, `Restored`, `OwnerKnows`, `HighestPrioFirst` |
| `mutex_nested` | 2 threads, 2 mutexes in any order, recursion to depth 2, deletion, priority changes | `KernelKept`: `Coherent`, `NobodyStranded` and nobody waits for a mutex that is free or its own; `MutualExclusion`; `OwnerKnows` |
| `mutex_live` | 3 threads of 3 priorities, 1 mutex | `NoInversion` |
| `event_wait` | 2 threads, 3 bits, every request with AND, OR and CLEAR, reset, deletion | `NoMissedEvent`: nobody waits whose request the bits satisfy; `WakesEarned`: a woken thread has what it asked for; `ClearConsumes`: a cleared bit goes to one thread of those that clear |
| `mb_exchange` | 3 threads, a ring of 2, 2 mails, reset, deletion | `TypeOK`; `NoLostWakeup`: while somebody waits, every mail and every free place has a thread that was resumed for it; `KeepsOrder`: the ring is a step-by-step implementation of `QueueSpec` |
| `mq_exchange` | 2 threads, 2 blocks, 2 messages and an urgent one, reset, deletion | `BlocksAccounted`: every block is in the queue, in the free list or in one thread's hands; `NoLostWakeup`; `KeepsOrder` |

`services` checks thirteen parts that do not interact; `Init` of `MCServices`
chooses one, so the run is the union of thirteen small runs.

| Part | Instance | Shows |
|---|---|---|
| `pool` | 3 threads and interrupts, a pool of 2 blocks, deletion, time limits | `PoolsSound`: blocks are free or held, never both; every free block has a thread on its way to it while others wait; `suspend_thread_count` is never too small |
| `threads` | a static, b dynamic with cleanup, c static with cleanup; a and b kill each other, b also c and itself; lock nesting to 2 | `DeadStaysDead`: a closed thread is in no ready list, waits for nothing and never runs, the ready lists of the others stay exact, each dynamic thread is freed once and a static one only when it has a cleanup function and was detached; all but the ready lists' bitmap is said of threads that are not `botched`; `LockRespected`: no switch while the scheduler is locked, and the highest priority runs after it is unlocked |
| `hard` | 3 timers, one periodic whose timeout function controls itself and another; ticks modulo 8, times 1 and 2 | `TimersInOrder`: the list is sorted by real time, the active flag is that of the list unless it was cleared while the timer was in it; `TimersFireInTime`: never early, none overdue when the tick ends, first started first fired |
| `soft` | 2 timers, one periodic; a thread controls one, an interrupt handler starts and stops the other, whose timeout function controls both; the timer thread | the same (without "none overdue"; a timer that was stopped fires only when its node had been saved, `tt.lost`), and the timer thread never sleeps past a timer unless `tt.blind` |
| `completion` | one completion, 3 threads and interrupts | `DoneIsSeen`: nobody sleeps on a completion that is done, nobody returns successfully from a sleep without a done |
| `write` | a blocks and discards, b does not block; a FIFO of 2; raw and processed | `SerialServed`: characters in the FIFO are on their way out, a sleeping writer has its node queued and an interrupt or a writer coming, raw output is complete |
| `read` | one reader, a FIFO of 3, bursts of 2 | `SerialServed`: a reader asleep with its node queued has no input waiting |
| `work` | the work thread above 2 submitters that also cancel, 2 items | `NoWorkForgotten`: while the work thread idles and work is queued, somebody is on the way to resume it |
| `data` | one writer, 2 readers and interrupts, 2 places, low water mark 1 | `DataQueueSound`: data in order, no reader's and no writer's wake-up lost |
| `ring` | 3 places; the thread puts, gets or does both; the handler moves any number of characters between any two steps | `RingExact`: unless `torn`, a get returns the oldest characters and the two ends describe the contents, also between the two stores of a wrap |
| `heap` | 22 bytes, headers of 3, 2 threads, requests of 2, 4 and 10 | `HeapSound`: blocks tile the heap and holes are merged, what was asked for is there, `lfree` overlooks no block |
| `rwlock` | 3 threads, time limits for all calls | `PthreadsSound`: a writer is alone, and nobody sleeps while the lock is free and nobody is on the way to it, unless an unlock was spent on writers whose time was over (`missed`) |
| `barrier` | 3 threads, a barrier for 1, 2 or 3 | `PthreadsSound`: nobody passes early; all pass but those of the `late` ones for whom no token is left |

Two runs end in a counterexample; each shows where the code does not do what a
comment, an assertion or the documentation says (`findings` in `PROJECT.json`).

| Run | The code | It contradicts |
|---|---|---|
| `sem_delete_race` | the last waiter times out between the test and the body of the loop of `rt_ipc_list_resume_all` (`ipc.c:162`): the list head is resumed as a thread | the assertion of `rt_thread_resume` |
| `mutex_lifo_inherit` | releasing an inner mutex drops the priority inherited through the outer one | "inherited priority to prevent priority reversion" |

Other limits of the code, found with the same models, are the conditions of the
passing runs. `Preemptive` needs that nothing is deleted and no priority is
changed: `rt_sem_delete` and the like wake threads without calling
`rt_schedule`. `HighestPrioFirst` needs that priorities do not change: a
waiting thread whose priority changes keeps its place (`thread.c:598`).
`Inherited` and `Restored` need PRIO mutexes held one at a time: a FIFO mutex is
handed on without a look at the other waiters (`ipc.c:850`), and two mutexes
released in the order in which they were taken leave the thread with a priority
it had inherited. Setting `Deletable`, `NewPrio`, `Flag` or `Discipline`
otherwise in the cfg shows each of them. `rt_mutex_release` calls `rt_schedule`
only when it resumed a thread: when the waiter that lent its priority has timed
out, the caller goes on running below a ready thread (`ipc.c:874`).

The known limits that the properties of `services` name as exceptions, or that
are behind the instances. The first are reached in the run; dropping the
exception from the property shows the counterexample.

- *Threads* (within the run). A timeout between the first two steps of a deletion
  makes the victim ready again (`botched`, `thread.c:341`, `441`); a killer that is
  killed leaves its victim half dead (`botched`). A static thread with a cleanup
  function that is detached has lost its type when the idle thread looks at it, and
  is freed to the heap, against "if it's a system object, not delete it"
  (`detached`, `idle.c:193`). A thread that deletes itself and is preempted after
  it has set its state is never scheduled again and never reaches the defunct list:
  in `NoLeak` it stays in the hands of a killer that is dead (`thread.c:448`).
- *Timers* (within the run). A one-shot timer restarted in its own timeout function
  stays in the list without the active flag and cannot be stopped, and so does one
  that is started again while `rt_timer_stop` has removed it and not yet cleared
  the flag (`s.unflagged`, `timer.c:542`, `444`). A soft timer that is due at the
  tick `RT_TICK_MAX` looks like an empty list, and the timer thread suspends itself
  (`tt.blind`, `timer.c:647`); so it does when an interrupt handler, or a thread
  above it, starts a soft timer after it has looked (`timer.c:650`): it is ready
  then, and nobody resumes it. A timeout function that stops the next expired soft
  timer comes too late, its node was saved before (`tt.lost`, `timer.c:597`).
  Two that start one timer at once (`corrupt`, `timer.c:315`).
  Outside the run: a periodic timer of 0 ticks keeps `rt_timer_check` in its loop;
  the longest time and the longest delay together have to stay below half the
  range; `rt_soft_timer_check` unlinks a timer with interrupts on
  (`timer.c:600`), which a handler that uses the same list can meet half-way.
- *Memory pools.* `suspend_thread_count` is not lowered by a timeout: a later
  `rt_mp_free` takes the head of the empty list for a thread (`mempool.c:337`).
  Within the run: `corrupt`.
- *Work queue.* A submitter above the work thread can find it ready while it is
  about to suspend itself, and the wake-up is lost (`workqueue.c:76`). A cancel
  between the test of the list and its use makes the work thread take the list
  head for a work (`workqueue.c:23`); two submitters in `rt_thread_resume` insert
  it in the ready list twice (`thread.c:711`). Within the run: `corrupt`.
- *Data queue.* `rt_data_queue_pop` returns with interrupts disabled when
  `waiting_lwm` is raised and no writer waits, against the comment "there is at
  least one thread in suspended list" (`dataqueue.c:229`; `corrupt`). Of two
  writers that wait only one is resumed. The 16-bit indices are subtracted as
  `int` and disagree once one has wrapped (`dataqueue.c:81`; beyond `INDEX_MAX`).
- *Ring buffer* (within the run). A handler that passes the end of the buffer
  while the thread compares the two ends makes an empty buffer look full or gives a
  wrong length (`ringbuffer.c:32-34`, `312-315`); one that moves more than the
  thread itself does between the thread's two stores of a wrap breaks it
  (`ringbuffer.c:99-100`): `torn`. The receive interrupt of `serial.c:558` can do
  both. `rt_ringbuffer_put_force` writes more than the buffer has (not modelled).
- *Serial driver.* Two writers that overlap in the FIFO corrupt it (nothing locks
  a device). In processed mode an ordinary character is dropped when the
  interrupt frees a place between the two looks at the FIFO, and tabulators are
  always dropped (`serial.c:333`); with three writers, one that discards can
  leave another asleep. `rt_wqueue_uwait` returns with its stack node queued when
  the flag is raised (`corrupt`), and a wake-up between its test and its
  suspension is spent, leaving the reader asleep until more input comes
  (`waitqueue.c:142`).
- *Heap.* `rt_realloc` that shrinks a block does not lower `lfree` ("pointer to
  the lowest free block", `mem.c:131`): the hole is not found until something
  below it is freed. `rt_malloc` refuses a request that would fill the
  heap exactly to its end (`mem.c:306`, within the run).
- *pthreads* (within the run). A writer with a time limit that gives up just after
  an unlock counted on it leaves sleeping readers behind (`missed`,
  `pthread_rwlock.c:231`). A broadcast leaves one token for the threads on their
  way to sleep (`late`); when there are two, one of them sleeps for good
  (`pthread_barrier.c:114`). `pthread_rwlock_destroy` returns EBUSY with the mutex
  locked (not modelled).

**Bounds.** Two waiters make an order and a third thread makes an actor between
them; two objects let a thread wait for one while it is evicted from or owns
another; a value up to 2 and a reset to 0 or 2 give tokens above, at and below
the number of waiters; a recursion depth of 2 separates the inner release from
the last. A ring of 2 and 2 blocks wrap, fill and empty within a few steps, two
mails or messages and an urgent one make every order visible, three bits give
requests that overlap without being equal. In `mb_exchange` the threads `b` and
`c` and the mails, in `event_wait` the bits and in `mq_exchange` the ordinary
messages are interchangeable; these runs check safety only, for which the
symmetry is sound. In `mb_exchange` no thread sleeps (other waits play
that role), and a VIEW leaves out what is in `thread->error` outside a wait,
where it is written before it is read.
`VALUE_MAX` and `HOLD_MAX` bound the counters in the guards: the
16-bit `value` and the 8-bit `hold` are incremented without a test in the code
and would wrap at 65536 and 256, which is outside the model. Deadlock
is checked except where objects are deleted: there `corrupt` stops the model.

In `services` the smallest sizes are taken at which the two ends of a buffer
wrap independently (ring of 3, FIFOs of 2 and 3, queue of 2 with a low
water mark that is neither empty nor full), a tick counter that wraps after four
of the longest times, heap requests of which one is padded, one splits most
holes and one fits only an empty heap, and a third thread wherever two wait for
a third. `COUNT_MAX` (waiting threads of a pool), `LOCK_MAX` (nesting),
`INDEX_MAX` (pushes to the data queue), `TOKEN_MAX` (tokens of a condition)
bound what the code counts without a test. A thread does not exit or wait with
the scheduler locked, which the code leaves to the application; one that deletes
itself calls `rt_schedule` next. Time does not go on past a timer that is due
before it has fired or the one who works on it has finished (`DELAY_MAX = 0`). The VIEW
compares the variables of the chosen part, without the `timeout_tick` of timers
nobody will look at and `thread->error` outside a wait. The texts of the serial
writers and the barrier end, and `corrupt` stops a part, so deadlock is not
checked.

**Fairness.** Weak fairness of the time-slice tick and of each running timer:
the clock interrupt keeps coming. Strong fairness of the steps inside a call,
because a thread loses and regains the processor: kernel code, once it has the
processor again and again, goes on. `mutex_live` also asks that the owner of a
mutex releases it if it runs often enough, and `sem_live` that interrupt
handlers keep releasing the semaphore; both are assumptions on the
application, without which nobody can be served. Nothing is asked of a thread
outside a call: the thread of middle priority in `mutex_live` may keep the
processor busy for ever, which is the case inheritance exists for.

## Proofs

The theorems hold for any finite set of threads, any number of priorities and
objects, all flags, values, sizes and reset values. What is assumed of the
constants is `KernelAssumption`, `IpcAssumption`, `LibrariesAssumption` and the
assumption of each service's module (that a ring has at least one place, that a
reset value is in range, and so on), which TLC evaluates in every run. `Spec` is the whole
specification of the service, with interrupts, timeouts, sleeps, deletions and
changes of priority, unless a condition is given.

| Theorem | States |
|---|---|
| `SemaphoreProofs` `TypeCorrect`, `CoherentAlways`, `NobodyIsStranded`, `TokensAreUsed`, `DeletionDrains` | `Spec => []P` for `P` = `TypeOK`, `Coherent`, `NobodyStranded`, `NoIdleTokens`, `DeletedIsDrained` |
| `SemaphoreProofs` `PreemptiveAlways` | `Deletable = {}` and `NewPrio = {}` imply `Spec => []Preemptive` |
| `SemaphoreProofs` `HighestIsFirst` | `NewPrio = {}` implies `Spec => []HighestPrioFirst` |
| `SemaphoreProofs` `PromiseIsKept` | `NewPrio = {}` implies `Spec => KeepsPromise`: the kernel code implements `SemaphoreSpec` |
| `MutexProofs` `TypeCorrect`, `OwnerAlwaysKnows`, `Excludes`, `KernelIsKept` | `Spec => []P` for `P` = `TypeOK`, `OwnerKnows`, `MutualExclusion`, `KernelKept` |
| `MutexProofs` `InheritsAlways`, `RestoresAlways`, `HighestIsFirst` | `OneAtATime` implies `Spec => []P` for `P` = `Inherited`, `Restored`, `HighestPrioFirst` |
| `EventProofs` `NothingIsMissed`, `WakesAreEarned` | `Spec => []P` for `P` = `NoMissedEvent`, `WakesEarned` |
| `EventProofs` `ClearingConsumes` | `Spec => ClearConsumes`, an action property |
| `MailboxProofs` `TypeCorrect`, `NoWakeupIsLost` | `Spec => []P` for `P` = `TypeOK`, `NoLostWakeup` |
| `MailboxProofs` `OrderIsKept` | `Spec => KeepsOrder`: the ring implements `QueueSpec` |
| `MessageQueueProofs` `NoWakeupIsLost`, `BlocksAreAccounted` | `Spec => []P` for `P` = `NoLostWakeup`, `BlocksAccounted` |
| `MessageQueueProofs` `OrderIsKept` | `Spec => KeepsOrder`: the linked blocks implement `QueueSpec` |
| `ServiceProofs` `PoolsAreSound` | `MpSpec => []PoolsSound` |
| `ServiceProofs` `DoneIsAlwaysSeen` | `CpSpec => DoneIsSeen`, an invariant and an action property |
| `LibraryProofs` `HeapIsSound` | `LibrariesSpec => []HeapSound` |
| `LibraryProofs` `RingIsExact` | `LibrariesSpec => []RingExact` |
| `LibraryProofs` `PthreadsAreSound` | `LibrariesSpec => []PthreadsSound` |

`EventProofs`, `MailboxProofs` and `MessageQueueProofs` also have
`KernelIsKept`, `Coherent` and `NobodyStranded` for these services.
`OneAtATime` is the instance of `mutex_single`: `Discipline = "single"`, all
mutexes RT_IPC_FLAG_PRIO, `Deletable = {}`, `NewPrio = {}`; without any of these
the properties fail (see "Runs").

**What all services share.** `IpcProofs` proves once, for a kernel state,
what each function does to `KernelCoherent`: inserting and removing a thread,
waking it (by resume or by timeout), suspending it, switching to another,
changing its priority. The facts about sequences without repetition that this
needs are lemmas there, proved from the library's theorems on sequences.
It then lifts this to the steps of `Ipc`. The main notion is that a step
*eases* the kernel: it suspends nobody, leaves those still suspended in their
lists with their timers, and switches only to a ready thread; every step but a
wait and a sleep does. The invariant of every service has `IpcInv`, which adds
to `Coherent` and `NobodyStranded` what makes them inductive: every thread was
started and the scheduler lock is free (`Started`); the running thread is ready
unless it is at the place where it has suspended itself and is about to call
`rt_schedule` (`RunnerReady`), without which `rt_schedule` could put a suspended
thread into a ready list or leave a place at which nobody can run; a thread
inside a call on an object names an existing object (`CallsHaveObjects`).
`NobodyStranded` is needed for `Coherent`: a deletion or a release resumes the
first thread of a list, and that it is a suspended thread in a call on this
object comes from there. `WaitersClean` says that a thread in a list still has
RT_EOK in `thread->error`: what it reads when it is resumed was written by
whoever resumed it.

`DeletedIsDrained` is not part of it. It is inductive for a semaphore, where a
thread that was resumed leaves the call. A receiver of a mailbox that was
resumed may find nothing and wait again while the deleting thread is already at
the list of the senders; there the argument does not close, and the code has no
protection against it other than that the application does not do this.

**Semaphores.** `Inv` adds `TypeOK` and `NoIdleTokens`. `PreemptiveAlways` needs
that a thread at the end of a call that resumed somebody has not yet returned
(`PreInv`). `HighestIsFirst` needs what an insertion by priority does to a
sorted list, and that removing an element keeps the order of the others.

`PromiseIsKept` maps the list of a semaphore to the lines of `SemaphoreSpec`.
The list of a RT_IPC_FLAG_PRIO semaphore is sorted, so the line of a priority is
a section of it (`Line`), between two counts of threads with a higher priority
(`Above`); written with a selection, which is recursive, the line would be out
of the prover's reach. The lemmas about lines say that an insertion by priority
appends to one line, that the head of the list is the head of the first line
that is not empty, and that a removal anywhere leaves the other lines alone.
`RefInv` is what the steps need besides `Inv`: the lists are sorted by the
priorities the threads were created with, and a thread in a list has RT_EOK
(`WaitersClean`), since the mapping tells a token from a refusal by
`thread->error` alone. A release is then one step of the promise, and so is each
turn of the loop of a reset or a deletion, each a refusal; the calls of
`rt_schedule` and the sleeps are none. Changes of priority are excluded because
`rt_thread_control` does not move a waiting thread.

**Mutexes.** `Sound(m)` relates `owner`, `hold` and `value` to the history of
the takes that have returned: the difference is one for the thread that a
release has made owner and that has not run yet (`Resumed`). `MutualExclusion`
follows, since at most one thread is `owner`. `NestAgrees` connects the order of
takes with their counts. Under `OneAtATime`, `SingleInv` adds that a thread owns
at most one mutex and that one that waits owns none (`OwnsOne`): then raising an
owner moves no waiting thread, the lists stay sorted, and the first in the list
is the thread whose priority the next owner has to have.

**Events.** `rt_event_send` walks the list and each turn may clear bits that a
later one asks for. `SentTo` is a recursive function of the number of turns, and
the proof is an induction over it (the first turn at which the claim fails, if
there is one): what the first `i` turns leave satisfies nobody among the first
`i` threads of the list that is still suspended. Bits only disappear during the
walk, so a thread that was passed over stays unsatisfied.

**Mailboxes.** `NoLostWakeup` counts: while a receiver is left in the list,
there are at least as many receivers resumed and on their way as there are
mails, and the same for senders and free places. The lemmas say how one step
changes such a count (a thread joins, leaves or is resumed); a timeout, a
deletion and a reset can only remove from the list. For `KeepsOrder`,
`RingOrder` says that the two offsets and `entry` describe the same places, and
the mapping reads the mails from `out_offset` on, wrapping at `SIZE`.

**Message queues.** The next fields are pointers that a step rewrites one at a
time. `IsChain` names the list they form, and the lemmas about chains say what
taking the first block, putting one in front and appending one does to it.
`ListInv` says, for each queue, that its message list, its free list and the
blocks in the hands of threads partition its pool (`Placed`), that each thread
between two sections has one block (`OneEach`), that a reset in progress is
alone on the processor (`ResetterRuns`), and that a sender between its two
sections still has its message. `BlocksAccounted` is the count that follows
from the partition, `KeepsOrder` the order of the first list.

**Memory pools.** `PoolInv` adds to `IpcInv` and `WaitersClean` the types and,
for each pool, `SoundPool`: its free list has no repetition and is what is not
held, the count of free blocks is its length (`BlocksOf`), the free blocks are
no more than the threads resumed for one while others wait (`WakeupsOf`), and
`suspend_thread_count` is not below the number of waiting threads (`CountOf`). A
timeout takes a thread from the list and leaves the count, so only "not below"
holds, and it is what `rt_mp_free` needs to resume somebody whenever somebody
waits. A thread that was resumed looks again: it takes a block, and with it its
own place in `WakeupsOf`, or waits again because another was quicker and the
blocks are gone. A deletion closes the pool, after which `WakeupsOf` says
nothing and only the first and last parts are kept.

**Completions.** "Only one thread can suspend on complete", says the code, and
`OnlyWaiter` is this assumption as an invariant. `rt_completion_done` tests the
flag in one section and sets it in another that resumes the waiter, so
`DoneInv` says that a thread resumed with RT_EOK that has not run yet finds the
flag raised (`ResumedDone`); with a second waiter, which would lower it first,
this is false. Then a sleep that ends with RT_EOK ends with the flag raised, the
action property in `DoneIsSeen`; that only its own step brings a thread back
from a sleep is `AwakesReturn`.

**Heap.** `HeapInv` has two halves. `Heaped` is about the headers: they are
chained in both directions from 0 to `heap_end` with nothing in between
(`Chained`), no two holes are neighbours (`NoHole`), `lfree` is free and, unless
a block was shrunk, the lowest (`IsFree`, `IsLowest`), and `used_mem` is a sum
over the used blocks. Between the two halves of `plug_holes` a hole may have a
free neighbour, so the lemmas about splitting, marking and merging are about
`Chained` alone, and `PlugForwardIs` and `PlugBackwardIs` say which holes are
excepted. `Hands` and `Served` are about who has the used blocks: the
application or an `rt_realloc` that has released `heap_sem`. The old block of a
move stays the application's until the second half frees it, no two threads move
the same block, and no block is both a copy and the application's; without this
the `rt_free` in one `rt_realloc` could free what another copies to. `used_mem`
is `MapThenSumSet` of the community modules, a recursion over sets; that its
value grows by one block's size, whichever element is taken first, is proved
from the definition by looking for an exception of the least cardinality
(`SumExists`, `SumOrder`, `SumAgrees`).

**Ring buffer.** `RingInv` says of the two ends how far one is ahead of the
other (`Ahead`) and that the places between them hold the contents in order
(`Stored`), and for a call that is between two of its steps what the handler may
have done since (`RingPut`, `RingGet`): while the thread reads the other end, that
end has not passed the end of the buffer, so each comparison is of values that
were true together and the length can only be too careful; between the two
stores of a wrap, the handler has moved no more than the thread does. The
theorem has no other condition than `torn` in `RingExact` itself, which says
exactly when one of the two was not so; handlers may make any number of calls of
any length.

**Reader-writer lock and barrier.** `RwInv` ties `rw_refcount` and `rw_nwait` to
the threads that hold or wait for the lock (`RwHolders`, `RwCounts`), and says
that a free lock with somebody waiting has a token, or a thread that was woken
and has not looked yet (`RwServed`), unless an unlock was spent on writers that
had all given up (`missed`). `BarrierInv` counts the threads that have arrived and
those that were on their way to sleep when the last one did: a broadcast leaves
one token, so of `late` threads all but one may stay, and nobody does when `late`
is at most 1, as in every barrier for two. Both hold for every number of threads,
every count and with time limits in all calls.

**Only model-checked.** `DeadStaysDead` and `LockRespected`: in `ThreadLife`
threads that were not started, are closed or are killed step by step break the
parts of `IpcInv` on which `IpcProofs` rests (`Started`, and that a thread's
state follows from its place in a call), so they need lemmas of their own.
`TimersInOrder` and `TimersFireInTime`: that unsigned differences of ticks agree
with real time over the wrap, in a list walked while its elements are moved.
`SerialServed`, `NoWorkForgotten` and `DataQueueSound`: steps of the drivers
outside the sections of `Ipc`. And all liveness (`FifoServed`, `TimedWaitEnds`,
`NoInversion`), since fairness and ENABLED are beyond the prover. The two
findings are counterexamples of TLC.

## Not modelled

Other builds of the same sources: the SMP scheduler, the two-level bitmap for
more than 32 priorities, signals, the heaps `memheap.c` and `slab.c`. `poll` and
pipes: `rt_wqueue_add` clears the key of the node that `poll.c:50` has just set,
so the wake-up function of `poll` never matches, and `pipe.c:171` passes
`rt_wqueue_wait` a null node; there is no behaviour behind either to describe.
Configuration calls of the serial driver, the destroy calls of pthreads and of the
work queue. A handler is atomic, so nested interrupts do not show; hooks and
debug output are left out.

By lines nearly all of the repository is something else: file systems and their
code pages (elm fat, uffs, yaffs2, jffs2, nfs), three versions of lwIP, FinSH,
USB and SPI stacks, newlib glue and board support, most of it third-party, and
all of it calls the kernel through the services modelled here. They are parsers,
formats and register access, which a model checker has little to say about.

## Plan

1. Proofs about `ThreadLife` and `DataQueue`, with an invariant in place of
   `Started` that admits threads that come and go.
2. That `Timer` implements "expires at some later moment".
3. Signals and `-RT_EINTR`; `memheap.c`.
