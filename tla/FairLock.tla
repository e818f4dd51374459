------------------------------ MODULE FairLock ------------------------------
(***************************************************************************)
(* tokio::sync::RwLock and Mutex as the code uses them: a lock whose       *)
(* waiters form one FIFO queue, so a reader that arrives after a waiting   *)
(* writer waits behind it.  A Mutex is a lock only taken for writing.      *)
(***************************************************************************)
EXTENDS Sequences

CONSTANT Task

Lock == [readers : SUBSET Task, writers : SUBSET Task, queue : Seq(Task)]

Unlocked == [readers |-> {}, writers |-> {}, queue |-> << >>]

\* .read().await / .write().await / .lock().await has been called.
Wait(lock, t) == [lock EXCEPT !.queue = Append(@, t)]

First(lock, t) == lock.queue # << >> /\ Head(lock.queue) = t

CanRead(lock, t) == First(lock, t) /\ lock.writers = {}

CanWrite(lock, t) == First(lock, t) /\ lock.readers = {} /\ lock.writers = {}

ReadLock(lock, t) ==
  [readers |-> lock.readers \cup {t}, writers |-> lock.writers, queue |-> Tail(lock.queue)]

WriteLock(lock, t) ==
  [readers |-> lock.readers, writers |-> lock.writers \cup {t}, queue |-> Tail(lock.queue)]

\* The guard is dropped; harmless for a task that holds nothing.
Unlock(lock, t) ==
  [readers |-> lock.readers \ {t}, writers |-> lock.writers \ {t}, queue |-> lock.queue]

\* Nobody holds the lock and nobody waits for it.
Free(lock) == lock = Unlocked
=============================================================================
