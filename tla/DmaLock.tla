------------------------------ MODULE DmaLock ------------------------------
(***************************************************************************)
(* bsp/driver/dmalock.c: the DMA channel allocator every driver of the     *)
(* board goes through.  A counting semaphore counts the free channels, a   *)
(* mutex serialises the search for one, and dmalock_release gives a        *)
(* channel back WITHOUT the mutex, so its three stores interleave with a   *)
(* search on the other core.  Each step of the model is one shared access. *)
(*                                                                         *)
(* The clients are arbitrary: a thread takes channels (with a finite or an *)
(* infinite timeout) up to MaxHold and releases the ones it holds.         *)
(***************************************************************************)
EXTENDS Integers, FiniteSets, SequencesExt

CONSTANTS Threads,    \* threads that call dmalock
          NChannels,  \* DMAC_CHANNEL_COUNT, also the value DMAC_CHANNEL_MAX
          MaxHold,    \* bound: channels one client holds at a time
          NoThread    \* no thread: RT_NULL as an owner or a name

ASSUME DmaLockAssumption ==
    /\ IsFiniteSet(Threads)
    /\ NChannels \in Nat \ {0}
    /\ MaxHold \in Nat \ {0}
    /\ NoThread \notin Threads

Channels == 0 .. NChannels - 1

Waits == {"forever", "finite"}

VARIABLES
    sem,     \* dmac_host.sem.value
    waitq,   \* threads suspended on the semaphore, first in first out
    mutex,   \* owner of dmac_host.mutex
    used,    \* dmac_host.channel_used
    name,    \* dmac_host.channel_name, as the thread that passed the name
    pc,      \* where each thread is in dmalock.c
    mode,    \* timeout argument of the call in progress, "none" outside
    idx,     \* loop variable i of _dmalock_sync_take
    chn,     \* the caller's *chn; while releasing, the argument chn
    held     \* channels the client was handed and has not given back

vars == <<sem, waitq, mutex, used, name, pc, mode, idx, chn, held>>

Labels == {"idle", "wait", "permit", "scan", "claim", "unlock", "clear", "post"}

Goto(t, l) == pc' = [pc EXCEPT ![t] = l]

----------------------------------------------------------------------------
(* dmalock_init *)
Init ==
    /\ sem = NChannels
    /\ waitq = <<>>
    /\ mutex = NoThread
    /\ used = [c \in Channels |-> 0]
    /\ name = [c \in Channels |-> NoThread]
    /\ pc = [t \in Threads |-> "idle"]
    /\ mode = [t \in Threads |-> "none"]
    /\ idx = [t \in Threads |-> 0]
    /\ chn = [t \in Threads |-> NChannels]
    /\ held = [t \in Threads |-> {}]

----------------------------------------------------------------------------
(* _dmalock_sync_take *)

\* *chn = DMAC_CHANNEL_MAX, then rt_sem_take: it takes a count, or suspends.
Take(t, w) ==
    /\ pc[t] = "idle"
    /\ Cardinality(held[t]) < MaxHold
    /\ mode' = [mode EXCEPT ![t] = w]
    /\ chn' = [chn EXCEPT ![t] = NChannels]
    /\ \/ /\ sem > 0
          /\ sem' = sem - 1
          /\ Goto(t, "permit")
          /\ UNCHANGED waitq
       \/ /\ sem = 0
          /\ waitq' = Append(waitq, t)
          /\ Goto(t, "wait")
          /\ UNCHANGED sem
    /\ UNCHANGED <<mutex, used, name, idx, held>>

\* Fault: a refusal of an infinite wait.
TimeOutAlways(t) ==
    /\ pc[t] = "wait"
    /\ \E i \in 1 .. Len(waitq) :
          waitq[i] = t /\ waitq' = RemoveAt(waitq, i)
    /\ mode' = [mode EXCEPT ![t] = "none"]
    /\ Goto(t, "idle")
    /\ UNCHANGED <<sem, mutex, used, name, idx, chn, held>>

\* The thread timer fires: the thread leaves the list, -RT_ETIMEOUT returns.
TimeOut(t) ==
    /\ pc[t] = "wait"
    /\ mode[t] = "finite"
    /\ \E i \in 1 .. Len(waitq) :
          /\ waitq[i] = t
          /\ waitq' = RemoveAt(waitq, i)
    /\ mode' = [mode EXCEPT ![t] = "none"]
    /\ Goto(t, "idle")
    /\ UNCHANGED <<sem, mutex, used, name, idx, chn, held>>

\* Fault: the search runs without the mutex.
LockNothing(t) ==
    /\ pc[t] = "permit"
    /\ idx' = [idx EXCEPT ![t] = 0]
    /\ Goto(t, "scan")
    /\ UNCHANGED <<sem, waitq, mutex, used, name, mode, chn, held>>

LockMutex(t) ==
    /\ pc[t] = "permit"
    /\ mutex = NoThread
    /\ mutex' = t
    /\ idx' = [idx EXCEPT ![t] = 0]
    /\ Goto(t, "scan")
    /\ UNCHANGED <<sem, waitq, used, name, mode, chn, held>>

\* One turn of the search loop: channel i is free, or i moves on.
Scan(t) ==
    /\ pc[t] = "scan"
    /\ \/ /\ used[idx[t]] = 0
          /\ Goto(t, "claim")
          /\ UNCHANGED idx
       \/ /\ used[idx[t]] # 0
          /\ idx' = [idx EXCEPT ![t] = @ + 1]
          /\ Goto(t, IF idx[t] + 1 < NChannels THEN "scan" ELSE "unlock")
    /\ UNCHANGED <<sem, waitq, mutex, used, name, mode, chn, held>>

\* The body of the if, then break.
Claim(t) ==
    /\ pc[t] = "claim"
    /\ used' = [used EXCEPT ![idx[t]] = 1]
    /\ name' = [name EXCEPT ![idx[t]] = t]
    /\ chn' = [chn EXCEPT ![t] = idx[t]]
    /\ Goto(t, "unlock")
    /\ UNCHANGED <<sem, waitq, mutex, mode, idx, held>>

\* rt_mutex_release and "return result" (RT_EOK): the client owns *chn.
UnlockMutex(t) ==
    /\ pc[t] = "unlock"
    /\ mutex' = NoThread
    /\ held' = [held EXCEPT ![t] = @ \cup ({chn[t]} \cap Channels)]
    /\ mode' = [mode EXCEPT ![t] = "none"]
    /\ Goto(t, "idle")
    /\ UNCHANGED <<sem, waitq, used, name, idx, chn>>

----------------------------------------------------------------------------
(* dmalock_release: DMAC_CHANNEL_MAX is refused (a held channel is never   *)
(* that), then three stores, none of them under the mutex.                 *)

ReleaseName(t, c) ==
    /\ pc[t] = "idle"
    /\ c \in held[t]
    /\ held' = [held EXCEPT ![t] = @ \ {c}]
    /\ chn' = [chn EXCEPT ![t] = c]
    /\ name' = [name EXCEPT ![c] = NoThread]
    /\ Goto(t, "clear")
    /\ UNCHANGED <<sem, waitq, mutex, used, mode, idx>>

ReleaseUsed(t) ==
    /\ pc[t] = "clear"
    /\ used' = [used EXCEPT ![chn[t]] = 0]
    /\ Goto(t, "post")
    /\ UNCHANGED <<sem, waitq, mutex, name, mode, idx, chn, held>>

\* Faults: a waiter woken and the count raised as well; the semaphore
\* forgotten.
ReleaseSemTwice(t) ==
    /\ pc[t] = "post"
    /\ sem' = sem + 1
    /\ waitq' = IF waitq = <<>> THEN <<>> ELSE Tail(waitq)
    /\ pc' = IF waitq = <<>> THEN [pc EXCEPT ![t] = "idle"]
             ELSE [pc EXCEPT ![t] = "idle", ![Head(waitq)] = "permit"]
    /\ UNCHANGED <<mutex, used, name, mode, idx, chn, held>>

ReleaseSemForgotten(t) ==
    /\ pc[t] = "post"
    /\ Goto(t, "idle")
    /\ UNCHANGED <<sem, waitq, mutex, used, name, mode, idx, chn, held>>

\* rt_sem_release: hand the count to the first waiter, or add it.
ReleaseSem(t) ==
    /\ pc[t] = "post"
    /\ \/ /\ waitq = <<>>
          /\ sem' = sem + 1
          /\ Goto(t, "idle")
          /\ UNCHANGED waitq
       \/ /\ waitq # <<>>
          /\ waitq' = Tail(waitq)
          /\ pc' = [pc EXCEPT ![t] = "idle", ![Head(waitq)] = "permit"]
          /\ UNCHANGED sem
    /\ UNCHANGED <<mutex, used, name, mode, idx, chn, held>>

----------------------------------------------------------------------------
Step(t) ==
    \/ LockMutex(t) \/ Scan(t) \/ Claim(t) \/ UnlockMutex(t)
    \/ ReleaseUsed(t) \/ ReleaseSem(t)

Next ==
    \E t \in Threads :
        \/ \E w \in Waits : Take(t, w)
        \/ TimeOut(t)
        \/ \E c \in Channels : ReleaseName(t, c)
        \/ Step(t)

Spec == Init /\ [][Next]_vars

(* Threads and the scheduler make progress; rt_mutex wakes its waiters in  *)
(* FIFO order, so a thread that keeps asking gets it (strong fairness);    *)
(* finite timeouts do expire; a client gives back what it took.            *)
Fairness ==
    \A t \in Threads :
        /\ WF_vars(Scan(t) \/ Claim(t) \/ UnlockMutex(t))
        /\ WF_vars(ReleaseUsed(t) \/ ReleaseSem(t))
        /\ SF_vars(LockMutex(t))
        /\ WF_vars(TimeOut(t))
        /\ WF_vars(\E c \in Channels : ReleaseName(t, c))

FairSpec == Spec /\ Fairness

----------------------------------------------------------------------------
(* Properties *)

\* The semaphore, the wait list, the two tables and what each call of dmalock.c
\* keeps on its stack stay in their ranges.
TypeOK ==
    /\ sem \in Nat
    /\ waitq \in Seq(Threads)
    /\ mutex \in Threads \cup {NoThread}
    /\ used \in [Channels -> {0, 1}]
    /\ name \in [Channels -> Threads \cup {NoThread}]
    /\ pc \in [Threads -> Labels]
    /\ mode \in [Threads -> Waits \cup {"none"}]
    /\ idx \in [Threads -> 0 .. NChannels]
    /\ chn \in [Threads -> 0 .. NChannels]
    /\ held \in [Threads -> SUBSET Channels]

\* A channel belongs to t from the store that claims it in the search to the
\* store of dmalock_release that frees it.
Owns(t, c) ==
    \/ c \in held[t]
    \/ pc[t] \in {"unlock", "clear"} /\ chn[t] = c

FreeChannels == {c \in Channels : used[c] = 0}
Searching    == {t \in Threads : pc[t] \in {"permit", "scan", "claim"}}
Posting      == {t \in Threads : pc[t] = "post"}

\* Two drivers never own the same DMA channel, although dmalock_release does
\* not take the mutex that _dmalock_sync_take searches under.
ExclusiveChannel ==
    \A t, u \in Threads : \A c \in Channels :
        Owns(t, c) /\ Owns(u, c) => t = u

\* _dmalock_sync_take never returns RT_EOK with *chn = DMAC_CHANNEL_MAX: the
\* search of lines 50-59 always finds a channel.  Drivers that wait forever
\* do not look at the result and program channel *chn at once.
EokHasChannel == \A t \in Threads : pc[t] = "unlock" => chn[t] \in Channels

\* No channel is lost and none is counted twice: the free entries of
\* channel_used are the semaphore count plus what is in flight between the
\* semaphore and the table, on the way in and on the way out.
Conservation ==
    Cardinality(FreeChannels) =
        sem + Cardinality(Searching) + Cardinality(Posting)

\* The name dma_ch_info prints for a channel a client holds is that client's,
\* never one a late dmalock_release erased.
NameOfHolder ==
    \A t \in Threads : \A c \in held[t] : used[c] = 1 /\ name[c] = t

\* Every call of _dmalock_sync_take returns, when clients give their channels
\* back: the FIFO hand-over of rt_sem_release starves nobody.
TakeReturns == \A t \in Threads : mode[t] # "none" ~> mode[t] = "none"

\* dmalock implements the abstract pool of channels.
Pool == INSTANCE DmaPool WITH holds <- held, asking <- mode
ImplementsPool == Pool!PoolSpec
=============================================================================
