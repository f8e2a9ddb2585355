--------------------------- MODULE DmaLockProofs ---------------------------
(***************************************************************************)
(* Proofs about DmaLock, for any finite set of threads and any number of   *)
(* channels: type correctness, the safety invariants of the allocator and  *)
(* the implementation of DmaPool.                                          *)
(***************************************************************************)
EXTENDS DmaLock, FiniteSetTheorems, SequenceTheorems, TLAPS

----------------------------------------------------------------------------
(* The inductive invariant *)

\* The wait queue holds exactly once each thread suspended on the semaphore,
\* and a timeout argument is pending exactly during a take.
QueueInv ==
    /\ \A i \in 1 .. Len(waitq) : pc[waitq[i]] = "wait"
    /\ \A i, j \in 1 .. Len(waitq) : waitq[i] = waitq[j] => i = j
    /\ \A t \in Threads :
          pc[t] \in {"idle", "clear", "post"} <=> mode[t] = "none"

\* The mutex owner is the thread in the search; ahead of it in the table there
\* is a free channel, because only the searcher makes channels used.
SearchInv ==
    /\ \A t \in Threads :
          pc[t] \in {"scan", "claim", "unlock"} <=> mutex = t
    /\ \A t \in Threads : pc[t] = "scan" =>
          \E c \in Channels : c >= idx[t] /\ used[c] = 0
    /\ \A t \in Threads : pc[t] = "claim" =>
          idx[t] \in Channels /\ used[idx[t]] = 0

\* Owners: their channels are marked used, are theirs alone, and carry their
\* name until they start giving them back.
OwnerInv ==
    /\ \A t \in Threads : pc[t] \in {"unlock", "clear"} =>
          /\ chn[t] \in Channels
          /\ chn[t] \notin held[t]
          /\ used[chn[t]] = 1
          /\ pc[t] = "unlock" => name[chn[t]] = t
    /\ NameOfHolder
    /\ ExclusiveChannel

IInv == TypeOK /\ QueueInv /\ SearchInv /\ OwnerInv /\ Conservation

----------------------------------------------------------------------------
(* Facts about the operators of the model *)

\* Taking one element out of the wait queue keeps the others in order.
LEMMA RemoveAtFacts ==
    ASSUME NEW S, NEW q \in Seq(S), NEW i \in 1 .. Len(q)
    PROVE  /\ RemoveAt(q, i) \in Seq(S)
           /\ Len(RemoveAt(q, i)) = Len(q) - 1
           /\ \A j \in 1 .. Len(q) - 1 :
                RemoveAt(q, i)[j] = IF j < i THEN q[j] ELSE q[j + 1]
<1> DEFINE a == SubSeq(q, 1, i - 1)
           b == SubSeq(q, i + 1, Len(q))
<1>1. /\ a \in Seq(S) /\ Len(a) = i - 1
      /\ \A j \in 1 .. i - 1 : a[j] = q[j]
  BY SubSeqProperties
<1>2. /\ b \in Seq(S) /\ Len(b) = Len(q) - i
      /\ \A j \in 1 .. Len(q) - i : b[j] = q[j + i]
  BY SubSeqProperties
<1>3. /\ a \o b \in Seq(S)
      /\ Len(a \o b) = Len(a) + Len(b)
      /\ \A j \in 1 .. Len(a) + Len(b) :
            (a \o b)[j] = IF j <= Len(a) THEN a[j] ELSE b[j - Len(a)]
  BY <1>1, <1>2, ConcatProperties
<1> DEFINE r == a \o b
<1>4. RemoveAt(q, i) = r
  BY DEF RemoveAt
<1> HIDE DEF r, a, b
<1>5. r \in Seq(S) /\ Len(r) = Len(q) - 1
  BY <1>1, <1>2, <1>3 DEF r
<1>6. ASSUME NEW j \in 1 .. Len(q) - 1
      PROVE  r[j] = IF j < i THEN q[j] ELSE q[j + 1]
  <2>1. r[j] = IF j <= i - 1 THEN a[j] ELSE b[j - (i - 1)]
    BY <1>1, <1>2, <1>3 DEF r
  <2>2. CASE j < i
    BY <2>1, <2>2, <1>1
  <2>3. CASE ~(j < i)
    <3>1. j - (i - 1) \in 1 .. Len(q) - i /\ (j - (i - 1)) + i = j + 1
      BY <2>3
    <3> QED BY <3>1, <2>1, <2>3, <1>2
  <2> QED BY <2>2, <2>3
<1> QED BY <1>4, <1>5, <1>6

\* The channel table and the thread set are finite, so their parts are too.
LEMMA Finite ==
    /\ \A S \in SUBSET Threads : IsFiniteSet(S) /\ Cardinality(S) \in Nat
    /\ \A S \in SUBSET Channels : IsFiniteSet(S) /\ Cardinality(S) \in Nat
<1>1. IsFiniteSet(Threads)
  BY DmaLockAssumption
<1>2. IsFiniteSet(Channels)
  <2>1. 0 \in Int /\ NChannels - 1 \in Int
    BY DmaLockAssumption
  <2> QED BY <2>1, FS_Interval DEF Channels
<1> QED BY <1>1, <1>2, FS_Subset, FS_CardinalityType

\* One thread enters or leaves a phase: the phase's size changes by one.
LEMMA CardAdd ==
    ASSUME NEW A, NEW B, NEW x, IsFiniteSet(A), x \notin A, B = A \cup {x}
    PROVE  Cardinality(B) = Cardinality(A) + 1
  BY FS_AddElement

\* The three sets the channel accounting counts are finite.
LEMMA PhaseCards ==
    /\ IsFiniteSet(FreeChannels) /\ Cardinality(FreeChannels) \in Nat
    /\ IsFiniteSet(Searching) /\ Cardinality(Searching) \in Nat
    /\ IsFiniteSet(Posting) /\ Cardinality(Posting) \in Nat
  BY Finite DEF FreeChannels, Searching, Posting

----------------------------------------------------------------------------
(* Each action preserves each part of the inductive invariant *)

(* After dmalock_init every channel is free and no thread is in a call. *)
LEMMA InitInv == Init => IInv
<1> SUFFICES ASSUME Init PROVE IInv
  OBVIOUS
<1>1. TypeOK
  BY DmaLockAssumption DEF DmaLockAssumption, Init, TypeOK, Channels, Labels, Waits
<1>2. QueueInv
  BY DEF Init, QueueInv
<1>3. SearchInv
  BY DmaLockAssumption DEF DmaLockAssumption, Init, SearchInv
<1>4. OwnerInv
  BY DEF Init, OwnerInv, NameOfHolder, ExclusiveChannel, Owns
<1>5. Conservation
  <2>1. FreeChannels = Channels /\ Searching = {} /\ Posting = {}
    BY DEF Init, FreeChannels, Searching, Posting
  <2>2. Cardinality(Channels) = NChannels
    <3>1. 0 \in Int /\ NChannels - 1 \in Int
      BY DmaLockAssumption DEF DmaLockAssumption
    <3>2. Cardinality(0 .. NChannels - 1) =
            IF 0 > NChannels - 1 THEN 0 ELSE (NChannels - 1) - 0 + 1
      BY <3>1, FS_Interval
    <3> QED BY <3>2, DmaLockAssumption DEF DmaLockAssumption, Channels
  <2> QED BY <2>1, <2>2, FS_EmptySet, DmaLockAssumption
          DEF DmaLockAssumption, Init, Conservation
<1> QED BY <1>1, <1>2, <1>3, <1>4, <1>5 DEF IInv

\* rt_sem_take: a count in hand or a place in the queue.
LEMMA TakeInv ==
    ASSUME IInv, NEW t \in Threads, NEW w \in Waits, Take(t, w)
    PROVE  IInv'
<1> USE DmaLockAssumption DEF DmaLockAssumption, IInv
<1>0. \/ sem > 0 /\ sem' = sem - 1 /\ Goto(t, "permit") /\ waitq' = waitq
      \/ sem = 0 /\ sem' = sem /\ Goto(t, "wait") /\ waitq' = Append(waitq, t)
  BY DEF Take
<1>1. TypeOK'
  <2>1. sem' \in Nat
    BY <1>0 DEF TypeOK
  <2>2. waitq' \in Seq(Threads)
    <3>1. waitq \in Seq(Threads)
      BY DEF TypeOK
    <3>2. Append(waitq, t) \in Seq(Threads)
      BY <3>1, AppendProperties
    <3> QED BY <1>0, <3>1, <3>2
  <2>3. pc' \in [Threads -> Labels]
    BY <1>0 DEF TypeOK, Goto, Labels
  <2>4. chn' \in [Threads -> 0 .. NChannels] /\ mode' \in [Threads -> Waits \cup {"none"}]
    BY DEF TypeOK, Take
  <2>5. UNCHANGED <<mutex, used, name, idx, held>>
    BY DEF Take
  <2> QED BY <2>1, <2>2, <2>3, <2>4, <2>5 DEF TypeOK
<1>2. QueueInv'
  <2>1. CASE waitq' = waitq /\ Goto(t, "permit")
    BY <2>1 DEF TypeOK, Take, Goto, QueueInv, Waits
  <2>2. CASE waitq' = Append(waitq, t) /\ Goto(t, "wait")
    <3>1. /\ Len(waitq') = Len(waitq) + 1
          /\ \A i \in 1 .. Len(waitq) : waitq'[i] = waitq[i] /\ waitq[i] \in Threads
          /\ waitq'[Len(waitq) + 1] = t
      BY <2>2, AppendProperties DEF TypeOK
    <3>2. \A i \in 1 .. Len(waitq) : waitq[i] # t
      BY DEF QueueInv, Take
    <3>3. \A i \in 1 .. Len(waitq') : pc'[waitq'[i]] = "wait"
      BY <2>2, <3>1, <3>2 DEF TypeOK, Goto, QueueInv
    <3>4. ASSUME NEW i \in 1 .. Len(waitq'), NEW j \in 1 .. Len(waitq'),
                 waitq'[i] = waitq'[j]
          PROVE  i = j
      <4>1. \A k \in 1 .. Len(waitq') : k \in 1 .. Len(waitq) \/ k = Len(waitq) + 1
        <5>1. Len(waitq) \in Nat
          BY DEF TypeOK
        <5> QED BY <3>1, <5>1
      <4>2. \A k, l \in 1 .. Len(waitq) : waitq[k] = waitq[l] => k = l
        BY DEF QueueInv
      <4> QED BY <3>1, <3>2, <3>4, <4>1, <4>2
    <3> QED BY <2>2, <3>3, <3>4 DEF TypeOK, Take, Goto, QueueInv, Waits
  <2> QED BY <1>0, <2>1, <2>2
<1>3. SearchInv'
  BY DEF TypeOK, Take, Goto, SearchInv
<1>4. OwnerInv'
  BY DEF TypeOK, Take, Goto, OwnerInv, NameOfHolder, ExclusiveChannel, Owns
<1>5. Conservation'
  <2>1. FreeChannels' = FreeChannels /\ Posting' = Posting
    BY DEF TypeOK, Take, Goto, FreeChannels, Posting
  <2>2. CASE sem > 0 /\ sem' = sem - 1 /\ Goto(t, "permit")
    <3>1. t \notin Searching /\ Searching' = Searching \cup {t}
      BY <2>2 DEF TypeOK, Take, Goto, Searching
    <3>2. Cardinality(Searching') = Cardinality(Searching) + 1
      BY <3>1, PhaseCards, CardAdd
    <3> HIDE DEF IInv
    <3>3. Conservation /\ sem \in Nat
      BY DEF IInv, TypeOK
    <3> QED BY <2>1, <2>2, <3>2, <3>3, PhaseCards DEF Conservation
  <2>3. CASE sem = 0 /\ Goto(t, "wait") /\ sem' = sem
    <3>1. Searching' = Searching
      BY <2>3 DEF TypeOK, Take, Goto, Searching
    <3> QED BY <2>1, <2>3, <3>1 DEF Conservation
  <2> QED BY <2>2, <2>3 DEF Take
<1> QED BY <1>1, <1>2, <1>3, <1>4, <1>5

\* An expired wait leaves the queue and touches no channel.
LEMMA TimeOutInv ==
    ASSUME IInv, NEW t \in Threads, TimeOut(t)
    PROVE  IInv'
<1> USE DmaLockAssumption DEF DmaLockAssumption, IInv
<1>0. PICK k \in 1 .. Len(waitq) : waitq[k] = t /\ waitq' = RemoveAt(waitq, k)
  BY DEF TimeOut
<1>a. /\ waitq \in Seq(Threads)
      /\ waitq' \in Seq(Threads)
      /\ Len(waitq') = Len(waitq) - 1
      /\ \A j \in 1 .. Len(waitq) - 1 :
            waitq'[j] = IF j < k THEN waitq[j] ELSE waitq[j + 1]
  <2> HIDE DEF IInv
  <2>1. waitq \in Seq(Threads)
    BY DEF IInv, TypeOK
  <2>2. /\ RemoveAt(waitq, k) \in Seq(Threads)
        /\ Len(RemoveAt(waitq, k)) = Len(waitq) - 1
        /\ \A j \in 1 .. Len(waitq) - 1 : RemoveAt(waitq, k)[j] =
              IF j < k THEN waitq[j] ELSE waitq[j + 1]
    BY <2>1, RemoveAtFacts
  <2> QED BY <1>0, <2>1, <2>2, Zenon
<1>1. TypeOK'
  BY <1>a DEF TypeOK, TimeOut, Goto, Labels
<1>2. QueueInv'
  <2>1. \A i \in 1 .. Len(waitq) : i # k => waitq[i] # t
    BY <1>0 DEF QueueInv
  <2>2. ASSUME NEW j \in 1 .. Len(waitq')
        PROVE  \E i \in 1 .. Len(waitq) :
                 i # k /\ waitq'[j] = waitq[i] /\ i = (IF j < k THEN j ELSE j + 1)
    BY <1>a
  <2>3. \A i \in 1 .. Len(waitq') : pc'[waitq'[i]] = "wait"
    <3> SUFFICES ASSUME NEW j \in 1 .. Len(waitq') PROVE pc'[waitq'[j]] = "wait"
      OBVIOUS
    <3>1. PICK i \in 1 .. Len(waitq) : i # k /\ waitq'[j] = waitq[i]
      BY <2>2
    <3>2. pc[waitq[i]] = "wait" /\ waitq[i] # t /\ waitq[i] \in Threads
      BY <3>1, <2>1, <1>a DEF QueueInv
    <3> QED BY <3>1, <3>2 DEF TimeOut, Goto, TypeOK
  <2>4. \A i, j \in 1 .. Len(waitq') : waitq'[i] = waitq'[j] => i = j
    <3>1. \A i, j \in 1 .. Len(waitq) : waitq[i] = waitq[j] => i = j
      BY DEF QueueInv
    <3> SUFFICES ASSUME NEW i \in 1 .. Len(waitq'), NEW j \in 1 .. Len(waitq'),
                        waitq'[i] = waitq'[j]
                 PROVE  i = j
      OBVIOUS
    <3>2. PICK m \in 1 .. Len(waitq) :
            waitq'[i] = waitq[m] /\ m = (IF i < k THEN i ELSE i + 1)
      BY <2>2
    <3>3. PICK n \in 1 .. Len(waitq) :
            waitq'[j] = waitq[n] /\ n = (IF j < k THEN j ELSE j + 1)
      BY <2>2
    <3>4. m = n
      BY <3>1, <3>2, <3>3
    <3> QED BY <3>2, <3>3, <3>4
  <2> QED BY <2>3, <2>4 DEF TypeOK, TimeOut, Goto, QueueInv
<1>3. SearchInv'
  BY DEF TypeOK, TimeOut, Goto, SearchInv
<1>4. OwnerInv'
  <2>1. /\ UNCHANGED <<chn, held, used, name>> /\ pc' = [pc EXCEPT ![t] = "idle"]
        /\ pc[t] = "wait" /\ pc \in [Threads -> Labels]
    BY DEF TypeOK, TimeOut, Goto
  <2>2. \A u \in Threads, l \in {"unlock", "clear"} : pc'[u] = l <=> pc[u] = l
    BY <2>1
  <2> QED BY <2>1, <2>2 DEF OwnerInv, NameOfHolder, ExclusiveChannel, Owns
<1>5. Conservation'
  <2>1. FreeChannels' = FreeChannels /\ Posting' = Posting /\ Searching' = Searching
    BY DEF TypeOK, TimeOut, Goto, FreeChannels, Posting, Searching
  <2> QED BY <2>1 DEF Conservation, TimeOut
<1> QED BY <1>1, <1>2, <1>3, <1>4, <1>5

\* A permit means a free channel, so the search starts with one ahead of it.
LEMMA LockMutexInv ==
    ASSUME IInv, NEW t \in Threads, LockMutex(t)
    PROVE  IInv'
<1> USE DmaLockAssumption DEF DmaLockAssumption, IInv
<1>1. TypeOK'
  BY DEF TypeOK, LockMutex, Goto, Labels
<1>2. QueueInv'
  BY DEF TypeOK, LockMutex, Goto, QueueInv
<1>3. SearchInv'
  <2>1. \E c \in Channels : used[c] = 0
    <3>1. t \in Searching
      BY DEF LockMutex, Searching
    <3>2. Cardinality(Searching) # 0
      BY <3>1, PhaseCards, FS_EmptySet
    <3>3. Cardinality(FreeChannels) # 0
      BY <3>2, PhaseCards DEF Conservation, TypeOK
    <3>4. FreeChannels # {}
      BY <3>3, FS_EmptySet
    <3> QED BY <3>4 DEF FreeChannels
  <2> QED BY <2>1 DEF TypeOK, LockMutex, Goto, SearchInv, Channels
<1>4. OwnerInv'
  BY DEF TypeOK, LockMutex, Goto, OwnerInv, NameOfHolder, ExclusiveChannel, Owns
<1>5. Conservation'
  <2>1. FreeChannels' = FreeChannels /\ Posting' = Posting /\ Searching' = Searching
    BY DEF TypeOK, LockMutex, Goto, FreeChannels, Posting, Searching
  <2> QED BY <2>1 DEF Conservation, LockMutex
<1> QED BY <1>1, <1>2, <1>3, <1>4, <1>5

\* The loop stops on a free channel before it runs off the table.
LEMMA ScanInv ==
    ASSUME IInv, NEW t \in Threads, Scan(t)
    PROVE  IInv'
<1> USE DmaLockAssumption DEF DmaLockAssumption, IInv
<1>0. idx[t] \in Channels /\ (used[idx[t]] # 0 => idx[t] + 1 < NChannels)
  <2>1. PICK c \in Channels : c >= idx[t] /\ used[c] = 0
    BY DEF Scan, SearchInv
  <2> QED BY <2>1 DEF TypeOK, Channels
<1>a. \/ /\ used[idx[t]] = 0
         /\ pc' = [pc EXCEPT ![t] = "claim"]
         /\ idx' = idx
      \/ /\ used[idx[t]] # 0
         /\ pc' = [pc EXCEPT ![t] = "scan"]
         /\ idx' = [idx EXCEPT ![t] = idx[t] + 1]
  BY <1>0 DEF Scan, Goto
<1>b. pc[t] = "scan" /\ UNCHANGED <<sem, waitq, mutex, used, name, mode, chn, held>>
  BY DEF Scan
<1>1. TypeOK'
  <2>1. pc' \in [Threads -> Labels]
    BY <1>a DEF TypeOK, Labels
  <2>2. used[idx[t]] # 0 => idx[t] + 1 \in 0 .. NChannels
    BY <1>0 DEF Channels
  <2>3. idx' \in [Threads -> 0 .. NChannels]
    BY <2>2, <1>a DEF TypeOK
  <2> QED BY <2>1, <2>3, <1>b DEF TypeOK
<1>2. QueueInv'
  <2>1. \A i \in 1 .. Len(waitq) : waitq[i] # t
    BY <1>b DEF QueueInv
  <2>2. \A u \in Threads : u # t => pc'[u] = pc[u]
    BY <1>a DEF TypeOK
  <2>3. pc'[t] \in {"scan", "claim"}
    BY <1>a DEF TypeOK
  <2>4. \A i \in 1 .. Len(waitq) : waitq[i] \in Threads
    BY DEF TypeOK
  <2> QED BY <2>1, <2>2, <2>3, <2>4, <1>b DEF QueueInv
<1>3. SearchInv'
  <2>1. CASE used[idx[t]] = 0 /\ pc' = [pc EXCEPT ![t] = "claim"] /\ idx' = idx
    BY <1>0, <1>b, <2>1 DEF TypeOK, SearchInv
  <2>2. CASE /\ used[idx[t]] # 0
             /\ pc' = [pc EXCEPT ![t] = "scan"]
             /\ idx' = [idx EXCEPT ![t] = idx[t] + 1]
    <3>1. PICK c \in Channels : c >= idx[t] /\ used[c] = 0
      BY <1>b DEF SearchInv
    <3>2. c >= idx[t] + 1
      BY <1>0, <2>2, <3>1 DEF Channels
    <3> QED BY <1>b, <2>2, <3>1, <3>2 DEF TypeOK, SearchInv
  <2> QED BY <1>a, <2>1, <2>2
<1>4. OwnerInv'
  <2>1. \A u \in Threads : pc'[u] = pc[u] \/ (u = t /\ pc'[u] \in {"scan", "claim"})
    BY <1>a DEF TypeOK
  <2>2. \A u \in Threads, c \in Channels : Owns(u, c)' <=> Owns(u, c)
    BY <1>b, <2>1 DEF Owns
  <2>3. ExclusiveChannel' /\ NameOfHolder'
    BY <1>b, <2>2 DEF OwnerInv, ExclusiveChannel, NameOfHolder
  <2> QED BY <1>b, <2>1, <2>3 DEF OwnerInv
<1>5. Conservation'
  <2>1. FreeChannels' = FreeChannels /\ Posting' = Posting /\ Searching' = Searching
    BY <1>0 DEF TypeOK, Scan, Goto, FreeChannels, Posting, Searching
  <2> QED BY <2>1 DEF Conservation, Scan
<1> QED BY <1>1, <1>2, <1>3, <1>4, <1>5

\* Claiming: the channel was free, so it was nobody's.
LEMMA ClaimInv ==
    ASSUME IInv, NEW t \in Threads, Claim(t)
    PROVE  IInv'
<1> USE DmaLockAssumption DEF DmaLockAssumption, IInv
<1> DEFINE c == idx[t]
<1>0. c \in Channels /\ used[c] = 0 /\ mutex = t /\ c \in 0 .. NChannels
  BY DEF Claim, SearchInv, Channels
<1>a. \A u \in Threads : ~Owns(u, c)
  BY <1>0 DEF OwnerInv, NameOfHolder, Owns
<1>1. TypeOK'
  BY <1>0 DEF TypeOK, Claim, Goto, Labels
<1>2. QueueInv'
  BY DEF TypeOK, Claim, Goto, QueueInv
<1>3. SearchInv'
  BY <1>0 DEF TypeOK, Claim, Goto, SearchInv
<1>4. OwnerInv'
  <2>1. \A u \in Threads : pc'[u] \in {"unlock", "clear"} =>
          /\ chn'[u] \in Channels
          /\ chn'[u] \notin held'[u]
          /\ used'[chn'[u]] = 1
          /\ pc'[u] = "unlock" => name'[chn'[u]] = u
    BY <1>0, <1>a DEF TypeOK, Claim, Goto, OwnerInv, Owns
  <2>2. NameOfHolder'
    BY <1>0, <1>a DEF TypeOK, Claim, Goto, OwnerInv, NameOfHolder, Owns
  <2>3. \A u \in Threads, d \in Channels : Owns(u, d)' <=> Owns(u, d) \/ (u = t /\ d = c)
    BY <1>0 DEF TypeOK, Claim, Goto, Owns
  <2>4. ExclusiveChannel'
    BY <1>a, <2>3 DEF OwnerInv, ExclusiveChannel
  <2> QED BY <2>1, <2>2, <2>4 DEF OwnerInv
<1>5. Conservation'
  <2>1. FreeChannels = FreeChannels' \cup {c} /\ c \notin FreeChannels'
    BY <1>0 DEF TypeOK, Claim, FreeChannels
  <2>2. Searching = Searching' \cup {t} /\ t \notin Searching'
    BY DEF TypeOK, Claim, Goto, Searching
  <2>3. Posting' = Posting /\ sem' = sem
    BY DEF TypeOK, Claim, Goto, Posting
  <2>4. /\ IsFiniteSet(FreeChannels') /\ Cardinality(FreeChannels') \in Nat
        /\ IsFiniteSet(Searching') /\ Cardinality(Searching') \in Nat
    BY Finite DEF FreeChannels, Searching
  <2>5. /\ Cardinality(FreeChannels) = Cardinality(FreeChannels') + 1
        /\ Cardinality(Searching) = Cardinality(Searching') + 1
    BY <2>1, <2>2, <2>4, CardAdd
  <2>6. Cardinality(FreeChannels) = sem + Cardinality(Searching) + Cardinality(Posting)
    BY DEF Conservation
  <2>7. sem \in Nat
    BY DEF TypeOK
  <2>8. Cardinality(FreeChannels') = sem + Cardinality(Searching') + Cardinality(Posting)
    <3> DEFINE f == Cardinality(FreeChannels)  g == Cardinality(FreeChannels')
               r == Cardinality(Searching)     q == Cardinality(Searching')
               p == Cardinality(Posting)
    <3>1. /\ {f, g, r, q, p, sem} \subseteq Nat
          /\ f = g + 1 /\ r = q + 1 /\ f = sem + r + p
      BY <2>4, <2>5, <2>6, <2>7, PhaseCards
    <3> HIDE DEF f, g, r, q, p
    <3>2. g = sem + q + p
      BY <3>1
    <3> QED BY <3>2 DEF g, q, p
  <2> QED BY <2>3, <2>8 DEF Conservation
<1> QED BY <1>1, <1>2, <1>3, <1>4, <1>5

\* Handing the channel over: what was claimed becomes held.
LEMMA UnlockMutexInv ==
    ASSUME IInv, NEW t \in Threads, UnlockMutex(t)
    PROVE  IInv'
<1> USE DmaLockAssumption DEF DmaLockAssumption, IInv
<1>0. /\ chn[t] \in Channels /\ chn[t] \notin held[t] /\ mutex = t
      /\ used[chn[t]] = 1 /\ name[chn[t]] = t
      /\ held' = [held EXCEPT ![t] = held[t] \cup {chn[t]}]
      /\ pc' = [pc EXCEPT ![t] = "idle"] /\ pc[t] = "unlock"
  <2>1. pc[t] = "unlock" /\ pc' = [pc EXCEPT ![t] = "idle"] /\ mutex = t
    BY DEF UnlockMutex, Goto, SearchInv
  <2>2. /\ chn[t] \in Channels /\ chn[t] \notin held[t]
        /\ used[chn[t]] = 1 /\ name[chn[t]] = t
    BY <2>1 DEF OwnerInv
  <2>3. {chn[t]} \cap Channels = {chn[t]}
    BY <2>2
  <2> QED BY <2>1, <2>2, <2>3 DEF UnlockMutex
<1>1. TypeOK'
  BY <1>0 DEF TypeOK, UnlockMutex, Labels
<1>2. QueueInv'
  <2>1. \A i \in 1 .. Len(waitq) : waitq[i] \in Threads /\ waitq[i] # t
    BY <1>0 DEF QueueInv, TypeOK
  <2>2. \A u \in Threads :
          /\ pc'[u] = IF u = t THEN "idle" ELSE pc[u]
          /\ mode'[u] = IF u = t THEN "none" ELSE mode[u]
    BY <1>0 DEF TypeOK, UnlockMutex
  <2>3. waitq' = waitq
    BY DEF UnlockMutex
  <2> QED BY <2>1, <2>2, <2>3 DEF QueueInv
<1>3. SearchInv'
  BY <1>0 DEF TypeOK, UnlockMutex, SearchInv
<1>4. OwnerInv'
  <2>1. \A u \in Threads, d \in Channels : Owns(u, d)' <=> Owns(u, d)
    BY <1>0 DEF TypeOK, UnlockMutex, Owns
  <2>2. ExclusiveChannel'
    BY <2>1 DEF OwnerInv, ExclusiveChannel
  <2>3. NameOfHolder'
    BY <1>0 DEF TypeOK, UnlockMutex, OwnerInv, NameOfHolder
  <2>4. \A u \in Threads : pc'[u] \in {"unlock", "clear"} => u # t /\ pc'[u] = pc[u]
    BY <1>0 DEF TypeOK
  <2> QED BY <1>0, <2>2, <2>3, <2>4 DEF TypeOK, UnlockMutex, OwnerInv
<1>5. Conservation'
  <2>1. FreeChannels' = FreeChannels /\ Posting' = Posting /\ Searching' = Searching
    BY DEF TypeOK, UnlockMutex, Goto, FreeChannels, Posting, Searching
  <2> QED BY <2>1 DEF Conservation, UnlockMutex
<1> QED BY <1>1, <1>2, <1>3, <1>4, <1>5

\* First store of a release: the channel leaves the client, still marked used.
LEMMA ReleaseNameInv ==
    ASSUME IInv, NEW t \in Threads, NEW c \in Channels, ReleaseName(t, c)
    PROVE  IInv'
<1> USE DmaLockAssumption DEF DmaLockAssumption, IInv
<1>0. /\ pc[t] = "idle" /\ pc' = [pc EXCEPT ![t] = "clear"]
      /\ c \in held[t] /\ held' = [held EXCEPT ![t] = held[t] \ {c}]
      /\ chn' = [chn EXCEPT ![t] = c]
      /\ name' = [name EXCEPT ![c] = NoThread]
      /\ UNCHANGED <<sem, waitq, mutex, used, mode, idx>>
  BY DEF ReleaseName, Goto
<1>1. TypeOK'
  <2>1. c \in 0 .. NChannels
    BY DEF Channels
  <2> QED BY <1>0, <2>1 DEF TypeOK, Labels
<1>2. QueueInv'
  <2>1. \A i \in 1 .. Len(waitq) : waitq[i] \in Threads /\ waitq[i] # t
    BY <1>0 DEF QueueInv, TypeOK
  <2> QED BY <1>0, <2>1 DEF TypeOK, QueueInv
<1>3. SearchInv'
  BY <1>0 DEF TypeOK, SearchInv
<1>4. OwnerInv'
  <2>1. \A u \in Threads : u # t => ~Owns(u, c)
    BY <1>0 DEF OwnerInv, ExclusiveChannel, Owns
  <2>2. \A u \in Threads, d \in Channels : Owns(u, d)' <=> Owns(u, d)
    BY <1>0 DEF TypeOK, Owns
  <2>3. ExclusiveChannel'
    BY <2>2 DEF OwnerInv, ExclusiveChannel
  <2>4. \A u \in Threads, d \in Channels : d \in held'[u] => d \in held[u] /\ d # c
    BY <1>0, <2>1 DEF TypeOK, Owns
  <2>5. NameOfHolder'
    <3> SUFFICES ASSUME NEW u \in Threads, NEW d \in held'[u]
                 PROVE  used'[d] = 1 /\ name'[d] = u
      BY DEF NameOfHolder
    <3>1. d \in Channels
      BY <1>1 DEF TypeOK
    <3>2. d \in held[u] /\ d # c
      BY <2>4, <3>1
    <3> QED BY <1>0, <3>1, <3>2 DEF TypeOK, OwnerInv, NameOfHolder
  <2>6. \A u \in Threads : pc'[u] \in {"unlock", "clear"} =>
          /\ chn'[u] \in Channels
          /\ chn'[u] \notin held'[u]
          /\ used'[chn'[u]] = 1
          /\ pc'[u] = "unlock" => name'[chn'[u]] = u
    <3> SUFFICES ASSUME NEW u \in Threads, pc'[u] \in {"unlock", "clear"}
                 PROVE  /\ chn'[u] \in Channels
                        /\ chn'[u] \notin held'[u]
                        /\ used'[chn'[u]] = 1
                        /\ pc'[u] = "unlock" => name'[chn'[u]] = u
      OBVIOUS
    <3>1. CASE u = t
      BY <1>0, <3>1 DEF TypeOK, OwnerInv, NameOfHolder
    <3>2. CASE u # t
      <4>1. pc'[u] = pc[u] /\ chn'[u] = chn[u] /\ held'[u] = held[u]
        BY <1>0, <3>2 DEF TypeOK
      <4>2. Owns(u, chn[u])
        BY <4>1 DEF Owns
      <4>3. chn[u] # c
        BY <2>1, <3>2, <4>2
      <4> QED BY <1>0, <4>1, <4>3 DEF TypeOK, OwnerInv
    <3> QED BY <3>1, <3>2
  <2> QED BY <2>3, <2>5, <2>6 DEF OwnerInv
<1>5. Conservation'
  <2>1. FreeChannels' = FreeChannels /\ Posting' = Posting /\ Searching' = Searching
    BY <1>0 DEF TypeOK, FreeChannels, Posting, Searching
  <2> QED BY <1>0, <2>1 DEF Conservation
<1> QED BY <1>1, <1>2, <1>3, <1>4, <1>5

\* Second store: a channel nobody owns any more becomes free, in the middle of
\* a search or not.
LEMMA ReleaseUsedInv ==
    ASSUME IInv, NEW t \in Threads, ReleaseUsed(t)
    PROVE  IInv'
<1> USE DmaLockAssumption DEF DmaLockAssumption, IInv
<1> DEFINE c == chn[t]
<1>0. /\ pc[t] = "clear" /\ pc' = [pc EXCEPT ![t] = "post"]
      /\ used' = [used EXCEPT ![c] = 0]
      /\ UNCHANGED <<sem, waitq, mutex, name, mode, idx, chn, held>>
  BY DEF ReleaseUsed, Goto
<1>a. c \in Channels /\ used[c] = 1 /\ c \notin held[t]
  BY <1>0 DEF OwnerInv
<1>b. \A u \in Threads : u # t => ~Owns(u, c)
  BY <1>0, <1>a DEF OwnerInv, ExclusiveChannel, Owns
<1> HIDE DEF c
<1>1. TypeOK'
  BY <1>0, <1>a DEF TypeOK, Labels
<1>2. QueueInv'
  <2>1. \A i \in 1 .. Len(waitq) : waitq[i] \in Threads /\ waitq[i] # t
    BY <1>0 DEF QueueInv, TypeOK
  <2> QED BY <1>0, <2>1 DEF TypeOK, QueueInv
<1>3. SearchInv'
  <2>1. \A d \in Channels : used[d] = 0 => used'[d] = 0
    BY <1>0, <1>a DEF TypeOK
  <2>2. \A u \in Threads : pc'[u] = pc[u] \/ (u = t /\ pc'[u] = "post")
    BY <1>0 DEF TypeOK
  <2> QED BY <1>0, <2>1, <2>2 DEF SearchInv
<1>4. OwnerInv'
  <2>1. \A u \in Threads, d \in Channels : Owns(u, d)' => Owns(u, d) /\ d # c
    BY <1>0, <1>a, <1>b DEF TypeOK, Owns
  <2>2. ExclusiveChannel'
    BY <2>1 DEF OwnerInv, ExclusiveChannel
  <2>3. NameOfHolder'
    <3> SUFFICES ASSUME NEW u \in Threads, NEW d \in held'[u]
                 PROVE  used'[d] = 1 /\ name'[d] = u
      BY DEF NameOfHolder
    <3>1. d \in held[u] /\ d \in Channels
      BY <1>0 DEF TypeOK
    <3>2. d # c
      BY <1>a, <1>b, <3>1 DEF Owns
    <3> QED BY <1>0, <3>1, <3>2 DEF TypeOK, OwnerInv, NameOfHolder
  <2>4. \A u \in Threads : pc'[u] \in {"unlock", "clear"} =>
          u # t /\ pc'[u] = pc[u] /\ chn[u] # c
    BY <1>0, <1>b DEF TypeOK, Owns
  <2> QED BY <1>0, <2>2, <2>3, <2>4 DEF TypeOK, OwnerInv
<1>5. Conservation'
  <2>1. FreeChannels' = FreeChannels \cup {c} /\ c \notin FreeChannels
    BY <1>0, <1>a DEF TypeOK, FreeChannels
  <2>2. Posting' = Posting \cup {t} /\ t \notin Posting
    BY <1>0 DEF TypeOK, Posting
  <2>3. Searching' = Searching /\ sem' = sem
    BY <1>0 DEF TypeOK, Searching
  <2>4. /\ Cardinality(FreeChannels') = Cardinality(FreeChannels) + 1
        /\ Cardinality(Posting') = Cardinality(Posting) + 1
    BY <2>1, <2>2, PhaseCards, CardAdd
  <2>5. Cardinality(FreeChannels) = sem + Cardinality(Searching) + Cardinality(Posting)
    BY DEF Conservation
  <2>6. sem \in Nat
    BY DEF TypeOK
  <2>7. Cardinality(FreeChannels') = sem' + Cardinality(Searching') + Cardinality(Posting')
    <3> HIDE DEF IInv
    <3> QED BY <2>3, <2>4, <2>5, <2>6, PhaseCards
  <2> QED BY <2>7 DEF Conservation
<1> QED BY <1>1, <1>2, <1>3, <1>4, <1>5

\* Third step: the freed channel's count goes to the first waiter or back.
LEMMA ReleaseSemInv ==
    ASSUME IInv, NEW t \in Threads, ReleaseSem(t)
    PROVE  IInv'
<1> USE DmaLockAssumption DEF DmaLockAssumption, IInv
<1>0. /\ pc[t] = "post"
      /\ UNCHANGED <<mutex, used, name, mode, idx, chn, held>>
  BY DEF ReleaseSem
<1>a. Posting = Posting' \cup {t} /\ t \notin Posting' /\ FreeChannels' = FreeChannels
  <2>1. waitq # <<>> => Head(waitq) # t /\ Head(waitq) \in Threads /\ pc[Head(waitq)] = "wait"
    BY <1>0 DEF QueueInv, TypeOK
  <2> QED BY <1>0, <2>1 DEF TypeOK, ReleaseSem, Goto, Posting, FreeChannels
<1>b. IsFiniteSet(Posting') /\ Cardinality(Posting') \in Nat
  BY Finite DEF Posting
<1>c. Cardinality(Posting) = Cardinality(Posting') + 1
  BY <1>a, <1>b, CardAdd
<1>d. /\ Cardinality(FreeChannels) = sem + Cardinality(Searching) + Cardinality(Posting)
      /\ sem \in Nat
  BY DEF Conservation, TypeOK
<1>1. CASE waitq = <<>>
  <2>0. sem' = sem + 1 /\ pc' = [pc EXCEPT ![t] = "idle"] /\ waitq' = waitq
    BY <1>1 DEF ReleaseSem, Goto
  <2>1. TypeOK'
    BY <1>0, <2>0 DEF TypeOK, Labels
  <2>2. QueueInv'
    <3>1. \A i \in 1 .. Len(waitq) : FALSE
      BY <1>1
    <3> QED BY <1>0, <2>0, <3>1 DEF TypeOK, QueueInv
  <2>3. SearchInv'
    BY <1>0, <2>0 DEF TypeOK, SearchInv
  <2>4. OwnerInv'
    BY <1>0, <2>0 DEF TypeOK, OwnerInv, NameOfHolder, ExclusiveChannel, Owns
  <2>5. Conservation'
    <3>1. Searching' = Searching
      BY <1>0, <2>0 DEF TypeOK, Searching
    <3> DEFINE f == Cardinality(FreeChannels)  r == Cardinality(Searching)
               p == Cardinality(Posting)       o == Cardinality(Posting')
    <3>2. /\ {f, r, p, o, sem} \subseteq Nat
          /\ p = o + 1 /\ f = sem + r + p
      BY <1>b, <1>c, <1>d, PhaseCards
    <3> HIDE DEF f, r, p, o
    <3>3. f = (sem + 1) + r + o
      BY <3>2
    <3> QED BY <1>a, <2>0, <3>1, <3>3 DEF Conservation, f, r, o
  <2> QED BY <2>1, <2>2, <2>3, <2>4, <2>5
<1>2. CASE waitq # <<>>
  <2> DEFINE h == Head(waitq)
  <2>0. /\ sem' = sem
        /\ waitq' = Tail(waitq)
        /\ pc' = [pc EXCEPT ![t] = "idle", ![h] = "permit"]
    BY <1>2 DEF ReleaseSem
  <2>a. /\ waitq \in Seq(Threads) /\ h = waitq[1] /\ 1 \in 1 .. Len(waitq)
        /\ h \in Threads
        /\ Tail(waitq) \in Seq(Threads)
        /\ Len(Tail(waitq)) = Len(waitq) - 1
        /\ \A i \in 1 .. Len(Tail(waitq)) : Tail(waitq)[i] = waitq[i + 1]
    BY <1>2, HeadTailProperties DEF TypeOK
  <2>b. pc[h] = "wait" /\ h # t
    BY <2>a, <1>0 DEF QueueInv
  <2> HIDE DEF h
  <2>c. \A u \in Threads :
          pc'[u] = IF u = t THEN "idle" ELSE IF u = h THEN "permit" ELSE pc[u]
    BY <2>0, <2>a, <2>b DEF TypeOK
  <2>1. TypeOK'
    BY <1>0, <2>0, <2>a DEF TypeOK, Labels
  <2>2. QueueInv'
    <3>1. \A i \in 1 .. Len(waitq') : i + 1 \in 1 .. Len(waitq) /\ waitq'[i] = waitq[i + 1]
      BY <2>0, <2>a
    <3>2. \A i \in 1 .. Len(waitq) :
            /\ waitq[i] \in Threads /\ pc[waitq[i]] = "wait" /\ waitq[i] # t
            /\ i # 1 => waitq[i] # h
      BY <1>0, <2>a DEF QueueInv
    <3>3. \A i \in 1 .. Len(waitq') : pc'[waitq'[i]] = "wait"
      BY <2>c, <3>1, <3>2
    <3>4. \A i, j \in 1 .. Len(waitq') : waitq'[i] = waitq'[j] => i = j
      <4> SUFFICES ASSUME NEW i \in 1 .. Len(waitq'), NEW j \in 1 .. Len(waitq'),
                          waitq'[i] = waitq'[j]
                   PROVE  i = j
        OBVIOUS
      <4>1. i + 1 = j + 1
        BY <3>1 DEF QueueInv
      <4> QED BY <4>1
    <3> QED BY <1>0, <2>b, <2>c, <3>3, <3>4 DEF QueueInv
  <2>3. SearchInv'
    BY <1>0, <2>b, <2>c DEF SearchInv
  <2>4. OwnerInv'
    <3>1. \A u \in Threads : pc'[u] = pc[u] \/
            (pc'[u] \in {"idle", "permit"} /\ pc[u] \in {"post", "wait"})
      BY <1>0, <2>b, <2>c
    <3>2. \A u \in Threads, d \in Channels : Owns(u, d)' <=> Owns(u, d)
      BY <1>0, <3>1 DEF Owns
    <3>3. ExclusiveChannel' /\ NameOfHolder'
      BY <1>0, <3>2 DEF OwnerInv, ExclusiveChannel, NameOfHolder
    <3> QED BY <1>0, <3>1, <3>3 DEF OwnerInv
  <2>5. Conservation'
    <3>1. Searching' = Searching \cup {h} /\ h \notin Searching
      BY <1>0, <2>a, <2>b, <2>c DEF Searching
    <3>2. Cardinality(Searching') = Cardinality(Searching) + 1
      BY <3>1, PhaseCards, CardAdd
    <3> DEFINE f == Cardinality(FreeChannels)  r == Cardinality(Searching)
               p == Cardinality(Posting)       o == Cardinality(Posting')
    <3>3. /\ {f, r, p, o, sem} \subseteq Nat
          /\ p = o + 1 /\ f = sem + r + p
      BY <1>b, <1>c, <1>d, PhaseCards
    <3> HIDE DEF f, r, p, o
    <3>4. f = sem + (r + 1) + o
      BY <3>3
    <3> QED BY <1>a, <2>0, <3>2, <3>4 DEF Conservation, f, r, o
  <2> QED BY <2>1, <2>2, <2>3, <2>4, <2>5
<1> QED BY <1>1, <1>2

----------------------------------------------------------------------------
(* The theorems *)

\* The inductive invariant is an invariant of the allocator.
LEMMA Inductive == Spec => []IInv
<1>1. IInv /\ [Next]_vars => IInv'
  <2> SUFFICES ASSUME IInv, [Next]_vars PROVE IInv'
    OBVIOUS
  <2>1. CASE UNCHANGED vars
    BY <2>1 DEF vars, IInv, TypeOK, QueueInv, SearchInv, OwnerInv, Conservation,
                NameOfHolder, ExclusiveChannel, Owns, FreeChannels, Searching, Posting
  <2>2. CASE Next
    BY <2>2, TakeInv, TimeOutInv, LockMutexInv, ScanInv, ClaimInv, UnlockMutexInv,
       ReleaseNameInv, ReleaseUsedInv, ReleaseSemInv DEF Next, Step
  <2> QED BY <2>1, <2>2
<1> QED BY InitInv, <1>1, PTL DEF Spec

\* Every variable of the allocator keeps its type, for any number of threads
\* and channels.
THEOREM TypeCorrect == Spec => []TypeOK
  BY Inductive, PTL DEF IInv

\* No two threads ever own the same DMA channel, although dmalock_release
\* stores without the mutex of the search.
THEOREM ChannelsExclusive == Spec => []ExclusiveChannel
<1>1. IInv => ExclusiveChannel
  BY DEF IInv, OwnerInv
<1> QED BY Inductive, <1>1, PTL

\* _dmalock_sync_take never returns RT_EOK without a channel.
THEOREM TakeGivesChannel == Spec => []EokHasChannel
<1>1. IInv => EokHasChannel
  BY DEF IInv, OwnerInv, EokHasChannel
<1> QED BY Inductive, <1>1, PTL

\* Channels are conserved between the table and the semaphore.
THEOREM ChannelsConserved == Spec => []Conservation
  BY Inductive, PTL DEF IInv

\* The channel a client holds stays marked used under that client's name.
THEOREM NamesOfHolders == Spec => []NameOfHolder
<1>1. IInv => NameOfHolder
  BY DEF IInv, OwnerInv
<1> QED BY Inductive, <1>1, PTL

\* dmalock.c implements the abstract pool: each call is answered once, with a
\* channel nobody holds or, for a finite timeout only, with a refusal.
THEOREM Refinement == Spec => ImplementsPool
<1> USE DEF Pool!Waits, Waits
<1>1. Init => Pool!PoolInit
  BY DEF Init, Pool!PoolInit
<1>2. IInv /\ [Next]_vars => [Pool!PoolNext]_(Pool!poolVars)
  <2> SUFFICES ASSUME IInv, [Next]_vars
               PROVE  Pool!PoolNext \/ UNCHANGED <<held, mode>>
    BY DEF Pool!poolVars
  <2> USE DEF IInv
  <2>1. CASE UNCHANGED vars
    BY <2>1 DEF vars
  <2>2. ASSUME NEW t \in Threads, NEW w \in Waits, Take(t, w)
        PROVE  Pool!PoolNext
    <3>1. Pool!Ask(t, w)
      BY <2>2 DEF Take, Pool!Ask, QueueInv
    <3> QED BY <3>1 DEF Pool!PoolNext
  <2>3. ASSUME NEW t \in Threads, TimeOut(t)
        PROVE  Pool!PoolNext
    <3>1. Pool!Refuse(t)
      BY <2>3 DEF TimeOut, Pool!Refuse
    <3> QED BY <3>1 DEF Pool!PoolNext
  <2>4. ASSUME NEW t \in Threads, NEW c \in Channels, ReleaseName(t, c)
        PROVE  Pool!PoolNext
    <3>1. Pool!GiveBack(t, c)
      BY <2>4 DEF ReleaseName, Pool!GiveBack, QueueInv
    <3> QED BY <3>1 DEF Pool!PoolNext
  <2>5. ASSUME NEW t \in Threads, UnlockMutex(t)
        PROVE  Pool!PoolNext
    <3>1. pc[t] = "unlock" /\ chn[t] \in Channels /\ chn[t] \notin held[t]
      BY <2>5 DEF UnlockMutex, OwnerInv
    <3>2. \A u \in Threads : chn[t] \notin held[u]
      BY <3>1 DEF OwnerInv, ExclusiveChannel, Owns
    <3>3. held' = [held EXCEPT ![t] = held[t] \cup {chn[t]}]
      <4>1. {chn[t]} \cap Channels = {chn[t]}
        BY <3>1
      <4> QED BY <2>5, <4>1 DEF UnlockMutex
    <3>4. mode[t] \in Waits
      BY <3>1 DEF QueueInv, TypeOK
    <3>5. Pool!Grant(t, chn[t])
      BY <2>5, <3>2, <3>3, <3>4 DEF UnlockMutex, Pool!Grant
    <3> QED BY <3>1, <3>5 DEF Pool!PoolNext
  <2>6. ASSUME NEW t \in Threads,
               LockMutex(t) \/ Scan(t) \/ Claim(t) \/ ReleaseUsed(t) \/ ReleaseSem(t)
        PROVE  UNCHANGED <<held, mode>>
    BY <2>6 DEF LockMutex, Scan, Claim, ReleaseUsed, ReleaseSem
  <2> QED BY <2>1, <2>2, <2>3, <2>4, <2>5, <2>6 DEF Next, Step
<1> QED BY <1>1, <1>2, Inductive, PTL DEF Spec, ImplementsPool, Pool!PoolSpec

=============================================================================
