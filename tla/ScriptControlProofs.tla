------------------------ MODULE ScriptControlProofs ------------------------
(***************************************************************************)
(* Proofs about ScriptControl for any scripts, any number of chunks and    *)
(* any behaviour of host, user and scripts.  The invariant follows a text  *)
(* through the buffer: the chunks within the length of the buffer belong   *)
(* to one script, the one that is being received unless SCRIPT_EXEC has    *)
(* not reset the length yet, and with the chunks to come are no more than  *)
(* one script has.  A chunk that passed the test of script_running is on   *)
(* its way while the flag is down; so a text that is read with the flag up *)
(* is not written to.                                                      *)
(***************************************************************************)
EXTENDS ScriptControl, SequenceTheorems, TLAPS

\* Places of the debug thread: before the test of a chunk, between the loads of the
\* counters and the use of them, and past the test until script_running is set.
Waiting == {"data", "gotLength", "gotBytes", "got"}
Loaded == {"gotBytes", "got", "append", "count"}
PastTest == {"append", "count", "store", "compare", "accept", "accept2"}

BufInv ==
    /\ \A i, j \in 1 .. len : mem[i] = mem[j]
    /\ \A i \in 1 .. len : mem[i] \in Scripts
    /\ dbg \notin {"exec1", "exec2"} =>
         /\ \A i \in 1 .. len : mem[i] = up
         /\ len + left <= NChunks
    /\ dbg = "append" => len + left < NChunks /\ up \in Scripts
    /\ left > 0 => up \in Scripts
    /\ dbg \in Waiting \cup {"exec1", "exec2"} => left > 0

\* usbdbg_init may clear xfer_bytes after it was loaded, and nothing else changes it.
CountInv ==
    /\ dbg \in Loaded => xfer_bytes \in {seenBytes, 0}
    /\ dbg = "count" => Size >= 0

\* The text while it is read: what was in the buffer, and nobody writes there.
LexInv ==
    /\ dbg \in PastTest => ~running
    /\ main = "lex" /\ ~opened =>
         /\ running \/ dbg = "accept2"
         /\ ~moved
         /\ \A i, j \in 1 .. lexLen : mem[i] = mem[j]
         /\ \A i \in 1 .. Len(text) : text[i] = mem[i]
    /\ OneScriptText

IInv == TypeOK /\ BufInv /\ CountInv /\ LexInv

\* The types one by one, as the provers take them.
LEMMA Types ==
    ASSUME TypeOK
    PROVE  /\ ready \in BOOLEAN /\ running \in BOOLEAN /\ pending \in BOOLEAN
           /\ isMain \in BOOLEAN /\ asked \in BOOLEAN /\ moved \in BOOLEAN /\ opened \in BOOLEAN
           /\ mem \in [1 .. NChunks -> Scripts \cup {None}]
           /\ len \in 0 .. NChunks /\ lexLen \in 0 .. NChunks /\ left \in 0 .. NChunks
           /\ xfer_bytes \in 0 .. NChunks /\ seenBytes \in 0 .. NChunks /\ sum \in 0 .. NChunks
           /\ xfer_length \in {0, NChunks} /\ seenLength \in {0, NChunks}
           /\ text \in Seq(Scripts \cup {None}) /\ Len(text) <= lexLen
           /\ dbg \in DbgPlaces /\ main \in MainPlaces
           /\ up \in Scripts \cup {None} /\ accepted \in Scripts \cup {None}
           /\ NChunks \in Nat /\ NChunks > 0
  BY ScriptControlAssumption DEF TypeOK, ScriptControlAssumption

\* Nothing is received and nothing runs at power-on.
LEMMA InitIInv == Init => IInv
<1> SUFFICES ASSUME Init PROVE IInv
  OBVIOUS
<1>0. NChunks \in Nat /\ NChunks > 0
  BY ScriptControlAssumption DEF ScriptControlAssumption
<1>1. TypeOK
  <2>1. {ready, running, pending, isMain, asked, moved, opened} \subseteq BOOLEAN
    BY DEF Init
  <2>2. mem \in [1 .. NChunks -> Scripts \cup {None}]
    BY DEF Init, Fresh
  <2>3. /\ {len, lexLen, left, xfer_bytes, seenBytes, sum} \subseteq 0 .. NChunks
        /\ {xfer_length, seenLength} \subseteq {0, NChunks}
    BY <1>0 DEF Init
  <2>4. text \in Seq(Scripts \cup {None}) /\ Len(text) <= lexLen
    BY DEF Init
  <2>5. dbg \in DbgPlaces /\ main \in MainPlaces
    BY DEF Init, DbgPlaces, MainPlaces
  <2>6. up \in Scripts \cup {None} /\ accepted \in Scripts \cup {None}
    BY DEF Init
  <2> QED BY <2>1, <2>2, <2>3, <2>4, <2>5, <2>6 DEF TypeOK
<1>2. BufInv /\ CountInv
  BY <1>0 DEF Init, BufInv, CountInv, Waiting, Loaded
<1>3. LexInv
  BY DEF Init, LexInv, OneScriptText, PastTest
<1> QED BY <1>1, <1>2, <1>3 DEF IInv

\* SCRIPT_EXEC: the counters, then the length of the buffer.
LEMMA ExecIInv ==
    ASSUME IInv, ExecLength \/ ExecReset \/ \E s \in Scripts : ScriptExec(s)
    PROVE  IInv'
<1> USE Types DEF IInv
<1>1. CASE \E s \in Scripts : ScriptExec(s)
  <2>1. PICK s \in Scripts : ScriptExec(s)
    BY <1>1
  <2>2. /\ xfer_bytes' = 0 /\ dbg = "idle" /\ dbg' = "exec1" /\ up' = s /\ left' = NChunks
        /\ UNCHANGED <<ready, running, pending, isMain, mem, len, xfer_length, seenLength,
             seenBytes, sum, main, text, lexLen, moved, opened, accepted, asked>>
    BY <2>1 DEF ScriptExec, flags, buf, local, lexVars, history
  <2>3. TypeOK'
    BY <2>2 DEF TypeOK, DbgPlaces
  <2>4. BufInv' /\ CountInv' /\ LexInv'
    BY <2>2 DEF BufInv, CountInv, LexInv, OneScriptText, Waiting, Loaded, PastTest
  <2> QED BY <2>3, <2>4
<1>2. CASE ExecLength
  <2>1. /\ xfer_length' = NChunks /\ dbg = "exec1" /\ dbg' = "exec2"
        /\ UNCHANGED <<ready, running, pending, isMain, mem, len, xfer_bytes, up, left, seenLength,
             seenBytes, sum, main, text, lexLen, moved, opened, accepted, asked>>
    BY <1>2 DEF ExecLength, flags, buf, local, lexVars, history
  <2>2. TypeOK'
    BY <2>1 DEF TypeOK, DbgPlaces
  <2>3. BufInv' /\ CountInv' /\ LexInv'
    BY <2>1 DEF BufInv, CountInv, LexInv, OneScriptText, Waiting, Loaded, PastTest
  <2> QED BY <2>2, <2>3
<1>3. CASE ExecReset
  <2>1. /\ len' = 0 /\ dbg = "exec2" /\ dbg' = "data"
        /\ UNCHANGED <<ready, running, pending, isMain, mem, xfer_bytes, xfer_length, up, left,
             seenLength, seenBytes, sum, main, text, lexLen, moved, opened, accepted, asked>>
    BY <1>3 DEF ExecReset, flags, xfer, local, lexVars, history
  <2>2. TypeOK'
    BY <2>1 DEF TypeOK, DbgPlaces
  <2>3. BufInv' /\ CountInv' /\ LexInv'
    BY <2>1 DEF BufInv, CountInv, LexInv, OneScriptText, Waiting, Loaded, PastTest
  <2> QED BY <2>2, <2>3
<1> QED BY <1>1, <1>2, <1>3

\* The loads of the counters, the test and the bookkeeping of a chunk, all but the append.
LEMMA ChunkIInv ==
    ASSUME IInv,
           \/ LoadLength \/ LoadBytes \/ CountLoad \/ CountStore \/ Compare
           \/ \E lost \in BOOLEAN : ChunkTest(lost)
    PROVE  IInv'
<1> USE Types DEF IInv
<1>0. UNCHANGED <<ready, running, pending, isMain, mem, len, xfer_length, up, main, text, lexLen,
         moved, opened, accepted, asked>>
  BY DEF LoadLength, LoadBytes, CountLoad, CountStore, Compare, ChunkTest, flags, buf, xfer,
         lexVars, history
<1>1. CASE LoadLength
  <2>1. /\ dbg \in {"data", "gotBytes"} /\ dbg' \in {"gotLength", "got"}
        /\ (dbg' = "got" => dbg = "gotBytes") /\ seenLength' = xfer_length
        /\ UNCHANGED <<left, xfer_bytes, seenBytes, sum>>
    BY <1>1 DEF LoadLength, xfer
  <2>2. TypeOK'
    BY <1>0, <2>1 DEF TypeOK, DbgPlaces
  <2>3. BufInv' /\ CountInv' /\ LexInv'
    BY <1>0, <2>1 DEF BufInv, CountInv, LexInv, OneScriptText, Waiting, Loaded, PastTest
  <2> QED BY <2>2, <2>3
<1>2. CASE LoadBytes
  <2>1. /\ dbg \in {"data", "gotLength"} /\ dbg' \in {"gotBytes", "got"}
        /\ seenBytes' = xfer_bytes /\ UNCHANGED <<left, xfer_bytes, seenLength, sum>>
    BY <1>2 DEF LoadBytes, xfer
  <2>2. TypeOK'
    BY <1>0, <2>1 DEF TypeOK, DbgPlaces
  <2>3. BufInv' /\ CountInv' /\ LexInv'
    BY <1>0, <2>1 DEF BufInv, CountInv, LexInv, OneScriptText, Waiting, Loaded, PastTest
  <2> QED BY <2>2, <2>3
<1>3. CASE \E lost \in BOOLEAN : ChunkTest(lost)
  <2>1. /\ dbg = "got" /\ left' = left - 1 /\ UNCHANGED xfer_bytes
        /\ \/ ~running /\ dbg' = "append" /\ UNCHANGED <<seenLength, seenBytes, sum>>
           \/ /\ dbg' = (IF left' > 0 THEN "data" ELSE "idle")
              /\ seenLength' = 0 /\ seenBytes' = 0 /\ sum' = 0
    BY <1>3 DEF ChunkTest, Taken, NextChunk, Forget, xfer, local
  <2>2. left > 0 /\ left' \in 0 .. NChunks
    BY <2>1 DEF BufInv, Waiting
  <2>3. TypeOK'
    BY <1>0, <2>1, <2>2 DEF TypeOK, DbgPlaces
  <2>4. BufInv'
    BY <1>0, <2>1, <2>2 DEF BufInv, Waiting
  <2>5. CountInv' /\ LexInv'
    BY <1>0, <2>1 DEF CountInv, LexInv, OneScriptText, Loaded, PastTest
  <2> QED BY <2>3, <2>4, <2>5
<1>4. CASE CountLoad
  <2>1. /\ dbg = "count" /\ dbg' = "store" /\ sum' = xfer_bytes + Size
        /\ UNCHANGED <<left, xfer_bytes, seenLength, seenBytes>>
    BY <1>4 DEF CountLoad, xfer
  <2>2. sum' \in 0 .. NChunks
    BY <2>1 DEF CountInv, Loaded, Size
  <2>3. TypeOK'
    BY <1>0, <2>1, <2>2 DEF TypeOK, DbgPlaces
  <2>4. BufInv' /\ CountInv' /\ LexInv'
    BY <1>0, <2>1 DEF BufInv, CountInv, LexInv, OneScriptText, Waiting, Loaded, PastTest
  <2> QED BY <2>3, <2>4
<1>5. CASE CountStore
  <2>1. dbg = "store" /\ dbg' = "compare" /\ xfer_bytes' = sum
        /\ UNCHANGED <<left, seenLength, seenBytes, sum>>
    BY <1>5 DEF CountStore, local
  <2>2. TypeOK'
    BY <1>0, <2>1 DEF TypeOK, DbgPlaces
  <2>3. BufInv' /\ CountInv' /\ LexInv'
    BY <1>0, <2>1 DEF BufInv, CountInv, LexInv, OneScriptText, Waiting, Loaded, PastTest
  <2> QED BY <2>2, <2>3
<1>6. CASE Compare
  <2>1. /\ dbg = "compare" /\ dbg' \in {"accept", "data", "idle"} /\ (dbg' = "data" => left > 0)
        /\ seenLength' = 0 /\ seenBytes' = 0 /\ sum' = 0 /\ UNCHANGED <<left, xfer_bytes>>
    BY <1>6 DEF Compare, Forget, xfer
  <2>2. TypeOK'
    BY <1>0, <2>1 DEF TypeOK, DbgPlaces
  <2>3. BufInv' /\ CountInv' /\ LexInv'
    BY <1>0, <2>1 DEF BufInv, CountInv, LexInv, OneScriptText, Waiting, Loaded, PastTest
  <2> QED BY <2>2, <2>3
<1> QED BY <1>1, <1>2, <1>3, <1>4, <1>5, <1>6

\* The append: a chunk of the script that is received, behind the others; nobody reads
\* a text under the protection of script_running meanwhile.
LEMMA AppendIInv ==
    ASSUME IInv, NEW moves \in BOOLEAN, ChunkAppend(moves)
    PROVE  IInv'
<1> USE Types DEF IInv
<1>1. /\ dbg = "append" /\ Size >= 0 /\ dbg' = "count" /\ moved' = (moved \/ moves)
      /\ moves => main = "lex"
      /\ UNCHANGED <<ready, running, pending, isMain, xfer_bytes, xfer_length, up, left, seenLength,
           seenBytes, sum, main, text, lexLen, opened, accepted, asked>>
  BY DEF ChunkAppend, flags, xfer, local, history
<1>2. len + left < NChunks /\ up \in Scripts /\ \A i \in 1 .. len : mem[i] = up
  BY <1>1 DEF BufInv
<1>3. CASE Size = 1
  <2>1. mem' = [mem EXCEPT ![len + 1] = up] /\ len' = len + 1
    BY <1>3 DEF ChunkAppend
  <2>2. len + 1 \in 1 .. NChunks
    BY <1>2
  <2>3. /\ mem' \in [1 .. NChunks -> Scripts \cup {None}] /\ len' \in 0 .. NChunks
        /\ \A i \in 1 .. len' : mem'[i] = up
    BY <1>2, <2>1, <2>2
  <2>4. BufInv'
    <3>1. /\ \A i, j \in 1 .. len' : mem'[i] = mem'[j]
          /\ \A i \in 1 .. len' : mem'[i] \in Scripts /\ mem'[i] = up'
      BY <1>1, <1>2, <2>3
    <3>2. len' + left' <= NChunks /\ up' \in Scripts /\ dbg' = "count"
      BY <1>1, <1>2, <2>1
    <3> QED BY <3>1, <3>2 DEF BufInv, Waiting
  <2> QED
    <3>1. TypeOK'
      BY <1>1, <2>3 DEF TypeOK, DbgPlaces
    <3>2. CountInv'
      BY <1>1 DEF CountInv, Loaded, Size
    <3>3. LexInv'
      BY <1>1 DEF LexInv, OneScriptText, PastTest
    <3> QED BY <2>4, <3>1, <3>2, <3>3
<1>4. CASE Size # 1
  <2>1. UNCHANGED <<mem, len>>
    BY <1>4 DEF ChunkAppend, buf
  <2>2. TypeOK'
    BY <1>1, <2>1 DEF TypeOK, DbgPlaces
  <2>3. BufInv'
    BY <1>1, <1>2, <2>1 DEF BufInv, Waiting
  <2>4. CountInv'
    BY <1>1 DEF CountInv, Loaded, Size
  <2>5. LexInv'
    BY <1>1 DEF LexInv, OneScriptText, PastTest
  <2> QED BY <2>2, <2>3, <2>4, <2>5
<1> QED BY <1>3, <1>4

\* Accepting, stopping and the hard fault leave buffer and counters alone; script_running
\* goes up after the last append and its fall is on record while a text is read.
LEMMA DbgIInv ==
    ASSUME IInv,
           AcceptReady \/ AcceptRunning \/ Notify \/ ScriptStop \/ Stop \/ ChunkFault
    PROVE  IInv'
<1> USE Types DEF IInv
<1>0. UNCHANGED <<isMain, mem, len, xfer_bytes, xfer_length, up, left, seenLength, seenBytes, sum,
         text, lexLen, moved>>
  BY DEF AcceptReady, AcceptRunning, Notify, ScriptStop, Stop, StopRunning, StopReady,
         StopInterrupt, ChunkFault, buf, xfer, local, lexVars
<1>1. CASE AcceptReady
  <2>1. /\ dbg = "accept" /\ dbg' = "accept2" /\ ready' = TRUE /\ accepted' = up /\ asked' = FALSE
        /\ UNCHANGED <<running, pending, main, opened>>
    BY <1>1 DEF AcceptReady, lexVars
  <2>2. TypeOK'
    BY <1>0, <2>1 DEF TypeOK, DbgPlaces
  <2>3. BufInv' /\ CountInv' /\ LexInv'
    BY <1>0, <2>1 DEF BufInv, CountInv, LexInv, OneScriptText, Waiting, Loaded, PastTest
  <2> QED BY <2>2, <2>3
<1>2. CASE AcceptRunning
  <2>1. /\ dbg = "accept2" /\ dbg' = "notify" /\ running' = TRUE
        /\ UNCHANGED <<ready, pending, main, opened, accepted, asked>>
    BY <1>2 DEF AcceptRunning, lexVars, history
  <2>2. TypeOK'
    BY <1>0, <2>1 DEF TypeOK, DbgPlaces
  <2>3. BufInv' /\ CountInv' /\ LexInv'
    BY <1>0, <2>1 DEF BufInv, CountInv, LexInv, OneScriptText, Waiting, Loaded, PastTest
  <2> QED BY <2>2, <2>3
<1>3. CASE Notify
  <2>1. /\ dbg = "notify" /\ dbg' \in {"data", "idle"} /\ (dbg' = "data" => left > 0)
        /\ pending' \in BOOLEAN /\ UNCHANGED <<ready, running, main, opened, accepted, asked>>
    BY <1>3 DEF Notify, lexVars, history, flags
  <2>2. TypeOK'
    BY <1>0, <2>1 DEF TypeOK, DbgPlaces
  <2>3. BufInv' /\ CountInv' /\ LexInv'
    BY <1>0, <2>1 DEF BufInv, CountInv, LexInv, OneScriptText, Waiting, Loaded, PastTest
  <2> QED BY <2>2, <2>3
<1>4. CASE ScriptStop
  <2>1. /\ dbg = "idle" /\ dbg' \in {"stop", "quiet"} /\ accepted' = None /\ asked' = TRUE
        /\ UNCHANGED <<ready, running, pending, main, opened>>
    BY <1>4 DEF ScriptStop, lexVars, flags
  <2>2. TypeOK'
    BY <1>0, <2>1 DEF TypeOK, DbgPlaces
  <2>3. BufInv' /\ CountInv' /\ LexInv'
    BY <1>0, <2>1 DEF BufInv, CountInv, LexInv, OneScriptText, Waiting, Loaded, PastTest
  <2> QED BY <2>2, <2>3
<1>5. CASE StopRunning
  <2>1. /\ dbg \in {"stop", "quiet"} /\ dbg' \in {"stop1", "quiet1"} /\ running' = FALSE
        /\ opened' = (opened \/ main = "lex")
        /\ UNCHANGED <<ready, pending, main, accepted, asked>>
    BY <1>5 DEF StopRunning, history
  <2>2. TypeOK'
    BY <1>0, <2>1 DEF TypeOK, DbgPlaces
  <2>3. BufInv' /\ CountInv' /\ LexInv'
    BY <1>0, <2>1 DEF BufInv, CountInv, LexInv, OneScriptText, Waiting, Loaded, PastTest
  <2> QED BY <2>2, <2>3
<1>6. CASE StopReady \/ StopInterrupt
  <2>1. /\ dbg \in {"stop1", "quiet1", "stop2"} /\ dbg' \in {"stop2", "idle"}
        /\ ready' \in BOOLEAN /\ pending' \in BOOLEAN
        /\ UNCHANGED <<running, main, opened, accepted, asked>>
    BY <1>6 DEF StopReady, StopInterrupt, lexVars, history, flags
  <2>2. TypeOK'
    BY <1>0, <2>1 DEF TypeOK, DbgPlaces
  <2>3. BufInv' /\ CountInv' /\ LexInv'
    BY <1>0, <2>1 DEF BufInv, CountInv, LexInv, OneScriptText, Waiting, Loaded, PastTest
  <2> QED BY <2>2, <2>3
<1>7. CASE ChunkFault
  <2>1. /\ dbg = "append" /\ dbg' = "fault" /\ main' = "fault"
        /\ UNCHANGED <<ready, running, pending, opened, accepted, asked>>
    BY <1>7 DEF ChunkFault, lexVars, history, flags
  <2>2. TypeOK'
    BY <1>0, <2>1 DEF TypeOK, DbgPlaces, MainPlaces
  <2>3. BufInv' /\ CountInv' /\ LexInv'
    BY <1>0, <2>1 DEF BufInv, CountInv, LexInv, OneScriptText, Waiting, Loaded, PastTest
  <2> QED BY <2>2, <2>3
<1> QED BY <1>1, <1>2, <1>3, <1>4, <1>5, <1>6, <1>7 DEF Stop

\* usbdbg_init: flags, counters and buffer are cleared one by one.
LEMMA UsbdbgInitIInv ==
    ASSUME IInv, UsbdbgInit
    PROVE  IInv'
<1> USE Types DEF IInv
<1>0. /\ main \in {"init1", "init2", "init3", "init4", "init5"}
      /\ main' \in {"init2", "init3", "init4", "init5", "check"}
      /\ UNCHANGED <<pending, isMain, dbg, up, left, seenLength, seenBytes, sum, text, lexLen,
           moved, opened, accepted, asked>>
  BY DEF UsbdbgInit, InitReady, InitRunning, InitBytes, InitLength, InitBuf, dbgVars, local,
         lexVars, history
<1>7. ready' \in BOOLEAN /\ running' \in BOOLEAN /\ (running' => running)
  <2>1. (ready' = ready \/ ready' = FALSE) /\ (running' = running \/ running' = FALSE)
    BY Zenon DEF UsbdbgInit, InitReady, InitRunning, InitBytes, InitLength, InitBuf, flags
  <2>2. ready \in BOOLEAN /\ running \in BOOLEAN
    OBVIOUS
  <2>3. CASE running' = running
    BY <2>1, <2>2, <2>3
  <2>4. CASE running' = FALSE
    BY <2>1, <2>2, <2>4
  <2> QED BY <2>1, <2>3, <2>4
<1>1. /\ xfer_bytes' \in {xfer_bytes, 0} /\ xfer_length' \in {xfer_length, 0}
  BY DEF UsbdbgInit, InitReady, InitRunning, InitBytes, InitLength, InitBuf, xfer
<1>2. \/ UNCHANGED <<mem, len>>
      \/ mem' = Fresh /\ len' = 0
  BY DEF UsbdbgInit, InitReady, InitRunning, InitBytes, InitLength, InitBuf, buf
<1>3. mem' \in [1 .. NChunks -> Scripts \cup {None}] /\ len' \in 0 .. NChunks
  BY <1>2 DEF Fresh
<1>4. TypeOK'
  BY <1>0, <1>1, <1>3, <1>7 DEF TypeOK, MainPlaces
<1>5. BufInv'
  BY <1>0, <1>2 DEF BufInv
<1>6. CountInv' /\ LexInv'
  BY <1>0, <1>1, <1>7 DEF CountInv, Size, LexInv, OneScriptText
<1> QED BY <1>4, <1>5, <1>6

\* The interpreter takes address and length, reads and executes.
LEMMA ParseIInv ==
    ASSUME IInv, Parse \/ Lex \/ Execute
    PROVE  IInv'
<1> USE Types DEF IInv
<1>0. UNCHANGED <<ready, running, pending, isMain, mem, len, xfer_bytes, xfer_length, dbg, up,
         left, seenLength, seenBytes, sum, asked>>
  BY DEF Parse, Lex, Execute, flags, buf, xfer, dbgVars, local, history
<1>1. BufInv' /\ CountInv'
  BY <1>0 DEF BufInv, CountInv, Size
<1>2. CASE Parse
  <2>1. /\ main' = "lex" /\ lexLen' = len /\ text' = <<>> /\ moved' = FALSE /\ accepted' = None
        /\ opened' = (~running /\ dbg # "accept2")
    BY <1>2 DEF Parse
  <2>2. TypeOK'
    <3>1. text' \in Seq(Scripts \cup {None}) /\ Len(text') <= lexLen'
      BY <2>1
    <3> QED BY <1>0, <2>1, <3>1 DEF TypeOK, MainPlaces
  <2>3. LexInv'
    <3>1. Len(text') = 0 /\ (~opened' => running \/ dbg = "accept2")
      BY <2>1
    <3>2. \A i, j \in 1 .. lexLen' : mem'[i] = mem'[j]
      BY <1>0, <2>1 DEF BufInv
    <3> QED BY <1>0, <2>1, <3>1, <3>2 DEF LexInv, OneScriptText
  <2> QED BY <1>1, <2>2, <2>3
<1>3. CASE Lex
  <2>1. /\ main = "lex" /\ Len(text) < lexLen
        /\ UNCHANGED <<main, lexLen, moved, opened, accepted>>
    BY <1>3 DEF Lex, history
  <2>2. PICK c \in Scripts \cup {None} :
          text' = Append(text, c) /\ (~moved => c = mem[Len(text) + 1])
    BY <1>3, <2>1 DEF Lex
  <2>3. /\ text' \in Seq(Scripts \cup {None}) /\ Len(text') = Len(text) + 1
        /\ Len(text) \in Nat
        /\ \A i \in 1 .. Len(text) : text'[i] = text[i]
        /\ text'[Len(text) + 1] = c
    BY <2>2, AppendProperties
  <2>4. TypeOK'
    BY <1>0, <2>1, <2>3 DEF TypeOK
  <2>5. ASSUME ~opened PROVE /\ \A i \in 1 .. Len(text') : text'[i] = mem[i] /\ i \in 1 .. lexLen
    <3>1. ~moved /\ \A i \in 1 .. Len(text) : text[i] = mem[i]
      BY <2>1, <2>5 DEF LexInv
    <3> QED BY <2>1, <2>2, <2>3, <3>1
  <2>6. LexInv'
    BY <1>0, <2>1, <2>5 DEF LexInv, OneScriptText
  <2> QED BY <1>1, <2>4, <2>6
<1>4. CASE Execute
  <2>1. main' = "run" /\ UNCHANGED <<text, lexLen, moved, opened, accepted>>
    BY <1>4 DEF Execute, lexVars, history
  <2>2. TypeOK'
    BY <1>0, <2>1 DEF TypeOK, MainPlaces
  <2>3. LexInv'
    BY <1>0, <2>1 DEF LexInv, OneScriptText
  <2> QED BY <1>1, <2>2, <2>3
<1> QED BY <1>2, <1>3, <1>4

\* A script that ends or is interrupted leaves an empty text.
LEMMA EndIInv ==
    ASSUME IInv, ScriptEnds \/ \E o \in BOOLEAN : Interrupted(o)
    PROVE  IInv'
<1> USE Types DEF IInv
<1>1. /\ text' = <<>> /\ lexLen' = 0 /\ moved' = FALSE /\ opened' = FALSE
      /\ main' \in {"init1", "out1"} /\ pending' \in BOOLEAN
      /\ UNCHANGED <<ready, running, isMain, mem, len, xfer_bytes, xfer_length, dbg, up, left,
           seenLength, seenBytes, sum, accepted, asked>>
  BY DEF ScriptEnds, Interrupted, Done, flags, buf, xfer, dbgVars, local, history
<1>2. /\ text' \in Seq(Scripts \cup {None}) /\ Len(text') <= lexLen' /\ lexLen' \in 0 .. NChunks
      /\ main' \in MainPlaces
  BY <1>1 DEF MainPlaces
<1>3. TypeOK'
  BY <1>1, <1>2 DEF TypeOK
<1>4. BufInv' /\ CountInv' /\ LexInv'
  BY <1>1 DEF BufInv, CountInv, Size, LexInv, OneScriptText
<1> QED BY <1>3, <1>4

\* The other steps of the OpenMV thread move it and set flags.
LEMMA MainIInv ==
    ASSUME IInv,
           MainPyEnds \/ Check \/ ReplInterrupted \/ Leave \/ Test \/ Swallow \/ StopScript
             \/ \E again \in BOOLEAN : ReplReturns(again)
    PROVE  IInv'
<1> USE Types DEF IInv
<1>0. UNCHANGED <<mem, len, xfer_bytes, xfer_length, dbg, up, left, seenLength, seenBytes, sum,
         text, lexLen, moved, opened, accepted, asked>>
  BY DEF MainPyEnds, Check, ReplInterrupted, Leave, Test, Swallow, ReplReturns, StopScript,
         OutRunning, OutReady, OutInterrupt, buf, xfer, dbgVars, local, lexVars, history
<1>1. /\ {ready', running', pending', isMain'} \subseteq BOOLEAN
      /\ running' => running
  <2>1. (ready' = ready \/ ready' = FALSE) /\ (running' = running \/ running' = FALSE)
    BY Zenon DEF MainPyEnds, Check, ReplInterrupted, Leave, Test, Swallow, ReplReturns, StopScript,
       OutRunning, OutReady, OutInterrupt, flags
  <2>2. (pending' = pending \/ pending' = FALSE \/ pending' = TRUE)
        /\ (isMain' = isMain \/ isMain' = FALSE \/ isMain' = TRUE)
    BY Zenon DEF MainPyEnds, Check, ReplInterrupted, Leave, Test, Swallow, ReplReturns, StopScript,
       OutRunning, OutReady, OutInterrupt, flags
  <2>3. ready \in BOOLEAN /\ running \in BOOLEAN /\ pending \in BOOLEAN /\ isMain \in BOOLEAN
    OBVIOUS
  <2>4. {ready', running', pending', isMain'} \subseteq BOOLEAN
    BY <2>1, <2>2, <2>3, Zenon
  <2>5. CASE running' = running
    BY <2>4, <2>5
  <2>6. CASE running' = FALSE
    BY <2>4, <2>6
  <2> QED BY <2>1, <2>5, <2>6
<1>2. main' \in MainPlaces /\ main # "lex" /\ main' # "lex"
  BY DEF MainPyEnds, Check, ReplInterrupted, Leave, Test, Swallow, ReplReturns, StopScript,
         OutRunning, OutReady, OutInterrupt, MainPlaces
<1>3. TypeOK'
  BY <1>0, <1>1, <1>2 DEF TypeOK
<1>4. BufInv' /\ CountInv' /\ LexInv'
  BY <1>0, <1>1, <1>2 DEF BufInv, CountInv, Size, LexInv, OneScriptText
<1> QED BY <1>3, <1>4

\* Every step of either thread keeps the invariant.
LEMMA NextIInv == IInv /\ [Next]_vars => IInv'
<1> SUFFICES ASSUME IInv, [Next]_vars PROVE IInv'
  OBVIOUS
<1>1. CASE UNCHANGED vars
  BY <1>1 DEF vars, work, flags, buf, xfer, local, dbgVars, lexVars, history, IInv, TypeOK, BufInv,
              CountInv, Size, LexInv, OneScriptText
<1>2. CASE Next
  BY <1>2, ExecIInv, ChunkIInv, AppendIInv, DbgIInv, UsbdbgInitIInv, ParseIInv, EndIInv, MainIInv
  DEF Next, DbgStep, Upload, MainStep, TakeInterrupt
<1> QED BY <1>1, <1>2

\* Flags, counters and buffer keep their ranges although usbdbg_init and an
\* upload may interleave load by load and store by store.
THEOREM TypeCorrect == Spec => []TypeOK
<1>1. IInv => TypeOK
  BY DEF IInv
<1> QED BY InitIInv, NextIInv, <1>1, PTL DEF Spec

\* A text that is read while script_running is up has chunks of one script only,
\* although the interpreter reads it in place and SCRIPT_EXEC may come any time.
THEOREM TextOfOneScript == Spec => []OneScriptText
<1>1. IInv => OneScriptText
  BY DEF IInv, LexInv
<1> QED BY InitIInv, NextIInv, <1>1, PTL DEF Spec

----------------------------------------------------------------------------
(* A patient host: the host uploads at the prompt only and waits for the    *)
(* interrupt of its last command to be taken.  Then the debug thread and    *)
(* usbdbg_init are never in the transfer counters together, nobody writes   *)
(* what the interpreter reads, and a script that is ready is a whole one.   *)

\* Places between SCRIPT_EXEC and the end of the upload.
Chunks == Waiting \cup {"append", "count", "store", "compare"}
Receiving == Chunks \cup {"exec1", "exec2", "accept", "accept2", "notify"}

FullBuf == len = NChunks

\* An upload meets the REPL and nothing else.
PlacesInv ==
    /\ dbg # "fault" /\ main \notin {"main.py", "fault"}
    /\ dbg \in Receiving => main = "repl" /\ ~pending
    /\ main = "repl" => isMain

\* The counter follows the length of the buffer while chunks arrive, and the buffer
\* is full when the counters agree, when the flag is up and when it is parsed.
UploadInv ==
    /\ dbg \in Chunks \cup {"exec1", "exec2"} => ~ready
    /\ dbg \in {"exec1", "exec2"} => xfer_bytes = 0
    /\ dbg \in Chunks \cup {"exec2"} => xfer_length = NChunks
    /\ dbg \in Waiting \cup {"append", "compare"} => len = xfer_bytes
    /\ dbg \in {"gotLength", "got", "append", "count"} => seenLength = NChunks
    /\ dbg \in Loaded => seenBytes = xfer_bytes
    /\ dbg \in {"count", "store"} => len = xfer_bytes + 1
    /\ dbg \in {"store", "compare"} => sum = len
    /\ dbg \in {"accept", "accept2", "notify"} => FullBuf /\ left = 0
    /\ ready => FullBuf
    /\ main = "parse" => FullBuf
    /\ main \in {"init2", "init3", "init4", "init5"} => ~ready

\* What is read is a whole script, and it stays so.
ReadInv ==
    main = "lex" =>
      /\ lexLen = NChunks /\ ~moved
      /\ \E s \in Scripts : \A i \in 1 .. NChunks : mem[i] = s
      /\ \A i \in 1 .. Len(text) : text[i] = mem[i]

\* An interrupt that nobody asked for is the one that wakes the REPL.
InterruptInv ==
    /\ dbg \in {"stop", "stop1", "stop2", "quiet", "quiet1"} => asked
    /\ main \in {"out1", "out2", "out3"} => asked
    /\ dbg \in {"accept2", "notify"} => ready
    /\ main = "repl" /\ ready => pending \/ dbg \in {"accept2", "notify"}
    /\ pending => asked \/ (main = "repl" /\ ready)

PatientParts == PlacesInv /\ UploadInv /\ ReadInv /\ InterruptInv /\ RunsWholeScript

PatientInv == Patient => PatientParts

\* A patient host finds an empty buffer, no flag and no interrupt.
LEMMA InitPatient == Init => PatientInv
<1> SUFFICES ASSUME Init, Patient PROVE PatientParts
  BY DEF PatientInv
<1>1. "main" \notin mode
  BY DEF Patient
<1>2. main = "init1" /\ dbg = "idle" /\ ready = FALSE /\ pending = FALSE
  BY <1>1 DEF Init
<1> QED
  BY <1>2 DEF PatientParts, PlacesInv, UploadInv, ReadInv, InterruptInv, RunsWholeScript, Receiving,
              Chunks, Waiting, Loaded

\* The patient host starts an upload at the prompt, where no script is ready.
LEMMA ExecPatient ==
    ASSUME IInv, Patient, PatientParts, ExecLength \/ ExecReset \/ \E s \in Scripts : ScriptExec(s)
    PROVE  PatientParts'
<1> USE Types DEF IInv, PatientParts
<1>0. UNCHANGED <<ready, running, pending, isMain, mem, main, text, lexLen, moved, asked>>
  BY DEF ScriptExec, ExecLength, ExecReset, flags, buf, lexVars, history
<1>1. main = "repl" /\ ~pending /\ ~ready
  <2>1. "hasty" \notin mode
    BY DEF Patient
  <2>2. CASE \E s \in Scripts : ScriptExec(s)
    BY <2>1, <2>2 DEF ScriptExec, HostReady, PlacesInv, InterruptInv
  <2>3. CASE ExecLength \/ ExecReset
    BY <2>3 DEF ExecLength, ExecReset, PlacesInv, UploadInv, Receiving
  <2> QED BY <2>2, <2>3
<1>2. \/ dbg' = "exec1" /\ xfer_bytes' = 0
      \/ dbg' = "exec2" /\ dbg = "exec1" /\ xfer_length' = NChunks /\ UNCHANGED xfer_bytes
      \/ dbg' = "data" /\ dbg = "exec2" /\ len' = 0 /\ UNCHANGED <<xfer_bytes, xfer_length>>
  BY DEF ScriptExec, ExecLength, ExecReset, xfer
<1>3. PlacesInv' /\ InterruptInv' /\ ReadInv' /\ RunsWholeScript'
  BY <1>0, <1>1, <1>2 DEF PlacesInv, InterruptInv, ReadInv, RunsWholeScript
<1>4. UploadInv'
  BY <1>0, <1>1, <1>2 DEF UploadInv, Chunks, Waiting, Loaded
<1> QED BY <1>3, <1>4

\* A chunk is counted exactly when it is stored, so the counters agree only
\* over a whole script; the text of one that lost a chunk is given up.
LEMMA ChunkPatient ==
    ASSUME IInv, PatientParts,
           \/ LoadLength \/ LoadBytes \/ CountLoad \/ CountStore \/ Compare
           \/ \E lost \in BOOLEAN : ChunkTest(lost)
           \/ \E moves \in BOOLEAN : ChunkAppend(moves)
    PROVE  PatientParts'
<1> USE Types DEF IInv, PatientParts
<1>0. /\ UNCHANGED <<ready, running, pending, isMain, main, text, lexLen, asked>>
      /\ UNCHANGED xfer_length
      /\ dbg \in Chunks
  BY DEF LoadLength, LoadBytes, CountLoad, CountStore, Compare, ChunkTest, ChunkAppend, flags, xfer,
         lexVars, history, Chunks, Waiting
<1>1. main = "repl" /\ ~pending /\ ~ready /\ isMain /\ xfer_length = NChunks
  BY <1>0 DEF PlacesInv, UploadInv, Receiving
<1>2. ASSUME dbg' \in Receiving \cup {"idle"}, dbg' \notin {"accept2", "notify"}
      PROVE  PlacesInv' /\ InterruptInv' /\ ReadInv' /\ RunsWholeScript'
  <2>1. main' = "repl" /\ ~pending' /\ ~ready' /\ isMain'
    BY <1>0, <1>1
  <2>2. dbg' \notin {"stop", "stop1", "stop2", "quiet", "quiet1", "accept2", "notify", "fault"}
    BY <1>2 DEF Receiving, Chunks, Waiting
  <2>3. PlacesInv' /\ InterruptInv'
    BY <2>1, <2>2 DEF PlacesInv, InterruptInv
  <2>4. ReadInv' /\ RunsWholeScript'
    BY <2>1 DEF ReadInv, RunsWholeScript
  <2> QED BY <2>3, <2>4
<1>3. CASE LoadLength \/ LoadBytes
  <2>1. /\ \/ dbg \in {"data", "gotBytes"} /\ seenLength' = xfer_length /\ UNCHANGED seenBytes
              /\ dbg' = IF dbg = "data" THEN "gotLength" ELSE "got"
           \/ dbg \in {"data", "gotLength"} /\ seenBytes' = xfer_bytes /\ UNCHANGED seenLength
              /\ dbg' = IF dbg = "data" THEN "gotBytes" ELSE "got"
        /\ UNCHANGED <<len, xfer_bytes>>
    BY <1>3 DEF LoadLength, LoadBytes, buf, xfer
  <2>2. UploadInv' /\ dbg' \in Receiving
    BY <1>0, <1>1, <2>1 DEF UploadInv, Chunks, Waiting, Loaded, Receiving
  <2> QED BY <1>2, <2>1, <2>2
<1>4. CASE \E lost \in BOOLEAN : ChunkTest(lost)
  <2>1. /\ dbg = "got" /\ UNCHANGED <<len, xfer_bytes>>
        /\ \/ dbg' = "append" /\ UNCHANGED <<seenLength, seenBytes>>
           \/ dbg' \in {"data", "idle"}
    BY <1>4 DEF ChunkTest, NextChunk, buf, xfer, local
  <2>2. UploadInv' /\ dbg' \in Receiving \cup {"idle"}
    BY <1>0, <1>1, <2>1 DEF UploadInv, Chunks, Waiting, Loaded, Receiving
  <2> QED BY <1>2, <2>1, <2>2
<1>5. CASE \E moves \in BOOLEAN : ChunkAppend(moves)
  <2>1. /\ dbg = "append" /\ dbg' = "count" /\ UNCHANGED <<xfer_bytes, seenLength, seenBytes>>
        /\ Size = 1 => len' = len + 1
    BY <1>5 DEF ChunkAppend, xfer, local
  <2>2. Size = 1
    BY <2>1 DEF BufInv, UploadInv, Waiting, Loaded, Size
  <2>3. UploadInv' /\ dbg' \in Receiving
    BY <1>0, <1>1, <2>1, <2>2 DEF UploadInv, Chunks, Waiting, Loaded, Receiving
  <2> QED BY <1>2, <2>1, <2>3
<1>6. CASE CountLoad
  <2>1. /\ dbg = "count" /\ dbg' = "store" /\ sum' = xfer_bytes + Size
        /\ UNCHANGED <<len, xfer_bytes>>
    BY <1>6 DEF CountLoad, buf, xfer
  <2>2. Size = 1
    BY <2>1 DEF UploadInv, Loaded, Size
  <2>3. UploadInv' /\ dbg' \in Receiving
    BY <1>0, <1>1, <2>1, <2>2 DEF UploadInv, Chunks, Waiting, Loaded, Receiving
  <2> QED BY <1>2, <2>1, <2>3
<1>7. CASE CountStore
  <2>1. dbg = "store" /\ dbg' = "compare" /\ xfer_bytes' = sum /\ UNCHANGED <<len, sum>>
    BY <1>7 DEF CountStore, buf, local
  <2>2. UploadInv' /\ dbg' \in Receiving
    BY <1>0, <1>1, <2>1 DEF UploadInv, Chunks, Waiting, Loaded, Receiving
  <2> QED BY <1>2, <2>1, <2>2
<1>8. CASE Compare
  <2>1. /\ dbg = "compare" /\ dbg' \in {"accept", "data", "idle"} /\ UNCHANGED <<len, xfer_bytes, left>>
        /\ dbg' = "accept" => sum = NChunks
    BY <1>1, <1>8 DEF Compare, buf, xfer
  <2>2. dbg' = "accept" => len = NChunks /\ left = 0
    BY <2>1 DEF UploadInv, BufInv
  <2>3. UploadInv' /\ dbg' \in Receiving \cup {"idle"}
    BY <1>0, <1>1, <2>1, <2>2 DEF UploadInv, FullBuf, Chunks, Waiting, Loaded, Receiving
  <2> QED BY <1>2, <2>1, <2>3
<1> QED BY <1>3, <1>4, <1>5, <1>6, <1>7, <1>8

\* The flag goes up over a full buffer, with the interrupt to come; stopping
\* takes the flag down, with the host's wish on record.
LEMMA DbgPatient ==
    ASSUME IInv, PatientParts,
           AcceptReady \/ AcceptRunning \/ Notify \/ ScriptStop \/ Stop
    PROVE  PatientParts'
<1> USE Types DEF IInv, PatientParts
<1>1. UNCHANGED <<mem, len, xfer_bytes, xfer_length, left, main, text, lexLen, moved, isMain>>
  BY DEF AcceptReady, AcceptRunning, Notify, ScriptStop, Stop, StopRunning, StopReady,
         StopInterrupt, buf, xfer, lexVars
<1>2. RunsWholeScript' /\ ReadInv'
  BY <1>1 DEF RunsWholeScript, ReadInv
<1> USE DEF Receiving, Chunks, Waiting, Loaded
<1>3. CASE AcceptReady
  BY <1>1, <1>2, <1>3 DEF AcceptReady, PlacesInv, UploadInv, InterruptInv, FullBuf
<1>4. CASE AcceptRunning
  BY <1>1, <1>2, <1>4 DEF AcceptRunning, PlacesInv, UploadInv, InterruptInv, FullBuf, history
<1>5. CASE Notify
  <2>1. main = "repl" /\ isMain /\ ready /\ left = 0 /\ FullBuf
    BY <1>5 DEF Notify, PlacesInv, UploadInv, InterruptInv
  <2>2. dbg' = "idle"
    BY <1>5, <2>1 DEF Notify
  <2>3. pending' /\ UNCHANGED <<ready, asked>>
    BY <1>5, <2>1, Zenon DEF Notify, flags, history
  <2> QED
    BY <1>1, <1>2, <2>1, <2>2, <2>3 DEF PlacesInv, UploadInv, InterruptInv, FullBuf
<1>6. CASE ScriptStop
  BY <1>1, <1>2, <1>6 DEF ScriptStop, PlacesInv, UploadInv, InterruptInv, FullBuf, flags
<1>7. CASE StopRunning
  BY <1>1, <1>2, <1>7 DEF StopRunning, PlacesInv, UploadInv, InterruptInv, FullBuf, history
<1>8. CASE StopReady
  BY <1>1, <1>2, <1>8 DEF StopReady, PlacesInv, UploadInv, InterruptInv, FullBuf, history
<1>9. CASE StopInterrupt
  BY <1>1, <1>2, <1>9 DEF StopInterrupt, PlacesInv, UploadInv, InterruptInv, FullBuf, flags, history
<1> QED BY <1>3, <1>4, <1>5, <1>6, <1>7, <1>8, <1>9 DEF Stop

\* usbdbg_init runs while nothing is being received: the flag is down before
\* the buffer is emptied.
LEMMA UsbdbgInitPatient ==
    ASSUME IInv, PatientParts, UsbdbgInit
    PROVE  PatientParts'
<1> USE DEF PatientParts
<1>1. UNCHANGED <<pending, isMain, dbg, left, asked>>
  BY DEF UsbdbgInit, InitReady, InitRunning, InitBytes, InitLength, InitBuf, dbgVars, history
<1>2. main \in {"init1", "init2", "init3", "init4", "init5"} /\ dbg \notin Receiving
  BY DEF UsbdbgInit, InitReady, InitRunning, InitBytes, InitLength, InitBuf, PlacesInv
<1>3. main' \in {"init2", "init3", "init4", "init5", "check"} /\ ~ready'
  BY DEF UsbdbgInit, InitReady, InitRunning, InitBytes, InitLength, InitBuf, UploadInv, flags
<1>4. PlacesInv' /\ UploadInv' /\ ReadInv' /\ RunsWholeScript'
  BY <1>1, <1>2, <1>3
     DEF PlacesInv, UploadInv, ReadInv, RunsWholeScript, Receiving, Chunks, Waiting, Loaded
<1>5. InterruptInv'
  BY <1>1, <1>2, <1>3 DEF InterruptInv, Receiving
<1> QED BY <1>4, <1>5

\* The buffer that is parsed is full and all of it is one script, nobody writes there
\* while it is read, and so the text that is executed is that script.
LEMMA ParsePatient ==
    ASSUME IInv, PatientParts, Parse \/ Lex \/ Execute
    PROVE  PatientParts'
<1> USE Types DEF IInv, PatientParts
<1>1. /\ main \in {"parse", "lex"} /\ main' \in {"lex", "run"}
      /\ UNCHANGED <<ready, pending, isMain, mem, len, xfer_bytes, xfer_length, dbg, left, asked>>
  BY DEF Parse, Lex, Execute, flags, buf, xfer, dbgVars, history
<1>2. dbg \notin Receiving
  BY <1>1 DEF PlacesInv
<1>3. PlacesInv' /\ UploadInv' /\ InterruptInv'
  BY <1>1, <1>2 DEF PlacesInv, UploadInv, InterruptInv, FullBuf, Receiving, Chunks, Waiting, Loaded
<1>4. CASE Parse
  <2>1. main = "parse" /\ main' = "lex" /\ lexLen' = len /\ text' = <<>> /\ moved' = FALSE
    BY <1>4 DEF Parse
  <2>2. FullBuf
    BY <2>1 DEF UploadInv
  <2>3. \E s \in Scripts : \A i \in 1 .. NChunks : mem[i] = s
    <3>1. 1 \in 1 .. NChunks /\ mem[1] \in Scripts /\ \A i \in 1 .. NChunks : mem[i] = mem[1]
      BY <2>2 DEF FullBuf, BufInv
    <3> QED BY <3>1
  <2>4. ReadInv' /\ RunsWholeScript'
    BY <1>1, <2>1, <2>2, <2>3 DEF ReadInv, RunsWholeScript, FullBuf
  <2> QED BY <1>3, <2>4
<1>5. CASE Lex
  <2>1. /\ main = "lex" /\ main' = "lex" /\ Len(text) < lexLen /\ UNCHANGED <<lexLen, moved>>
        /\ ~moved => text' = Append(text, mem[Len(text) + 1])
    BY <1>5 DEF Lex
  <2>2. /\ lexLen = NChunks /\ ~moved /\ \A i \in 1 .. Len(text) : text[i] = mem[i]
        /\ \E s \in Scripts : \A i \in 1 .. NChunks : mem[i] = s
    BY <2>1 DEF ReadInv
  <2>3. Len(text) \in Nat /\ Len(text) + 1 \in 1 .. NChunks /\ mem[Len(text) + 1] \in Scripts \cup {None}
    BY <2>1, <2>2
  <2>4. /\ Len(text') = Len(text) + 1 /\ text'[Len(text) + 1] = mem[Len(text) + 1]
        /\ \A i \in 1 .. Len(text) : text'[i] = text[i]
    BY <2>1, <2>2, <2>3, AppendProperties
  <2>5. \A i \in 1 .. Len(text') : text'[i] = mem[i]
    <3>1. ASSUME NEW i \in 1 .. Len(text') PROVE i \in 1 .. Len(text) \/ i = Len(text) + 1
      BY <2>3, <2>4
    <3>2. ASSUME NEW i \in 1 .. Len(text') PROVE text'[i] = mem[i]
      <4>1. CASE i \in 1 .. Len(text)
        <5>1. text'[i] = text[i]
          BY <2>4, <4>1
        <5>2. text[i] = mem[i]
          BY <2>2, <4>1
        <5> QED BY <5>1, <5>2
      <4>2. CASE i = Len(text) + 1
        BY <2>4, <4>2
      <4> QED BY <3>1, <4>1, <4>2
    <3> QED BY <3>2
  <2>6. ReadInv' /\ RunsWholeScript'
    BY <1>1, <2>1, <2>2, <2>5 DEF ReadInv, RunsWholeScript
  <2> QED BY <1>3, <2>6
<1>6. CASE Execute
  <2>1. main = "lex" /\ main' = "run" /\ Len(text) = lexLen /\ text' = text
    BY <1>6 DEF Execute, lexVars
  <2>2. PICK s \in Scripts : \A i \in 1 .. NChunks : mem[i] = s
    BY <2>1 DEF ReadInv
  <2>3. text \in [1 .. NChunks -> Scripts \cup {None}] /\ \A i \in 1 .. NChunks : text[i] = s
    BY <2>1, <2>2 DEF ReadInv
  <2>4. text = [i \in 1 .. NChunks |-> s]
    BY <2>3
  <2>5. ReadInv' /\ RunsWholeScript'
    BY <2>1, <2>4 DEF ReadInv, RunsWholeScript
  <2> QED BY <1>3, <2>5
<1> QED BY <1>4, <1>5, <1>6

\* The other steps of the OpenMV thread.  The REPL takes the interrupt before
\* the script starts, and returns by itself only when no script is ready.
LEMMA MainPatient ==
    ASSUME IInv, Patient, PatientParts,
           \/ MainPyEnds \/ Check \/ ReplInterrupted \/ Leave \/ Test \/ Swallow
           \/ ScriptEnds \/ StopScript
           \/ \E o \in BOOLEAN : Interrupted(o)
           \/ \E again \in BOOLEAN : ReplReturns(again)
    PROVE  PatientParts'
<1> USE DEF PatientParts, Receiving, Chunks, Waiting, Loaded
<1>1. ~Swallow /\ ~MainPyEnds
  BY DEF Patient, Swallow, MainPyEnds, PlacesInv
<1>2. UNCHANGED <<len, xfer_bytes, xfer_length, dbg, left, seenLength, seenBytes, sum, asked>>
  BY DEF MainPyEnds, Check, ReplInterrupted, Leave, Test, Swallow, ScriptEnds, Interrupted,
         ReplReturns, StopScript, OutRunning, OutReady, OutInterrupt, buf, xfer, dbgVars, local,
         history
<1>0. main' \notin {"lex", "run"}
  BY <1>1 DEF MainPyEnds, Check, ReplInterrupted, Leave, Test, ScriptEnds, Interrupted,
         ReplReturns, StopScript, OutRunning, OutReady, OutInterrupt
<1> USE <1>0, <1>2 DEF ReadInv, RunsWholeScript
<1>3. CASE Check
  BY <1>3 DEF Check, PlacesInv, UploadInv, InterruptInv, FullBuf, flags
<1>4. CASE ReplInterrupted
  BY <1>4 DEF ReplInterrupted, PlacesInv, UploadInv, InterruptInv, FullBuf, flags
<1>5. CASE Leave
  BY <1>5 DEF Leave, PlacesInv, UploadInv, InterruptInv, FullBuf, flags
<1>6. CASE Test
  BY <1>6 DEF Test, PlacesInv, UploadInv, InterruptInv, FullBuf, flags
<1>7. CASE ScriptEnds
  BY <1>7 DEF ScriptEnds, PlacesInv, UploadInv, InterruptInv, FullBuf, flags
<1>8. ASSUME NEW o \in BOOLEAN, Interrupted(o) PROVE PatientParts'
  <2>1. /\ main = "run" /\ pending /\ main' \in {"init1", "out1"} /\ isMain' = isMain
        /\ ready' = ready /\ pending' = FALSE
    BY <1>8 DEF Interrupted, flags
  <2> QED
    BY <2>1 DEF PlacesInv, UploadInv, InterruptInv, FullBuf
<1>9. ASSUME NEW again \in BOOLEAN, ReplReturns(again) PROVE PatientParts'
  <2>1. dbg = "idle" /\ ~ready
    BY <1>9 DEF ReplReturns, Patient
  <2>2. main' \in {"check", "leave"} /\ UNCHANGED <<ready, pending, isMain>>
    BY <1>9 DEF ReplReturns, flags
  <2> QED
    BY <2>1, <2>2 DEF PlacesInv, UploadInv, InterruptInv
<1>10. CASE StopScript
  <2>1. /\ main \in {"out1", "out2", "out3"} /\ main' \in {"out2", "out3", "init1"}
        /\ isMain' = isMain /\ (ready' => ready)
    BY <1>10 DEF StopScript, OutRunning, OutReady, OutInterrupt, flags
  <2>2. asked /\ dbg \notin Receiving
    BY <2>1 DEF InterruptInv, PlacesInv
  <2> QED
    BY <2>1, <2>2 DEF PlacesInv, UploadInv, InterruptInv, FullBuf
<1> QED BY <1>1, <1>3, <1>4, <1>5, <1>6, <1>7, <1>8, <1>9, <1>10

\* The size of a chunk is never negative when the host waits for the prompt.
LEMMA NoFaultPatient ==
    ASSUME IInv, PatientParts
    PROVE  ~ChunkFault
<1> USE Types DEF IInv, PatientParts
<1>1. dbg = "append" => seenLength = NChunks /\ seenBytes \in 0 .. NChunks
  BY DEF UploadInv
<1> QED BY <1>1 DEF ChunkFault, Size

\* Every step of either thread keeps the invariant of the patient host.
LEMMA NextPatient == IInv /\ PatientInv /\ [Next]_vars => PatientInv'
<1> SUFFICES ASSUME IInv, PatientInv, [Next]_vars PROVE PatientInv'
  OBVIOUS
<1>1. CASE UNCHANGED vars
  BY <1>1 DEF vars, work, flags, buf, xfer, local, dbgVars, lexVars, history, PatientInv,
              PatientParts, Patient, PlacesInv, UploadInv, ReadInv, InterruptInv, RunsWholeScript,
              FullBuf
<1>2. CASE Next
  <2> SUFFICES ASSUME Patient, PatientParts PROVE PatientParts'
    BY <1>2 DEF Next, PatientInv, Patient
  <2> QED
    BY <1>2, ExecPatient, ChunkPatient, DbgPatient, UsbdbgInitPatient, ParsePatient,
       MainPatient, NoFaultPatient
    DEF Next, DbgStep, Upload, MainStep, TakeInterrupt
<1> QED BY <1>1, <1>2

\* With a host that uploads at the prompt, the interpreter runs all the chunks
\* of one script or nothing, whatever chunks the locked collector drops and
\* whenever the host stops.
THEOREM PatientWhole == Spec => []PatientRunsWhole
<1>1. PatientInv => PatientRunsWhole
  BY DEF PatientInv, PatientParts, PatientRunsWhole
<1> QED BY InitIInv, NextIInv, InitPatient, NextPatient, <1>1, PTL DEF Spec

\* The interrupt that wakes the REPL for a script is taken by the REPL: the
\* script is interrupted by the host's wish only.
THEOREM StopOnlyInterrupts == Spec => []OnlyStopInterrupts
<1>1. PatientInv => OnlyStopInterrupts
  BY DEF PatientInv, PatientParts, InterruptInv, OnlyStopInterrupts
<1> QED BY InitIInv, NextIInv, InitPatient, NextPatient, <1>1, PTL DEF Spec

\* The firmware does not fault in usbdbg_data_out when the host is patient.
PatientNoFault == Patient => dbg # "fault"

\* With a patient host no chunk meets counters that usbdbg_init has cleared, so
\* the copy of a chunk never has a negative size.
THEOREM PatientSize == Spec => []PatientNoFault
<1>1. PatientInv => PatientNoFault
  BY DEF PatientInv, PatientParts, PlacesInv, PatientNoFault
<1> QED BY InitIInv, NextIInv, InitPatient, NextPatient, <1>1, PTL DEF Spec
=============================================================================
