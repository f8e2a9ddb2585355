--------------------------- MODULE ScriptControl ---------------------------
(***************************************************************************)
(* How a script gets from the IDE into the interpreter.  The debug thread  *)
(* (usbdbg.c) receives SCRIPT_EXEC, the text and SCRIPT_STOP; the OpenMV   *)
(* thread (omv_main.c) runs main.py, then the REPL until a script is       *)
(* ready, then the script.  They share two flags, the text buffer and the  *)
(* transfer counters without a lock, and run on two cores: every load and  *)
(* store of a flag or a counter is a step of its own, in program order.    *)
(*                                                                         *)
(* MicroPython and the host are external.  The interpreter looks at the    *)
(* pending exception while it runs code or waits for input, takes it and   *)
(* raises it; a script may catch it ("swallow").  A text is a sequence of  *)
(* chunks, each named after the script it belongs to.  script_buf is a     *)
(* vstr: vstr_reset sets its length to 0 and leaves the memory, an append  *)
(* overwrites it and may move it when there is no more room; each of these *)
(* calls is one step.  pyexec_str takes the address and the length once    *)
(* and reads the memory chunk by chunk.                                    *)
(***************************************************************************)
EXTENDS Integers, Sequences

CONSTANTS Scripts,    \* the scripts the host uploads
          NChunks,    \* chunks of a script, SCRIPT_EXEC's length
          None,
          Modes       \* what may happen besides a patient host and plain scripts

ASSUME ScriptControlAssumption ==
    /\ None \notin Scripts
    /\ NChunks \in Nat \ {0}
    /\ Modes \subseteq SUBSET {"main", "swallow", "gc", "hasty"}

VARIABLES
    mode,                \* what happens in this behaviour
    ready, running,      \* script_ready, script_running
    pending,             \* MP_STATE_VM(mp_pending_exception) is set
    isMain,              \* g_isMainDotPyRunning
    mem, len,            \* script_buf: its memory and its length
    xfer_bytes, xfer_length,
    dbg,                 \* where the debug thread is
    up, left,            \* the script it receives, the chunks still to come
    seenLength, seenBytes, sum,  \* what usbdbg_data_out has loaded and added up
    main,                \* where the OpenMV thread is
    text,                \* what the interpreter has read
    lexLen, moved,       \* the length it was given; its memory was given back
    accepted,            \* history: a script received in full, not yet started
    asked,               \* history: the host asked to stop since then
    opened               \* history: script_running was down while the text was read

flags == <<ready, running>>
buf == <<mem, len>>
xfer == <<xfer_bytes, xfer_length>>
local == <<seenLength, seenBytes, sum>>
dbgVars == <<dbg, up, left, local>>
lexVars == <<text, lexLen, moved, opened>>
history == <<accepted, asked>>
work == <<flags, pending, isMain, buf, xfer, dbgVars, main, lexVars, history>>
vars == <<mode, work>>

Fresh == [i \in 1 .. NChunks |-> None]    \* memory that holds no text yet

Init ==
    /\ mode \in Modes
    /\ ready = FALSE /\ running = FALSE /\ pending = FALSE
    /\ mem = Fresh /\ len = 0 /\ xfer_bytes = 0 /\ xfer_length = 0
    /\ dbg = "idle" /\ up = None /\ left = 0
    /\ seenLength = 0 /\ seenBytes = 0 /\ sum = 0
    /\ \/ "main" \in mode /\ main = "main.py" /\ isMain = TRUE
       \/ main = "init1" /\ isMain = FALSE
    /\ text = <<>> /\ lexLen = 0 /\ moved = FALSE /\ opened = FALSE
    /\ accepted = None /\ asked = FALSE

----------------------------------------------------------------------------
(* usbdbg.c, on the debug thread *)

\* A patient host waits for the prompt (or for main.py) before it uploads.
HostReady == "hasty" \in mode \/ (main \in {"repl", "main.py"} /\ ~pending)

\* usbdbg_control, SCRIPT_EXEC: the counters, then the length of the buffer,
\* whoever is using it.
ScriptExec(s) ==
    /\ dbg = "idle" /\ HostReady
    /\ xfer_bytes' = 0
    /\ dbg' = "exec1" /\ up' = s /\ left' = NChunks
    /\ UNCHANGED <<flags, pending, isMain, buf, xfer_length, local, main, lexVars, history>>

ExecLength ==
    /\ dbg = "exec1"
    /\ xfer_length' = NChunks
    /\ dbg' = "exec2"
    /\ UNCHANGED <<flags, pending, isMain, buf, xfer_bytes, up, left, local, main, lexVars, history>>

ExecReset ==
    /\ dbg = "exec2"
    /\ len' = 0
    /\ dbg' = "data"
    /\ UNCHANGED <<flags, pending, isMain, mem, xfer, up, left, local, main, lexVars, history>>

\* usbdbg_data_out, SCRIPT_EXEC, one chunk: the counters are loaded, in either
\* order, for the size that is still expected.
LoadLength ==
    /\ dbg \in {"data", "gotBytes"}
    /\ seenLength' = xfer_length
    /\ dbg' = IF dbg = "data" THEN "gotLength" ELSE "got"
    /\ UNCHANGED <<flags, pending, isMain, buf, xfer, up, left, seenBytes, sum, main, lexVars, history>>

LoadBytes ==
    /\ dbg \in {"data", "gotLength"}
    /\ seenBytes' = xfer_bytes
    /\ dbg' = IF dbg = "data" THEN "gotBytes" ELSE "got"
    /\ UNCHANGED <<flags, pending, isMain, buf, xfer, up, left, seenLength, sum, main, lexVars, history>>

Size == IF seenLength - seenBytes < 1 THEN seenLength - seenBytes ELSE 1

\* Fault: script_running is not tested.
TakenAlways == TRUE

Taken == ~running

\* The host sends all chunks, taken or not.
Forget == seenLength' = 0 /\ seenBytes' = 0 /\ sum' = 0
NextChunk == IF left' > 0 THEN "data" ELSE "idle"

\* Fault: a chunk that the locked collector kept out is counted.
TestCounts(lost) ==
    /\ dbg = "got"
    /\ lost => "gc" \in mode
    /\ left' = left - 1
    /\ \/ Taken /\ dbg' = (IF lost THEN "count" ELSE "append") /\ UNCHANGED local
       \/ ~Taken /\ dbg' = NextChunk /\ Forget
    /\ UNCHANGED <<flags, pending, isMain, buf, xfer, up, main, lexVars, history>>

\* A script is running or the collector is locked: the chunk is dropped.
ChunkTest(lost) ==
    /\ dbg = "got"
    /\ lost => "gc" \in mode
    /\ left' = left - 1
    /\ \/ Taken /\ ~lost /\ dbg' = "append" /\ UNCHANGED local
       \/ ~(Taken /\ ~lost) /\ dbg' = NextChunk /\ Forget
    /\ UNCHANGED <<flags, pending, isMain, buf, xfer, up, main, lexVars, history>>

\* vstr_add_strn: over what was there before, in memory that may have to move
\* when the text outgrows the one that is being read.
ChunkAppend(moves) ==
    /\ dbg = "append" /\ Size >= 0
    /\ moves => Size = 1 /\ main = "lex" /\ len >= lexLen
    /\ \/ Size = 1 /\ mem' = [mem EXCEPT ![len + 1] = up] /\ len' = len + 1
       \/ Size # 1 /\ UNCHANGED buf
    /\ moved' = (moved \/ moves)
    /\ dbg' = "count"
    /\ UNCHANGED <<flags, pending, isMain, xfer, up, left, local, main, text, lexLen, opened, history>>

\* usbdbg_init got between the loads and the size is negative: vstr_add_strn
\* copies without end and the firmware stops in a hard fault.
ChunkFault ==
    /\ dbg = "append" /\ Size < 0
    /\ dbg' = "fault" /\ main' = "fault"
    /\ UNCHANGED <<flags, pending, isMain, buf, xfer, up, left, local, lexVars, history>>

CountLoad ==
    /\ dbg = "count"
    /\ sum' = xfer_bytes + Size
    /\ dbg' = "store"
    /\ UNCHANGED <<flags, pending, isMain, buf, xfer, up, left, seenLength, seenBytes, main, lexVars, history>>

CountStore ==
    /\ dbg = "store"
    /\ xfer_bytes' = sum
    /\ dbg' = "compare"
    /\ UNCHANGED <<flags, pending, isMain, buf, xfer_length, up, left, local, main, lexVars, history>>

\* The transfer is over when the counters agree.
Compare ==
    /\ dbg = "compare"
    /\ dbg' = IF sum = xfer_length THEN "accept" ELSE IF left > 0 THEN "data" ELSE "idle"
    /\ Forget
    /\ UNCHANGED <<flags, pending, isMain, buf, xfer, up, left, main, lexVars, history>>

\* The script is complete: the two flags, then the interrupt for the REPL.
AcceptReady ==
    /\ dbg = "accept"
    /\ ready' = TRUE
    /\ dbg' = "accept2"
    /\ accepted' = up /\ asked' = FALSE
    /\ UNCHANGED <<running, pending, isMain, buf, xfer, up, left, local, main, lexVars>>

AcceptRunning ==
    /\ dbg = "accept2"
    /\ running' = TRUE
    /\ dbg' = "notify"
    /\ UNCHANGED <<ready, pending, isMain, buf, xfer, up, left, local, main, lexVars, history>>

\* Fault: the REPL is not interrupted.
NotifyNobody ==
    /\ dbg = "notify"
    /\ dbg' = IF left > 0 THEN "data" ELSE "idle"
    /\ UNCHANGED <<flags, pending, isMain, buf, xfer, up, left, local, main, lexVars, history>>

Notify ==
    /\ dbg = "notify"
    /\ pending' = (pending \/ isMain)
    /\ dbg' = IF left > 0 THEN "data" ELSE "idle"
    /\ UNCHANGED <<flags, isMain, buf, xfer, up, left, local, main, lexVars, history>>

\* usbdbg_control, SCRIPT_STOP
ScriptStop ==
    /\ dbg = "idle"
    /\ dbg' = IF running THEN "stop" ELSE "quiet"
    /\ accepted' = None /\ asked' = TRUE
    /\ UNCHANGED <<flags, pending, isMain, buf, xfer, up, left, local, main, lexVars>>

\* Fault: the script is told to be over without an interrupt.
StopQuietly ==
    /\ dbg \in {"stop1", "quiet1"}
    /\ ready' = FALSE
    /\ dbg' = "idle"
    /\ UNCHANGED <<running, pending, isMain, buf, xfer, up, left, local, main, lexVars, history>>

\* usbdbg_stop_script, or the two flags only when nothing is running
StopRunning ==
    /\ dbg \in {"stop", "quiet"}
    /\ running' = FALSE
    /\ opened' = (opened \/ main = "lex")
    /\ dbg' = IF dbg = "stop" THEN "stop1" ELSE "quiet1"
    /\ UNCHANGED <<ready, pending, isMain, buf, xfer, up, left, local, main, text, lexLen, moved, history>>

StopReady ==
    /\ dbg \in {"stop1", "quiet1"}
    /\ ready' = FALSE
    /\ dbg' = IF dbg = "stop1" THEN "stop2" ELSE "idle"
    /\ UNCHANGED <<running, pending, isMain, buf, xfer, up, left, local, main, lexVars, history>>

StopInterrupt ==
    /\ dbg = "stop2"
    /\ pending' = TRUE
    /\ dbg' = "idle"
    /\ UNCHANGED <<flags, isMain, buf, xfer, up, left, local, main, lexVars, history>>

----------------------------------------------------------------------------
(* omv_main.c, on the OpenMV thread *)

\* main.py ends, or the pending exception ends it.
MainPyEnds ==
    /\ main = "main.py"
    /\ pending' = FALSE
    /\ isMain' = FALSE
    /\ main' = "init1"
    /\ UNCHANGED <<flags, buf, xfer, dbgVars, lexVars, history>>

\* usbdbg_init, store by store
InitReady ==
    /\ main = "init1" /\ ready' = FALSE /\ main' = "init2"
    /\ UNCHANGED <<running, pending, isMain, buf, xfer, dbgVars, lexVars, history>>
InitRunning ==
    /\ main = "init2" /\ running' = FALSE /\ main' = "init3"
    /\ UNCHANGED <<ready, pending, isMain, buf, xfer, dbgVars, lexVars, history>>
InitBytes ==
    /\ main = "init3" /\ xfer_bytes' = 0 /\ main' = "init4"
    /\ UNCHANGED <<flags, pending, isMain, buf, xfer_length, dbgVars, lexVars, history>>
InitLength ==
    /\ main = "init4" /\ xfer_length' = 0 /\ main' = "init5"
    /\ UNCHANGED <<flags, pending, isMain, buf, xfer_bytes, dbgVars, lexVars, history>>
InitBuf ==
    /\ main = "init5" /\ mem' = Fresh /\ len' = 0 /\ main' = "check"
    /\ UNCHANGED <<flags, pending, isMain, xfer, dbgVars, lexVars, history>>

UsbdbgInit == InitReady \/ InitRunning \/ InitBytes \/ InitLength \/ InitBuf

\* while (!usbdbg_script_ready())
Check ==
    /\ main = "check"
    /\ \/ ready /\ main' = "leave" /\ UNCHANGED isMain
       \/ ~ready /\ main' = "repl" /\ isMain' = TRUE
    /\ UNCHANGED <<flags, pending, buf, xfer, dbgVars, lexVars, history>>

\* Fault: the exception stays pending.
ReplKeepsPending ==
    /\ main = "repl" /\ pending
    /\ main' = "check"
    /\ UNCHANGED <<flags, pending, isMain, buf, xfer, dbgVars, lexVars, history>>

\* The exception ends the REPL and the loop goes round.
ReplInterrupted ==
    /\ main = "repl" /\ pending
    /\ pending' = FALSE
    /\ main' = "check"
    /\ UNCHANGED <<flags, isMain, buf, xfer, dbgVars, lexVars, history>>

\* The REPL returns: with 0 (a change of mode) the loop goes round, with
\* something else (Ctrl-D) it ends; a patient user does not do this during an
\* upload.
ReplReturns(again) ==
    /\ main = "repl"
    /\ "hasty" \in mode \/ (dbg = "idle" /\ ~ready)
    /\ main' = IF again THEN "check" ELSE "leave"
    /\ UNCHANGED <<flags, pending, isMain, buf, xfer, dbgVars, lexVars, history>>

Leave ==
    /\ main = "leave"
    /\ isMain' = FALSE
    /\ main' = "test"
    /\ UNCHANGED <<flags, pending, buf, xfer, dbgVars, lexVars, history>>

Test ==
    /\ main = "test"
    /\ main' = IF ready THEN "parse" ELSE "init1"
    /\ UNCHANGED <<flags, pending, isMain, buf, xfer, dbgVars, lexVars, history>>

\* pyexec_str takes the address and the length of the text,
Parse ==
    /\ main = "parse"
    /\ lexLen' = len /\ text' = <<>> /\ moved' = FALSE
    /\ opened' = (~running /\ dbg # "accept2")
    /\ accepted' = None
    /\ main' = "lex"
    /\ UNCHANGED <<flags, pending, isMain, buf, xfer, dbgVars, asked>>

\* reads the memory, or what has become of it, and compiles,
Lex ==
    /\ main = "lex" /\ Len(text) < lexLen
    /\ \E c \in IF moved THEN Scripts \cup {None} ELSE {mem[Len(text) + 1]} :
          text' = Append(text, c)
    /\ UNCHANGED <<flags, pending, isMain, buf, xfer, dbgVars, main, lexLen, moved, opened, history>>

\* and executes.
Execute ==
    /\ main = "lex" /\ Len(text) = lexLen
    /\ main' = "run"
    /\ UNCHANGED <<flags, pending, isMain, buf, xfer, dbgVars, lexVars, history>>

\* The interpreter is through with the text.
Done == text' = <<>> /\ lexLen' = 0 /\ moved' = FALSE /\ opened' = FALSE

ScriptEnds ==
    /\ main = "run"
    /\ Done
    /\ main' = "init1"
    /\ UNCHANGED <<flags, pending, isMain, buf, xfer, dbgVars, history>>

\* The interrupt ends the script: inside pyexec_str, or out to omv_main's
\* handler, which calls usbdbg_stop_script.
Interrupted(outside) ==
    /\ main = "run" /\ pending
    /\ Done
    /\ pending' = FALSE
    /\ main' = IF outside THEN "out1" ELSE "init1"
    /\ UNCHANGED <<flags, isMain, buf, xfer, dbgVars, history>>

OutRunning ==
    /\ main = "out1" /\ running' = FALSE /\ main' = "out2"
    /\ UNCHANGED <<ready, pending, isMain, buf, xfer, dbgVars, lexVars, history>>
OutReady ==
    /\ main = "out2" /\ ready' = FALSE /\ main' = "out3"
    /\ UNCHANGED <<running, pending, isMain, buf, xfer, dbgVars, lexVars, history>>
OutInterrupt ==
    /\ main = "out3" /\ pending' = TRUE /\ main' = "init1"
    /\ UNCHANGED <<flags, isMain, buf, xfer, dbgVars, lexVars, history>>

\* The script catches it ("except Exception") and goes on.
Swallow ==
    /\ "swallow" \in mode
    /\ main = "run" /\ pending
    /\ pending' = FALSE
    /\ UNCHANGED <<flags, isMain, buf, xfer, dbgVars, main, lexVars, history>>

----------------------------------------------------------------------------
Upload == ExecLength \/ ExecReset \/ LoadLength \/ LoadBytes \/ CountLoad \/ CountStore \/ Compare
Stop == StopRunning \/ StopReady \/ StopInterrupt

DbgStep ==
    \/ Upload \/ Stop
    \/ \E lost \in BOOLEAN : ChunkTest(lost)
    \/ \E moves \in BOOLEAN : ChunkAppend(moves)
    \/ ChunkFault \/ AcceptReady \/ AcceptRunning \/ Notify

TakeInterrupt ==
    \/ ReplInterrupted
    \/ \E o \in BOOLEAN : Interrupted(o)
    \/ Swallow

StopScript == OutRunning \/ OutReady \/ OutInterrupt

MainStep ==
    \/ UsbdbgInit \/ Check \/ Leave \/ Test
    \/ Parse \/ Lex \/ Execute \/ StopScript \/ TakeInterrupt

Next ==
    /\ \/ \E s \in Scripts : ScriptExec(s)
       \/ ScriptStop \/ DbgStep
       \/ MainStep \/ MainPyEnds \/ ScriptEnds
       \/ \E again \in BOOLEAN : ReplReturns(again)
    /\ UNCHANGED mode

Spec == Init /\ [][Next]_vars

(* Both threads run on and the interpreter polls the pending exception; a   *)
(* script, main.py and the REPL may go on for ever.                         *)
FairSpec == Spec /\ WF_work(DbgStep) /\ WF_work(MainStep)

----------------------------------------------------------------------------
(* Properties *)

MainPlaces == {"main.py", "init1", "init2", "init3", "init4", "init5", "check", "repl",
               "leave", "test", "parse", "lex", "run", "out1", "out2", "out3", "fault"}
DbgPlaces == {"idle", "exec1", "exec2", "data", "gotLength", "gotBytes", "got", "append",
              "count", "store", "compare", "accept", "accept2", "notify",
              "stop", "stop1", "stop2", "quiet", "quiet1", "fault"}

\* Flags, counters and buffer stay in their ranges: no chunk is stored past the
\* length SCRIPT_EXEC gave, although usbdbg_init clears the counters at any point
\* of a chunk.
TypeOK ==
    /\ {ready, running, pending, isMain, asked, moved, opened} \subseteq BOOLEAN
    /\ mem \in [1 .. NChunks -> Scripts \cup {None}]
    /\ {len, lexLen, left, xfer_bytes, seenBytes, sum} \subseteq 0 .. NChunks
    /\ {xfer_length, seenLength} \subseteq {0, NChunks}
    /\ text \in Seq(Scripts \cup {None}) /\ Len(text) <= lexLen
    /\ dbg \in DbgPlaces /\ main \in MainPlaces
    /\ up \in Scripts \cup {None} /\ accepted \in Scripts \cup {None}

\* "If GC was locked at least once before the script is fully uploaded
\* xfer_bytes will be less than the total length (xfer_length) and the script
\* will Not be executed" (usbdbg.c:295): what the interpreter runs is all the
\* chunks of one script.
RunsWholeScript ==
    main = "run" => \E s \in Scripts : text = [i \in 1 .. NChunks |-> s]

\* The host uploads at the prompt only, with no main.py, and scripts let the
\* interrupt through; chunks may be lost while the collector is locked.
Patient == mode \subseteq {"gc"}

\* With a patient host incomplete scripts are not run,
PatientRunsWhole == Patient => RunsWholeScript

\* and SCRIPT_STOP ends the script, whatever point of its start it meets - as
\* long as the script does not catch the interrupt.
PatientStops == Patient /\ main = "run" /\ asked ~> main # "run"

\* The interrupt that wakes the REPL for a new script never hits the script
\* itself (patient host): a running script has an interrupt pending only if
\* the host asked to stop.
OnlyStopInterrupts == Patient /\ main = "run" /\ pending => asked

\* Whatever the host, the user and the scripts do, script_running protects the
\* text: while it is up (or about to go up) no chunk of another script comes into
\* what the interpreter reads, although the buffer is emptied and refilled.
OneScriptText ==
    ~opened => \A i, j \in 1 .. Len(text) : text[i] = text[j]

\* An accepted script is started, unless the host stops it first.
AcceptedStarts == \A s \in Scripts : Patient /\ accepted = s ~> accepted # s
=============================================================================
