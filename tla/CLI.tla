-------------------------------- MODULE CLI --------------------------------
(***************************************************************************)
(* The command line (cmd/vern-cli/main.go): the line editor with its       *)
(* history, the session with its one database, and the goroutine that      *)
(* shuts both down on a signal while a command may be running.             *)
(*                                                                         *)
(* A line is the command it spells and the number of its words; typing and *)
(* erasing characters turn the buffer into some other line.  The engine is *)
(* its Open, its Close and the calls between; reads, writes and scans are  *)
(* alike here.                                                             *)
(***************************************************************************)
EXTENDS Naturals, Sequences

CONSTANTS
    Lines,              \* lines a user may type: [cmd, words]
    MaxHistorySize,     \* maxHistorySize, 1000 in the code
    MaxEdits            \* bound on edits of the buffer

ASSUME LinesAssumption == Lines \subseteq [cmd : STRING, words : Nat \ {0}]
ASSUME CLIBoundsAssumption == MaxHistorySize \in Nat \ {0} /\ MaxEdits \in Nat

\* The empty buffer, and one that is empty once its spaces are trimmed.
NoInput == [cmd |-> "", words |-> 0]
Spaces == [cmd |-> " ", words |-> 0]

VARIABLES
    pc,             \* where the main goroutine is
    sig,            \* where the signal goroutine is
    tty, termState, \* mode of the terminal, and the one saved by enterRawMode
    oldState,       \* what MakeRaw found, until enterRawMode has saved it
    raw,            \* runInputLoop, not its fallback, reads the input
    history, historyIndex, inputBuffer, tempInput,
    line,           \* the command under way
    db, isOpen,     \* "nil", "open" or "closed"; the session's flag
    exited,         \* how the process ended
    \* Ghosts.
    draft,          \* what was last typed below the history
    openAtSignal,   \* isOpen when the signal came
    late,           \* the signal goroutine has been too early for MakeRaw
    edits

editor == <<history, historyIndex, inputBuffer, tempInput>>
session == <<line, db, isOpen>>
terminal == <<tty, termState, oldState, raw>>
ghosts == <<draft, openAtSignal, late, edits>>
vars == <<pc, sig, terminal, editor, session, exited, ghosts>>

Init ==
    /\ pc = "start" /\ sig = "wait"
    /\ tty = "cooked" /\ termState = "nil" /\ oldState = "nil" /\ raw = FALSE
    /\ history = <<>> /\ historyIndex = 0
    /\ inputBuffer = NoInput /\ tempInput = NoInput
    /\ line = NoInput /\ db = "nil" /\ isOpen = FALSE
    /\ exited = "no"
    /\ draft = NoInput /\ openAtSignal = FALSE /\ late = FALSE /\ edits = 0

\* The main goroutine is at a point, and the process has not ended.
At(point) == pc = point /\ exited = "no"

-----------------------------------------------------------------------------
(* The terminal.                                                           *)

\* enterRawMode takes two steps when it succeeds: term.MakeRaw switches the
\* terminal and returns the mode it found, and only then is that mode where
\* the signal goroutine looks for it.
MakeRaw ==
    /\ oldState' = tty /\ tty' = "raw"
    /\ late' = (late \/ sig \in {"close", "exit"})

EnterRawMode == termState' = oldState /\ UNCHANGED <<tty, oldState>>

\* exitRawMode.
ExitRawMode ==
    /\ tty' = IF termState = "nil" THEN tty ELSE termState
    /\ UNCHANGED <<termState, oldState>>

\* runInputLoop, or its fallback when the input is not a terminal.
Start ==
    /\ At("start")
    /\ \/ MakeRaw /\ pc' = "entering"
       \/ UNCHANGED <<tty, oldState, late>> /\ pc' = "simple"
    /\ UNCHANGED <<sig, termState, raw, editor, session, exited, draft, openAtSignal, edits>>

Entered ==
    /\ At("entering")
    /\ EnterRawMode /\ raw' = TRUE
    /\ historyIndex' = Len(history)
    /\ pc' = "input"
    /\ UNCHANGED <<sig, history, inputBuffer, tempInput, session, exited, ghosts>>

-----------------------------------------------------------------------------
(* The line editor.                                                        *)

\* Printable characters and backspace.
Edit(l) ==
    /\ At("input") /\ l # inputBuffer
    /\ edits < MaxEdits /\ edits' = edits + 1
    /\ inputBuffer' = l
    /\ draft' = IF historyIndex = Len(history) THEN l ELSE draft
    /\ UNCHANGED <<pc, sig, terminal, history, historyIndex, tempInput, session, exited,
                   openAtSignal, late>>

\* Mutant: whatever is in the buffer is kept as the draft.
KeyUpAlwaysSaves ==
    /\ At("input") /\ historyIndex > 0
    /\ tempInput' = inputBuffer
    /\ historyIndex' = historyIndex - 1
    /\ inputBuffer' = history[historyIndex]
    /\ UNCHANGED <<pc, sig, terminal, history, session, exited, ghosts>>

\* Up arrow.  historyIndex counts from 0, the sequence from 1.
KeyUp ==
    /\ At("input") /\ historyIndex > 0
    /\ tempInput' = IF historyIndex = Len(history) THEN inputBuffer ELSE tempInput
    /\ historyIndex' = historyIndex - 1
    /\ inputBuffer' = history[historyIndex]
    /\ UNCHANGED <<pc, sig, terminal, history, session, exited, ghosts>>

\* Down arrow.
KeyDown ==
    /\ At("input") /\ historyIndex < Len(history)
    /\ historyIndex' = historyIndex + 1
    /\ inputBuffer' = IF historyIndex + 1 = Len(history) THEN tempInput
                      ELSE history[historyIndex + 2]
    /\ UNCHANGED <<pc, sig, terminal, history, tempInput, session, exited, ghosts>>

\* Mutant: the history grows without end.
AddToHistoryUntrimmed(h, l) ==
    IF h # <<>> /\ h[Len(h)] = l THEN h ELSE Append(h, l)

\* addToHistory: no line twice in a row, the oldest line makes room.
AddToHistory(h, l) ==
    LET longer == Append(h, l)
    IN  IF h # <<>> /\ h[Len(h)] = l THEN h
        ELSE IF Len(longer) > MaxHistorySize THEN Tail(longer) ELSE longer

Trimmed(l) == IF l = Spaces THEN NoInput ELSE l

\* Enter: the terminal is restored for the command, which goes to the history.
KeyEnter ==
    /\ At("input")
    /\ ExitRawMode
    /\ line' = Trimmed(inputBuffer)
    /\ history' = IF line' = NoInput THEN history ELSE AddToHistory(history, line')
    /\ pc' = IF line' = NoInput THEN "ready" ELSE "command"
    /\ UNCHANGED <<sig, raw, historyIndex, inputBuffer, tempInput, db, isOpen, exited, ghosts>>

\* Ctrl+C, and Ctrl+D in an empty line.
KeyCtrl ==
    /\ At("input")
    /\ ExitRawMode
    /\ pc' = "exit"
    /\ UNCHANGED <<sig, raw, editor, session, exited, ghosts>>

\* The end of the input: the loop is left, main returns, and nobody calls Close.
InputEnds ==
    /\ At("input") \/ At("simple")
    /\ IF raw THEN ExitRawMode ELSE UNCHANGED <<tty, termState, oldState>>
    /\ exited' = "input"
    /\ UNCHANGED <<pc, sig, raw, editor, session, ghosts>>

\* The fallback: Scanln reads one word, and a line without one or with more is
\* an error that leaves the loop.
SimpleLine(l) ==
    /\ At("simple") /\ edits < MaxEdits /\ edits' = edits + 1
    /\ IF l.words = 1 THEN line' = l /\ pc' = "command" /\ UNCHANGED exited
       ELSE exited' = "input" /\ UNCHANGED <<pc, line>>
    /\ UNCHANGED <<sig, terminal, editor, db, isOpen, draft, openAtSignal, late>>

\* Back for the next line: raw mode again, then an empty buffer below the
\* history.
Ready ==
    /\ At("ready") /\ raw
    /\ MakeRaw
    /\ pc' = "reentering"
    /\ UNCHANGED <<sig, termState, raw, editor, session, exited, draft, openAtSignal, edits>>

Reentered ==
    /\ At("reentering")
    /\ EnterRawMode
    /\ inputBuffer' = NoInput /\ historyIndex' = Len(history) /\ tempInput' = NoInput
    /\ draft' = NoInput
    /\ pc' = "input"
    /\ UNCHANGED <<sig, raw, history, session, exited, openAtSignal, late, edits>>

\* "Fatal: failed to re-enter raw mode".
ReadyFails ==
    /\ At("ready") /\ raw
    /\ exited' = "fatal"
    /\ UNCHANGED <<pc, sig, terminal, editor, session, ghosts>>

ReadySimple ==
    /\ At("ready") /\ ~raw
    /\ pc' = "simple"
    /\ UNCHANGED <<sig, terminal, editor, session, exited, ghosts>>

-----------------------------------------------------------------------------
(* The commands.                                                           *)

\* Commands that call the engine, and the words they need: PUT <key> <value>,
\* SCAN <keyN> <keyM> or SCAN -pre <key>, GET <key>, DELETE <key>.
CallWords == [PUT |-> 3, SCAN |-> 3, GET |-> 2, DELETE |-> 2]

Opens == line.cmd = "OPEN" /\ ~isOpen /\ line.words >= 2
Calls == line.cmd \in DOMAIN CallWords /\ isOpen /\ line.words >= CallWords[line.cmd]

\* handleCommand: a command that is unknown, or misses its arguments or its
\* database, prints a message, as do HELP and CLEAR.
HandleCommand ==
    /\ At("command")
    /\ pc' = IF line.cmd = "EXIT" THEN "exit"
             ELSE IF Opens THEN "open"
             ELSE IF Calls THEN "call"
             ELSE "ready"
    /\ UNCHANGED <<sig, terminal, editor, session, exited, ghosts>>

\* Mutant: the flag is set although Open failed.
OpenAnyway ==
    /\ At("open")
    /\ db' \in {"open", "nil"} /\ pc' = "opened"
    /\ UNCHANGED <<sig, terminal, editor, line, isOpen, exited, ghosts>>

\* engine.Open returns a database, or nil and an error; the flag is set next.
Open ==
    /\ At("open")
    /\ \/ db' = "open" /\ pc' = "opened"
       \/ db' = "nil" /\ pc' = "ready"
    /\ UNCHANGED <<sig, terminal, editor, line, isOpen, exited, ghosts>>

Opened ==
    /\ At("opened")
    /\ isOpen' = TRUE /\ pc' = "ready"
    /\ UNCHANGED <<sig, terminal, editor, line, db, exited, ghosts>>

\* A call of the engine returns, with an error once the database is closed.
Call ==
    /\ At("call")
    /\ pc' = "ready"
    /\ UNCHANGED <<sig, terminal, editor, session, exited, ghosts>>

\* Mutant: nobody closes the database.
CloseDBNever == UNCHANGED db

\* if isOpen && db != nil { db.Close() }
CloseDB == db' = IF isOpen /\ db = "open" THEN "closed" ELSE db

\* EXIT, Ctrl+C and Ctrl+D close the database and end the process.
Exit ==
    /\ At("exit")
    /\ CloseDB
    /\ exited' = "main"
    /\ UNCHANGED <<pc, sig, terminal, editor, line, isOpen, ghosts>>

-----------------------------------------------------------------------------
(* SIGINT or SIGTERM, at any time.                                         *)

Signal ==
    /\ sig = "wait" /\ exited = "no"
    /\ sig' = "restore"
    /\ openAtSignal' = isOpen
    /\ UNCHANGED <<pc, terminal, editor, session, exited, draft, late, edits>>

\* Mutant: the handler closes the database and leaves the terminal alone.
SignalRestoreNot ==
    /\ sig = "restore" /\ exited = "no"
    /\ sig' = "close" /\ late' = (late \/ pc = "entering")
    /\ UNCHANGED <<pc, terminal, editor, session, exited, draft, openAtSignal, edits>>

\* Within the first enterRawMode the terminal may be raw and termState still
\* nil: there is nothing to restore it from.
SignalRestore ==
    /\ sig = "restore" /\ exited = "no"
    /\ ExitRawMode
    /\ sig' = "close" /\ late' = (late \/ pc = "entering")
    /\ UNCHANGED <<pc, raw, editor, session, exited, draft, openAtSignal, edits>>

SignalClose ==
    /\ sig = "close" /\ exited = "no"
    /\ CloseDB
    /\ sig' = "exit"
    /\ UNCHANGED <<pc, terminal, editor, line, isOpen, exited, ghosts>>

SignalExit ==
    /\ sig = "exit" /\ exited = "no"
    /\ exited' = "signal"
    /\ UNCHANGED <<pc, sig, terminal, editor, session, ghosts>>

-----------------------------------------------------------------------------
Editor ==
    \/ Start \/ Entered
    \/ \E l \in Lines \cup {NoInput, Spaces} : Edit(l)
    \/ KeyUp \/ KeyDown \/ KeyEnter \/ KeyCtrl \/ InputEnds
    \/ \E l \in Lines \cup {NoInput, Spaces} : SimpleLine(l)
    \/ Ready \/ Reentered \/ ReadyFails \/ ReadySimple

Command == HandleCommand \/ Open \/ Opened \/ Call \/ Exit

Shutdown == Signal \/ SignalRestore \/ SignalClose \/ SignalExit

Next == Editor \/ Command \/ Shutdown

Spec == Init /\ [][Next]_vars

-----------------------------------------------------------------------------
(* Properties.                                                             *)

AllLines == Lines \cup {NoInput, Spaces}

\* Every variable has its type: the history stays within its size, and the
\* arrows never leave it.
TypeOK ==
    /\ pc \in {"start", "entering", "input", "simple", "command", "open", "opened", "call", "ready",
               "reentering", "exit"}
    /\ sig \in {"wait", "restore", "close", "exit"}
    /\ tty \in {"cooked", "raw"} /\ {termState, oldState} \subseteq {"nil", "cooked", "raw"}
    /\ raw \in BOOLEAN
    /\ history \in Seq(AllLines) /\ Len(history) <= MaxHistorySize
    /\ historyIndex \in 0..MaxHistorySize
    /\ pc = "input" => historyIndex <= Len(history)
    /\ {inputBuffer, tempInput, line, draft} \subseteq AllLines
    /\ db \in {"nil", "open", "closed"} /\ isOpen \in BOOLEAN
    /\ exited \in {"no", "main", "input", "fatal", "signal"}
    /\ openAtSignal \in BOOLEAN /\ late \in BOOLEAN /\ edits \in 0..MaxEdits

(***************************************************************************)
(* The arrows give the typed line back: below the history the buffer is    *)
(* what was last typed there, however far up the user went in between and  *)
(* whatever lines of the history were edited on the way.                   *)
(***************************************************************************)
DraftKept == At("input") /\ historyIndex = Len(history) => inputBuffer = draft

(***************************************************************************)
(* A command never calls the engine through the nil a failed OPEN leaves,  *)
(* whatever was opened, failed to open or was typed before.  The database  *)
(* may already be closed: the signal goroutine does so beside a command,   *)
(* and the call then returns an error.                                     *)
(***************************************************************************)
CallsHaveDatabase == pc = "call" => db # "nil"

(***************************************************************************)
(* However many commands ran before, EXIT, Ctrl+C, Ctrl+D, the end of the  *)
(* input and the fatal error leave the terminal as it was found, and so    *)
(* does a signal, unless its handler restored the terminal before the main *)
(* goroutine's MakeRaw, or within the first enterRawMode.                  *)
(***************************************************************************)
TerminalRestored ==
    exited \in {"main", "input", "fatal"} \/ (exited = "signal" /\ ~late) => tty = "cooked"

(***************************************************************************)
(* No database the session had opened is left open by EXIT, Ctrl+C,        *)
(* Ctrl+D, or a signal that came after OPEN had set isOpen.  (The end of   *)
(* the input and the fatal error never call Close.)                        *)
(***************************************************************************)
ClosedAtExit ==
    exited = "main" \/ (exited = "signal" /\ openAtSignal) => db # "open"
=============================================================================
