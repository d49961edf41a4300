----------------------------- MODULE CLIProofs -----------------------------
(***************************************************************************)
(* Proofs about the command line, for every set of lines and every size of *)
(* the history: the invariants that the run cli checks on a small one.     *)
(***************************************************************************)
EXTENDS CLI, TLAPS

-----------------------------------------------------------------------------
(* The inductive invariant.                                                *)

\* The draft: above the end of the history it is saved in tempInput.
DraftInv ==
    /\ pc \in {"start", "entering"} => history = <<>> /\ inputBuffer = draft
    /\ At("input") => draft = IF historyIndex = Len(history) THEN inputBuffer ELSE tempInput

\* The terminal: raw only while a line is read or about to be, and then the
\* mode that was saved, or is about to be, is the one the program was started
\* in.  Once the signal goroutine has restored it, only a late MakeRaw undoes
\* that.
TerminalInv ==
    /\ raw => termState = "cooked" /\ pc \notin {"start", "entering"}
    /\ ~raw => termState = "nil" /\ (pc # "entering" => tty = "cooked")
    /\ pc \in {"entering", "reentering"} => oldState = "cooked"
    /\ pc = "reentering" => raw
    /\ pc \notin {"entering", "input", "reentering"} => tty = "cooked"
    /\ exited \in {"input", "fatal", "main"} => tty = "cooked"
    /\ sig \in {"close", "exit"} /\ ~late => tty = "cooked"

\* The database: the flag lags behind the handle only within OPEN, is never
\* taken back, and no database is opened while it is set.
DatabaseInv ==
    /\ isOpen => db # "nil" /\ pc \notin {"open", "opened"}
    /\ pc = "opened" => db # "nil"
    /\ pc = "call" => isOpen
    /\ db = "open" => isOpen \/ pc = "opened"
    /\ openAtSignal => isOpen
    /\ sig = "exit" /\ openAtSignal => db # "open"
    /\ exited = "main" => pc = "exit" /\ db # "open"
    /\ exited = "signal" => sig = "exit"

CLIInv == TypeOK /\ DraftInv /\ TerminalInv /\ DatabaseInv

-----------------------------------------------------------------------------
(* Operators.                                                              *)

\* addToHistory keeps the history a sequence of lines within its size.
LEMMA AddToHistoryType ==
    ASSUME NEW h \in Seq(AllLines), Len(h) <= MaxHistorySize, NEW l \in AllLines
    PROVE  /\ AddToHistory(h, l) \in Seq(AllLines)
           /\ Len(AddToHistory(h, l)) <= MaxHistorySize
<1> DEFINE longer == Append(h, l)
<1>1. longer \in Seq(AllLines) /\ Len(longer) = Len(h) + 1 /\ longer # <<>>
  OBVIOUS
<1>2. Tail(longer) \in Seq(AllLines) /\ Len(Tail(longer)) = Len(h)
  BY <1>1
<1> QED  BY <1>1, <1>2, CLIBoundsAssumption DEF AddToHistory

-----------------------------------------------------------------------------
(* The invariant is inductive.                                             *)

\* It holds when the program starts.
LEMMA CLIInitInv == Init => CLIInv
<1> SUFFICES ASSUME Init PROVE CLIInv
  OBVIOUS
<1>1. TypeOK
  <2>1. history \in Seq(AllLines) /\ Len(history) = 0 /\ NoInput \in AllLines
    BY DEF Init, AllLines
  <2>2. raw \in BOOLEAN /\ isOpen \in BOOLEAN /\ openAtSignal \in BOOLEAN /\ late \in BOOLEAN
    BY DEF Init
  <2>3. 0 \in 0..MaxHistorySize /\ 0 \in 0..MaxEdits /\ 0 <= MaxHistorySize
    BY CLIBoundsAssumption
  <2>4. /\ pc \in {"start", "entering", "input", "simple", "command", "open", "opened", "call",
                   "ready", "reentering", "exit"}
        /\ sig \in {"wait", "restore", "close", "exit"}
        /\ tty \in {"cooked", "raw"} /\ {termState, oldState} \subseteq {"nil", "cooked", "raw"}
        /\ db \in {"nil", "open", "closed"}
        /\ exited \in {"no", "main", "input", "fatal", "signal"}
    BY DEF Init
  <2>5. {inputBuffer, tempInput, line, draft} \subseteq AllLines
    BY <2>1 DEF Init
  <2>6. historyIndex = 0 /\ edits = 0 /\ pc # "input"
    BY DEF Init
  <2> QED  BY <2>1, <2>2, <2>3, <2>4, <2>5, <2>6 DEF TypeOK
<1>2. DraftInv
  BY DEF Init, DraftInv, At
<1>3. TerminalInv
  BY DEF Init, TerminalInv
<1>4. DatabaseInv
  BY DEF Init, DatabaseInv
<1> QED  BY <1>1, <1>2, <1>3, <1>4 DEF CLIInv

\* Every key, every step of a command and every step of the signal goroutine
\* preserves it.
LEMMA CLINextInv == CLIInv /\ [Next]_vars => CLIInv'
<1> SUFFICES ASSUME CLIInv, [Next]_vars PROVE CLIInv'
  OBVIOUS
<1> USE CLIBoundsAssumption DEF CLIInv
<1>1. CASE Start
  <2>1. TypeOK'
    <3>1. CASE MakeRaw /\ pc' = "entering"
      <4>1. late' \in BOOLEAN
        BY <3>1 DEF MakeRaw
      <4> QED  BY <1>1, <3>1, <4>1 DEF Start, At, MakeRaw, TypeOK, editor, session
    <3>2. CASE pc' = "simple" /\ UNCHANGED <<tty, oldState, late>>
      BY <1>1, <3>2 DEF Start, At, TypeOK, editor, session
    <3> QED  BY <1>1, <3>1, <3>2 DEF Start
  <2>2. DraftInv'
    BY <1>1 DEF Start, At, MakeRaw, TypeOK, DraftInv, terminal, editor, session, ghosts
  <2>3. TerminalInv'
    <3>1. /\ tty = "cooked" /\ ~raw /\ termState = "nil" /\ exited = "no"
          /\ UNCHANGED <<sig, termState, raw, exited>>
      BY <1>1 DEF Start, At, TypeOK, TerminalInv
    <3>2. CASE MakeRaw /\ pc' = "entering"
      <4>1. oldState' = "cooked" /\ (sig \in {"close", "exit"} => late')
        BY <3>1, <3>2 DEF MakeRaw
      <4> QED  BY <3>1, <3>2, <4>1 DEF TerminalInv
    <3>3. CASE pc' = "simple" /\ UNCHANGED <<tty, oldState, late>>
      BY <3>1, <3>3 DEF TerminalInv
    <3> QED  BY <1>1, <3>2, <3>3 DEF Start
  <2>4. DatabaseInv'
    BY <1>1 DEF Start, At, MakeRaw, TypeOK, DatabaseInv, terminal, editor, session, ghosts
  <2> QED  BY <2>1, <2>2, <2>3, <2>4
<1>2. CASE \E l \in AllLines : Edit(l)
  <2> PICK l \in AllLines : Edit(l)
    BY <1>2
  <2>1. TypeOK'
    BY DEF Edit, At, TypeOK, terminal, editor, session, ghosts
  <2>2. DraftInv'
    BY DEF Edit, At, TypeOK, DraftInv, terminal, editor, session, ghosts
  <2>3. TerminalInv'
    BY DEF Edit, At, TypeOK, TerminalInv, terminal, editor, session, ghosts
  <2>4. DatabaseInv'
    BY DEF Edit, At, TypeOK, DatabaseInv, terminal, editor, session, ghosts
  <2> QED  BY <2>1, <2>2, <2>3, <2>4
<1>3. CASE KeyUp
  <2>1. TypeOK'
    BY <1>3 DEF KeyUp, At, TypeOK, terminal, editor, session, ghosts
  <2>2. DraftInv'
    BY <1>3 DEF KeyUp, At, TypeOK, DraftInv, terminal, editor, session, ghosts
  <2>3. TerminalInv'
    BY <1>3 DEF KeyUp, At, TypeOK, TerminalInv, terminal, editor, session, ghosts
  <2>4. DatabaseInv'
    BY <1>3 DEF KeyUp, At, TypeOK, DatabaseInv, terminal, editor, session, ghosts
  <2> QED  BY <2>1, <2>2, <2>3, <2>4
<1>4. CASE KeyDown
  <2>1. TypeOK'
    BY <1>4 DEF KeyDown, At, TypeOK, terminal, editor, session, ghosts
  <2>2. DraftInv'
    BY <1>4 DEF KeyDown, At, TypeOK, DraftInv, terminal, editor, session, ghosts
  <2>3. TerminalInv'
    BY <1>4 DEF KeyDown, At, TypeOK, TerminalInv, terminal, editor, session, ghosts
  <2>4. DatabaseInv'
    BY <1>4 DEF KeyDown, At, TypeOK, DatabaseInv, terminal, editor, session, ghosts
  <2> QED  BY <2>1, <2>2, <2>3, <2>4
<1>5. CASE KeyEnter
  <2>0. /\ line' \in AllLines
        /\ history' \in Seq(AllLines) /\ Len(history') <= MaxHistorySize
    <3>1. line' \in AllLines
      BY <1>5 DEF KeyEnter, Trimmed, TypeOK, AllLines
    <3> QED  BY <1>5, <3>1, AddToHistoryType DEF KeyEnter, TypeOK
  <2>1. TypeOK'
    BY <1>5, <2>0 DEF KeyEnter, At, ExitRawMode, Trimmed, TypeOK, terminal, editor, session, ghosts
  <2>2. DraftInv'
    BY <1>5, <2>0 DEF KeyEnter, At, ExitRawMode, Trimmed, TypeOK, DraftInv, terminal, editor, session, ghosts
  <2>3. TerminalInv'
    BY <1>5, <2>0 DEF KeyEnter, At, ExitRawMode, Trimmed, TypeOK, TerminalInv, terminal, editor, session, ghosts
  <2>4. DatabaseInv'
    BY <1>5, <2>0 DEF KeyEnter, At, ExitRawMode, Trimmed, TypeOK, DatabaseInv, terminal, editor, session, ghosts
  <2> QED  BY <2>1, <2>2, <2>3, <2>4
<1>6. CASE KeyCtrl
  <2>1. TypeOK'
    BY <1>6 DEF KeyCtrl, At, ExitRawMode, TypeOK, terminal, editor, session, ghosts
  <2>2. DraftInv'
    BY <1>6 DEF KeyCtrl, At, ExitRawMode, TypeOK, DraftInv, terminal, editor, session, ghosts
  <2>3. TerminalInv'
    BY <1>6 DEF KeyCtrl, At, ExitRawMode, TypeOK, TerminalInv, terminal, editor, session, ghosts
  <2>4. DatabaseInv'
    BY <1>6 DEF KeyCtrl, At, ExitRawMode, TypeOK, DatabaseInv, terminal, editor, session, ghosts
  <2> QED  BY <2>1, <2>2, <2>3, <2>4
<1>7. CASE InputEnds
  <2>1. TypeOK'
    BY <1>7 DEF InputEnds, At, ExitRawMode, TypeOK, terminal, editor, session, ghosts
  <2>2. DraftInv'
    BY <1>7 DEF InputEnds, At, ExitRawMode, TypeOK, DraftInv, terminal, editor, session, ghosts
  <2>3. TerminalInv'
    BY <1>7 DEF InputEnds, At, ExitRawMode, TypeOK, TerminalInv, terminal, editor, session, ghosts
  <2>4. DatabaseInv'
    BY <1>7 DEF InputEnds, At, ExitRawMode, TypeOK, DatabaseInv, terminal, editor, session, ghosts
  <2> QED  BY <2>1, <2>2, <2>3, <2>4
<1>8. CASE \E l \in AllLines : SimpleLine(l)
  <2> PICK l \in AllLines : SimpleLine(l)
    BY <1>8
  <2>1. TypeOK'
    BY DEF SimpleLine, At, TypeOK, terminal, editor, session, ghosts
  <2>2. DraftInv'
    BY DEF SimpleLine, At, TypeOK, DraftInv, terminal, editor, session, ghosts
  <2>3. TerminalInv'
    BY DEF SimpleLine, At, TypeOK, TerminalInv, terminal, editor, session, ghosts
  <2>4. DatabaseInv'
    BY DEF SimpleLine, At, TypeOK, DatabaseInv, terminal, editor, session, ghosts
  <2> QED  BY <2>1, <2>2, <2>3, <2>4
<1>9. CASE Ready
  <2>1. TypeOK'
    BY <1>9 DEF Ready, At, MakeRaw, TypeOK, terminal, editor, session, ghosts
  <2>2. DraftInv'
    BY <1>9 DEF Ready, At, MakeRaw, TypeOK, DraftInv, terminal, editor, session, ghosts
  <2>3. TerminalInv'
    BY <1>9 DEF Ready, At, MakeRaw, TypeOK, TerminalInv, terminal, editor, session, ghosts
  <2>4. DatabaseInv'
    BY <1>9 DEF Ready, At, MakeRaw, TypeOK, DatabaseInv, terminal, editor, session, ghosts
  <2> QED  BY <2>1, <2>2, <2>3, <2>4
<1>10. CASE ReadyFails
  <2>1. TypeOK'
    BY <1>10 DEF ReadyFails, At, TypeOK, terminal, editor, session, ghosts
  <2>2. DraftInv'
    BY <1>10 DEF ReadyFails, At, TypeOK, DraftInv, terminal, editor, session, ghosts
  <2>3. TerminalInv'
    BY <1>10 DEF ReadyFails, At, TypeOK, TerminalInv, terminal, editor, session, ghosts
  <2>4. DatabaseInv'
    BY <1>10 DEF ReadyFails, At, TypeOK, DatabaseInv, terminal, editor, session, ghosts
  <2> QED  BY <2>1, <2>2, <2>3, <2>4
<1>11. CASE ReadySimple
  <2>1. TypeOK'
    BY <1>11 DEF ReadySimple, At, TypeOK, terminal, editor, session, ghosts
  <2>2. DraftInv'
    BY <1>11 DEF ReadySimple, At, TypeOK, DraftInv, terminal, editor, session, ghosts
  <2>3. TerminalInv'
    BY <1>11 DEF ReadySimple, At, TypeOK, TerminalInv, terminal, editor, session, ghosts
  <2>4. DatabaseInv'
    BY <1>11 DEF ReadySimple, At, TypeOK, DatabaseInv, terminal, editor, session, ghosts
  <2> QED  BY <2>1, <2>2, <2>3, <2>4
<1>12. CASE HandleCommand
  <2>1. TypeOK'
    BY <1>12 DEF HandleCommand, At, Opens, Calls, TypeOK, terminal, editor, session, ghosts
  <2>2. DraftInv'
    BY <1>12 DEF HandleCommand, At, Opens, Calls, TypeOK, DraftInv, terminal, editor, session, ghosts
  <2>3. TerminalInv'
    BY <1>12 DEF HandleCommand, At, Opens, Calls, TypeOK, TerminalInv, terminal, editor, session, ghosts
  <2>4. DatabaseInv'
    BY <1>12 DEF HandleCommand, At, Opens, Calls, TypeOK, DatabaseInv, terminal, editor, session, ghosts
  <2> QED  BY <2>1, <2>2, <2>3, <2>4
<1>13. CASE Open
  <2>1. TypeOK'
    BY <1>13 DEF Open, At, TypeOK, terminal, editor, session, ghosts
  <2>2. DraftInv'
    BY <1>13 DEF Open, At, TypeOK, DraftInv, terminal, editor, session, ghosts
  <2>3. TerminalInv'
    BY <1>13 DEF Open, At, TypeOK, TerminalInv, terminal, editor, session, ghosts
  <2>4. DatabaseInv'
    BY <1>13 DEF Open, At, TypeOK, DatabaseInv, terminal, editor, session, ghosts
  <2> QED  BY <2>1, <2>2, <2>3, <2>4
<1>14. CASE Opened
  <2>1. TypeOK'
    BY <1>14 DEF Opened, At, TypeOK, terminal, editor, session, ghosts
  <2>2. DraftInv'
    BY <1>14 DEF Opened, At, TypeOK, DraftInv, terminal, editor, session, ghosts
  <2>3. TerminalInv'
    BY <1>14 DEF Opened, At, TypeOK, TerminalInv, terminal, editor, session, ghosts
  <2>4. DatabaseInv'
    BY <1>14 DEF Opened, At, TypeOK, DatabaseInv, terminal, editor, session, ghosts
  <2> QED  BY <2>1, <2>2, <2>3, <2>4
<1>15. CASE Call
  <2>1. TypeOK'
    BY <1>15 DEF Call, At, TypeOK, terminal, editor, session, ghosts
  <2>2. DraftInv'
    BY <1>15 DEF Call, At, TypeOK, DraftInv, terminal, editor, session, ghosts
  <2>3. TerminalInv'
    BY <1>15 DEF Call, At, TypeOK, TerminalInv, terminal, editor, session, ghosts
  <2>4. DatabaseInv'
    BY <1>15 DEF Call, At, TypeOK, DatabaseInv, terminal, editor, session, ghosts
  <2> QED  BY <2>1, <2>2, <2>3, <2>4
<1>16. CASE Exit
  <2>1. TypeOK'
    BY <1>16 DEF Exit, At, CloseDB, TypeOK, terminal, editor, session, ghosts
  <2>2. DraftInv'
    BY <1>16 DEF Exit, At, CloseDB, TypeOK, DraftInv, terminal, editor, session, ghosts
  <2>3. TerminalInv'
    BY <1>16 DEF Exit, At, CloseDB, TypeOK, TerminalInv, terminal, editor, session, ghosts
  <2>4. DatabaseInv'
    BY <1>16 DEF Exit, At, CloseDB, TypeOK, DatabaseInv, terminal, editor, session, ghosts
  <2> QED  BY <2>1, <2>2, <2>3, <2>4
<1>17. CASE Signal
  <2>1. TypeOK'
    BY <1>17 DEF Signal, TypeOK, terminal, editor, session, ghosts
  <2>2. DraftInv'
    BY <1>17 DEF Signal, At, TypeOK, DraftInv, terminal, editor, session, ghosts
  <2>3. TerminalInv'
    BY <1>17 DEF Signal, TypeOK, TerminalInv, terminal, editor, session, ghosts
  <2>4. DatabaseInv'
    BY <1>17 DEF Signal, TypeOK, DatabaseInv, terminal, editor, session, ghosts
  <2> QED  BY <2>1, <2>2, <2>3, <2>4
<1>18. CASE SignalRestore
  <2>1. TypeOK'
    BY <1>18 DEF SignalRestore, ExitRawMode, TypeOK, terminal, editor, session, ghosts
  <2>2. DraftInv'
    BY <1>18 DEF SignalRestore, ExitRawMode, At, TypeOK, DraftInv, terminal, editor, session, ghosts
  <2>3. TerminalInv'
    BY <1>18 DEF SignalRestore, ExitRawMode, TypeOK, TerminalInv, terminal, editor, session, ghosts
  <2>4. DatabaseInv'
    BY <1>18 DEF SignalRestore, ExitRawMode, TypeOK, DatabaseInv, terminal, editor, session, ghosts
  <2> QED  BY <2>1, <2>2, <2>3, <2>4
<1>19. CASE SignalClose
  <2>1. TypeOK'
    BY <1>19 DEF SignalClose, CloseDB, TypeOK, terminal, editor, session, ghosts
  <2>2. DraftInv'
    BY <1>19 DEF SignalClose, CloseDB, At, TypeOK, DraftInv, terminal, editor, session, ghosts
  <2>3. TerminalInv'
    BY <1>19 DEF SignalClose, CloseDB, TypeOK, TerminalInv, terminal, editor, session, ghosts
  <2>4. DatabaseInv'
    BY <1>19 DEF SignalClose, CloseDB, TypeOK, DatabaseInv, terminal, editor, session, ghosts
  <2> QED  BY <2>1, <2>2, <2>3, <2>4
<1>20. CASE SignalExit
  <2>1. TypeOK'
    BY <1>20 DEF SignalExit, TypeOK, terminal, editor, session, ghosts
  <2>2. DraftInv'
    BY <1>20 DEF SignalExit, At, TypeOK, DraftInv, terminal, editor, session, ghosts
  <2>3. TerminalInv'
    BY <1>20 DEF SignalExit, TypeOK, TerminalInv, terminal, editor, session, ghosts
  <2>4. DatabaseInv'
    BY <1>20 DEF SignalExit, TypeOK, DatabaseInv, terminal, editor, session, ghosts
  <2> QED  BY <2>1, <2>2, <2>3, <2>4
<1>21. CASE Entered
  <2>0. Len(history) \in 0..MaxHistorySize /\ NoInput \in AllLines
    BY DEF TypeOK, AllLines
  <2>1. TypeOK'
    BY <1>21, <2>0 DEF Entered, At, EnterRawMode, TypeOK, terminal, editor, session, ghosts
  <2>2. DraftInv'
    BY <1>21 DEF Entered, At, EnterRawMode, TypeOK, DraftInv, terminal, editor, session, ghosts
  <2>3. TerminalInv'
    BY <1>21 DEF Entered, At, EnterRawMode, TypeOK, TerminalInv, terminal, editor, session, ghosts
  <2>4. DatabaseInv'
    BY <1>21 DEF Entered, At, EnterRawMode, TypeOK, DatabaseInv, terminal, editor, session, ghosts
  <2> QED  BY <2>1, <2>2, <2>3, <2>4
<1>22. CASE Reentered
  <2>0. Len(history) \in 0..MaxHistorySize /\ NoInput \in AllLines
    BY DEF TypeOK, AllLines
  <2>1. TypeOK'
    BY <1>22, <2>0 DEF Reentered, At, EnterRawMode, TypeOK, terminal, editor, session, ghosts
  <2>2. DraftInv'
    BY <1>22 DEF Reentered, At, EnterRawMode, TypeOK, DraftInv, terminal, editor, session, ghosts
  <2>3. TerminalInv'
    BY <1>22 DEF Reentered, At, EnterRawMode, TypeOK, TerminalInv, terminal, editor, session, ghosts
  <2>4. DatabaseInv'
    BY <1>22 DEF Reentered, At, EnterRawMode, TypeOK, DatabaseInv, terminal, editor, session, ghosts
  <2> QED  BY <2>1, <2>2, <2>3, <2>4
<1>23. CASE UNCHANGED vars
  BY <1>23 DEF vars, terminal, editor, session, ghosts, TypeOK, DraftInv, TerminalInv, DatabaseInv, At
<1> QED
  BY <1>1, <1>2, <1>3, <1>4, <1>5, <1>6, <1>7, <1>8, <1>9, <1>10, <1>11, <1>12, <1>13, <1>14, <1>15,
     <1>16, <1>17, <1>18, <1>19, <1>20, <1>21, <1>22, <1>23
     DEF Next, Editor, Command, Shutdown, AllLines

-----------------------------------------------------------------------------
(* The theorems.                                                           *)

\* The invariant holds in every state of the program.
THEOREM CLIInvariantHolds == Spec => []CLIInv
<1> QED  BY CLIInitInv, CLINextInv, PTL DEF Spec

\* The history stays within its size and the arrows within the history.
THEOREM CLITypeCorrect == Spec => []TypeOK
<1>1. CLIInv => TypeOK
  BY DEF CLIInv
<1> QED  BY <1>1, CLIInvariantHolds, PTL

\* The arrows give the typed line back: below the history the buffer is what
\* was last typed there.
THEOREM CLIDraftKept == Spec => []DraftKept
<1>1. CLIInv => DraftKept
  BY DEF CLIInv, DraftInv, DraftKept
<1> QED  BY <1>1, CLIInvariantHolds, PTL

\* The engine is never called through the nil a failed OPEN leaves; the signal
\* goroutine may have closed the database already.
THEOREM CLICallsHaveDatabase == Spec => []CallsHaveDatabase
<1>1. CLIInv => CallsHaveDatabase
  BY DEF CLIInv, DatabaseInv, CallsHaveDatabase
<1> QED  BY <1>1, CLIInvariantHolds, PTL

\* EXIT, Ctrl+C, Ctrl+D, the end of the input and the fatal error leave the
\* terminal as it was found, and so does a signal whose handler restored it
\* neither before a MakeRaw nor within the first enterRawMode.
THEOREM CLITerminalRestored == Spec => []TerminalRestored
<1>1. CLIInv => TerminalRestored
  BY DEF CLIInv, TerminalInv, DatabaseInv, TerminalRestored
<1> QED  BY <1>1, CLIInvariantHolds, PTL

\* No database the session had opened is left open by EXIT, Ctrl+C, Ctrl+D or a
\* signal that came after OPEN had set isOpen; the end of the input and the
\* fatal error, where nobody calls Close, are left out.
THEOREM CLIClosedAtExit == Spec => []ClosedAtExit
<1>1. CLIInv => ClosedAtExit
  BY DEF CLIInv, DatabaseInv, ClosedAtExit
<1> QED  BY <1>1, CLIInvariantHolds, PTL
=============================================================================
