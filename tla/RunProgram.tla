----------------------------- MODULE RunProgram ------------------------------
(* Run mode (backends/libwayland_debug_output/runner.py): the main thread    *)
(* reads one end of a pipe, a second thread runs the program with its stderr *)
(* connected to the other end and waits for it, and when the input has ended *)
(* the user is asked for commands (frontends/tui/terminal_ui.py).            *)
(*                                                                           *)
(* What the environment does is modelled as the code relies on it: the       *)
(* program writes lines, blocks when the pipe is full, may leave a process   *)
(* of its own behind that keeps stderr open, and ends when it likes.  Ctrl-C *)
(* reaches the main thread, the program and that process; the program may    *)
(* survive it.  What a line does is the business of module LogParser.        *)
EXTENDS Integers, Sequences

CONSTANTS
  Capacity,       \* lines that fit in the pipe
  ExitCodes,      \* exit codes of the program
  MaxLines,       \* bound: lines the program writes
  MaxInterrupts   \* bound: how often the user presses Ctrl-C

ASSUME RunAssumption ==
  /\ Capacity \in Nat \ {0}
  /\ ExitCodes \subseteq Int
  /\ MaxLines \in Nat
  /\ MaxInterrupts \in Nat

VARIABLES
  main,         \* where the main thread is
  thread,       \* where the second thread is: _Subprocess.run
  program,      \* "none", "running", "blocked" in a write, or "exited"
  helper,       \* a process the program started: "none", "running", "exited"
  exit_code,    \* what the program exited with, 99 before
  returncode,   \* _Subprocess.returncode
  pipe,         \* lines written and not yet read
  read_end,     \* is readable open
  write_end,    \* is writable open in wayland-debug itself
  written,      \* how many lines went into the pipe
  parsed,       \* the lines the main thread has read
  paused,       \* PersistentUIState of the terminal UI
  should_quit,
  error,        \* the exception that ended the main thread, or "none"
  interrupts    \* how often the user pressed Ctrl-C

mainVars == <<main, parsed, paused, should_quit, error>>
threadVars == <<thread, returncode, write_end>>
programVars == <<program, helper, exit_code, written>>
vars == <<mainVars, threadVars, programVars, pipe, read_end, interrupts>>

Init ==
  /\ main = "start"
  /\ thread = "unborn"
  /\ program = "none" /\ helper = "none"
  /\ exit_code = 99
  /\ returncode = 99
  /\ pipe = <<>>
  /\ read_end = FALSE /\ write_end = FALSE
  /\ written = 0
  /\ parsed = <<>>
  /\ paused = FALSE /\ should_quit = FALSE
  /\ error = "none"
  /\ interrupts = 0

------------------------------------------------------------------------------
(* The program and the pipe *)

ProgramAlive == program \in {"running", "blocked"}

HasWriter == write_end \/ ProgramAlive \/ helper = "running"

(* A write blocks while the pipe is full.  A pipe nobody reads kills the     *)
(* writer, unless it ignores SIGPIPE: then the line is lost.                 *)
ProgramWrites ==
  /\ ProgramAlive
  /\ written < MaxLines
  /\ \/ /\ read_end /\ Len(pipe) < Capacity
        /\ pipe' = Append(pipe, written + 1)
        /\ written' = written + 1
        /\ program' = "running"
        /\ UNCHANGED exit_code
     \/ /\ read_end /\ Len(pipe) = Capacity
        /\ program' = "blocked"
        /\ UNCHANGED <<pipe, written, exit_code>>
     \/ /\ ~read_end
        /\ \/ program' = "running" /\ UNCHANGED exit_code
           \/ program' = "exited" /\ exit_code' \in ExitCodes
        /\ UNCHANGED <<pipe, written>>
  /\ UNCHANGED <<helper, mainVars, threadVars, read_end, interrupts>>

ProgramForks ==
  /\ program = "running" /\ helper = "none"
  /\ helper' = "running"
  /\ UNCHANGED <<program, exit_code, written, mainVars, threadVars, pipe, read_end, interrupts>>

ProgramExits ==
  /\ program = "running"
  /\ program' = "exited"
  /\ exit_code' \in ExitCodes
  /\ UNCHANGED <<helper, written, mainVars, threadVars, pipe, read_end, interrupts>>

HelperExits ==
  /\ helper = "running"
  /\ helper' = "exited"
  /\ UNCHANGED <<program, exit_code, written, mainVars, threadVars, pipe, read_end, interrupts>>

------------------------------------------------------------------------------
(* The second thread: _Subprocess.run *)

(* subprocess.run raises when the program cannot be executed: the thread     *)
(* ends there and never closes its end of the pipe.                          *)
StartFails ==
  /\ thread = "start"
  /\ thread' = "died"
  /\ UNCHANGED <<returncode, write_end, mainVars, programVars, pipe, read_end, interrupts>>

StartProgram ==
  /\ thread = "start"
  /\ thread' = "wait"
  /\ program' = "running"
  /\ UNCHANGED <<returncode, write_end, helper, exit_code, written>>
  /\ UNCHANGED <<mainVars, pipe, read_end, interrupts>>

ProgramWaitedFor ==
  /\ thread = "wait" /\ program = "exited"
  /\ returncode' = exit_code
  /\ thread' = "close"
  /\ UNCHANGED <<write_end, mainVars, programVars, pipe, read_end, interrupts>>

(* Mutant: the thread ends without closing its end of the pipe.              *)
CloseForgotten ==
  /\ thread = "close"
  /\ thread' = "done"
  /\ UNCHANGED <<write_end, returncode, mainVars, programVars, pipe, read_end, interrupts>>

CloseWriteEnd ==
  /\ thread = "close"
  /\ write_end' = FALSE
  /\ thread' = "done"
  /\ UNCHANGED <<returncode, mainVars, programVars, pipe, read_end, interrupts>>

ThreadEnded == thread \in {"unborn", "done", "died"}

------------------------------------------------------------------------------
(* The main thread *)

mainElsewhere == <<threadVars, programVars, interrupts>>

(* run_program up to the first readline.                                     *)
Begin ==
  /\ main = "start"
  /\ main' = "readline"
  /\ thread' = "start"
  /\ read_end' = TRUE /\ write_end' = TRUE
  /\ UNCHANGED <<parsed, paused, should_quit, error, returncode, programVars, pipe, interrupts>>

ReadLine ==
  /\ main = "readline"
  /\ pipe # <<>>
  /\ parsed' = Append(parsed, Head(pipe))
  /\ pipe' = Tail(pipe)
  /\ main' = "handle"
  /\ UNCHANGED <<paused, should_quit, error, read_end, mainElsewhere>>

(* A message that matches the breakpoints asks for a pause, which nothing    *)
(* looks at before the input has ended.                                      *)
HandleLine ==
  /\ main = "handle"
  /\ main' = "readline"
  /\ paused' \in {paused, TRUE}
  /\ UNCHANGED <<parsed, should_quit, error, pipe, read_end, mainElsewhere>>

(* Mutant: reading stops when the program has ended, not at the end of input.*)
EndWithThread ==
  /\ main = "readline"
  /\ thread = "done"
  /\ main' = "cleanup"
  /\ UNCHANGED <<parsed, paused, should_quit, error, pipe, read_end, mainElsewhere>>

EndOfInput ==
  /\ main = "readline"
  /\ pipe = <<>> /\ ~HasWriter
  /\ main' = "cleanup"
  /\ UNCHANGED <<parsed, paused, should_quit, error, pipe, read_end, mainElsewhere>>

(* Mutant: the thread is joined inside the with statement.                   *)
JoinBeforeClose ==
  /\ main = "cleanup"
  /\ main' = "join"
  /\ UNCHANGED <<parsed, paused, should_quit, error, pipe, read_end, mainElsewhere>>

(* The parser closes its connections and the with statement the pipe.        *)
CleanUp ==
  /\ main = "cleanup"
  /\ main' = "join"
  /\ read_end' = FALSE
  /\ UNCHANGED <<parsed, paused, should_quit, error, pipe, mainElsewhere>>

(* Mutant: the user is only asked if a message has asked for a pause.        *)
JoinedNotPausing ==
  /\ main = "join" /\ ThreadEnded
  /\ main' = IF paused THEN "prompt" ELSE "returned"
  /\ UNCHANGED <<parsed, paused, should_quit, error, pipe, read_end, mainElsewhere>>

(* run_until_stopped begins by asking for a pause of its own.                *)
Joined ==
  /\ main = "join" /\ ThreadEnded
  /\ paused' = TRUE
  /\ main' = IF should_quit THEN "returned" ELSE "prompt"
  /\ UNCHANGED <<parsed, should_quit, error, pipe, read_end, mainElsewhere>>

(* Mutant: nobody looks whether the thread is still alive.                   *)
TimeoutIgnored ==
  /\ main = "join"
  /\ thread = "wait" /\ ProgramAlive
  /\ paused' = TRUE
  /\ main' = "prompt"
  /\ UNCHANGED <<parsed, should_quit, error, pipe, read_end, mainElsewhere>>

(* A second has passed and the thread is still waiting for the program.  The *)
(* steps of its own that the thread has left take less than a second.        *)
JoinTimesOut ==
  /\ main = "join"
  /\ thread = "wait" /\ ProgramAlive
  /\ main' = "raised"
  /\ error' = "AssertionError"
  /\ UNCHANGED <<parsed, paused, should_quit, pipe, read_end, mainElsewhere>>

(* One turn of the loop in run_until_stopped.  The controller answers resume *)
(* and quit by calling the listeners; any other command changes neither flag.*)
Command ==
  /\ main = "prompt"
  /\ \/ paused' = FALSE /\ UNCHANGED should_quit
     \/ should_quit' = TRUE /\ UNCHANGED paused
     \/ UNCHANGED <<paused, should_quit>>
  /\ main' = IF paused' /\ ~should_quit' THEN "prompt" ELSE "returned"
  /\ UNCHANGED <<parsed, error, pipe, read_end, mainElsewhere>>

EndOfCommands ==
  /\ main = "prompt"
  /\ main' = "raised"
  /\ error' = "EOFError"
  /\ UNCHANGED <<parsed, paused, should_quit, pipe, read_end, mainElsewhere>>

(* The interpreter waits for its threads before it exits.                    *)
Shutdown ==
  /\ main \in {"returned", "raised"} /\ ThreadEnded
  /\ main' = "gone"
  /\ read_end' = FALSE /\ write_end' = FALSE
  /\ UNCHANGED <<parsed, paused, should_quit, error, thread, returncode, pipe>>
  /\ UNCHANGED <<programVars, interrupts>>

(* Ctrl-C.  readline has a handler; elsewhere the exception ends the main    *)
(* thread, and the with statement closes the pipe if it was still open.      *)
(* While the interpreter waits for its threads, it stops waiting and exits.  *)
Interrupt ==
  /\ interrupts < MaxInterrupts
  /\ interrupts' = interrupts + 1
  /\ \/ /\ main = "readline"
        /\ main' = "cleanup"
        /\ UNCHANGED <<error, read_end, write_end>>
     \/ /\ main \in {"handle", "cleanup", "join", "prompt"}
        /\ main' = "raised" /\ error' = "KeyboardInterrupt"
        /\ read_end' = FALSE
        /\ UNCHANGED write_end
     \/ /\ main \in {"returned", "raised"} /\ ~ThreadEnded
        /\ main' = "gone"
        /\ read_end' = FALSE /\ write_end' = FALSE
        /\ UNCHANGED error
  /\ \/ UNCHANGED <<program, exit_code>>
     \/ ProgramAlive /\ program' = "exited" /\ exit_code' \in ExitCodes
  /\ helper' \in {helper, IF helper = "running" THEN "exited" ELSE helper}
  /\ UNCHANGED <<parsed, paused, should_quit, thread, returncode, written, pipe>>

ThreadStep ==
  main # "gone" /\ (StartFails \/ StartProgram \/ ProgramWaitedFor \/ CloseWriteEnd)

MainStep ==
  \/ Begin \/ ReadLine \/ HandleLine \/ EndOfInput \/ CleanUp
  \/ Joined \/ JoinTimesOut \/ Shutdown

User == Command \/ EndOfCommands \/ Interrupt

Environment == ProgramWrites \/ ProgramForks \/ ProgramExits \/ HelperExits

Next == ThreadStep \/ MainStep \/ User \/ Environment

(* Both threads run whenever they can, and a write that can go on goes on.   *)
(* Neither the program nor its helper need ever end, and the user need never *)
(* answer.                                                                   *)
Spec ==
  /\ Init /\ [][Next]_vars
  /\ WF_vars(ThreadStep) /\ WF_vars(MainStep)
  /\ WF_vars(program = "blocked" /\ ProgramWrites)

------------------------------------------------------------------------------
(* Properties *)

(* Unless the user interrupts it, reading ends when the whole output of the  *)
(* program was read, in order, and nothing can be written any more, not even *)
(* by a process the program has left behind.  It does not end for a program  *)
(* that could not be started: the thread has waited for it to its end.       *)
AllParsed ==
  main \in {"cleanup", "join", "prompt", "returned"} /\ interrupts = 0 =>
    /\ parsed = [i \in 1..written |-> i]
    /\ ~ProgramAlive /\ helper # "running" /\ thread = "done"

(* run_program returns the exit code of a program that has ended, or 99 if   *)
(* it could not be started: never that of a program that still runs.         *)
ReturnsExitCode ==
  main \in {"prompt", "returned"} =>
    /\ ~ProgramAlive
    /\ returncode = IF thread = "died" THEN 99 ELSE exit_code

(* run_program does not return before the user has said so, whatever the     *)
(* input asked for (TerminalUI.run_until_stopped).                           *)
UserIsAsked == [][main' = "returned" => main \in {"prompt", "returned"}]_vars

(* wayland-debug never keeps the program waiting for ever: what blocks in a  *)
(* write goes on, also while the thread is joined and while an exception     *)
(* makes the interpreter wait for it.                                        *)
WritesGoOn == program = "blocked" ~> program # "blocked"

(* Once the program and what it left behind have ended, the main thread      *)
(* reaches the end of its input: the end it holds itself does not keep it    *)
(* reading.  (If the program could not be started, it does: see StartFails.) *)
InputEnds ==
  program = "exited" /\ helper # "running" ~> main \notin {"readline", "handle"}
==============================================================================
