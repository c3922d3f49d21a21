--------------------------- MODULE TerminalProofs ----------------------------
(* Theorems about what the user of the terminal gets.  Of RunProgram, which  *)
(* leads run mode to its prompt: for a pipe of any size, any number of lines *)
(* and any number of interruptions.  Of Filter, the command given there: for *)
(* any texts and messages, and any number of commands.                       *)
EXTENDS RunProgram, Filter, SelectionProofs

(* Module RunProgram                                                          *)

RunTypes ==
  /\ main \in {"start", "readline", "handle", "cleanup", "join", "prompt",
               "returned", "raised", "gone"}
  /\ thread \in {"unborn", "start", "wait", "close", "done", "died"}
  /\ program \in {"none", "running", "blocked", "exited"}
  /\ helper \in {"none", "running", "exited"}
  /\ pipe \in Seq(Nat) /\ parsed \in Seq(Nat)
  /\ written \in Nat /\ interrupts \in Nat
  /\ write_end \in BOOLEAN

(* What was read and what is in the pipe are the lines written, in order.    *)
LinesInOrder ==
  /\ Len(parsed) + Len(pipe) = written
  /\ \A i \in 1..Len(parsed) : parsed[i] = i
  /\ \A i \in 1..Len(pipe) : pipe[i] = Len(parsed) + i

(* Where the second thread is says what has become of the program, and that  *)
(* wayland-debug can still write into the pipe itself.                       *)
ThreadTells ==
  /\ thread = "unborn" <=> main = "start"
  /\ thread \in {"start", "wait", "close", "died"} /\ main # "gone" => write_end
  /\ thread \in {"unborn", "start", "died"} => program = "none" /\ returncode = 99
  /\ thread \in {"close", "done"} => program = "exited" /\ returncode = exit_code

(* The end of the input is read only behind all that could write.            *)
ReadToTheEnd ==
  main \in {"cleanup", "join", "prompt", "returned"} /\ interrupts = 0 =>
    pipe = <<>> /\ thread = "done" /\ helper # "running"

JoinedBefore == main \in {"prompt", "returned"} => thread \in {"done", "died"}

QuitAtPrompt == should_quit => main \in {"prompt", "returned", "raised", "gone"}

(* The inductive invariant.                                                  *)
RunInv ==
  RunTypes /\ LinesInOrder /\ ThreadTells /\ ReadToTheEnd /\ JoinedBefore /\ QuitAtPrompt

(* The program: a line goes to the end of the pipe, and a program that runs  *)
(* has a thread that waits for it.                                           *)
LEMMA EnvironmentKeepsInv ==
  ASSUME RunInv, Environment
  PROVE  RunInv'
<1>1. UNCHANGED <<mainVars, threadVars, interrupts>>
  BY DEF Environment, ProgramWrites, ProgramForks, ProgramExits, HelperExits
<1>2. CASE ProgramWrites
  <2>1. ProgramAlive /\ thread = "wait" /\ helper' = helper
    BY <1>2 DEF ProgramWrites, ProgramAlive, RunInv, RunTypes, ThreadTells
  <2>2. program' \in {"running", "blocked", "exited"}
    BY <1>2 DEF ProgramWrites
  <2>3. CASE pipe' = Append(pipe, written + 1) /\ written' = written + 1
    <3>1. /\ pipe' \in Seq(Nat) /\ written' \in Nat
          /\ Len(pipe') = Len(pipe) + 1
          /\ \A i \in 1..Len(pipe') : pipe'[i] = IF i = Len(pipe) + 1 THEN written + 1 ELSE pipe[i]
      BY <2>3 DEF RunInv, RunTypes
    <3>2. Len(pipe) \in Nat /\ Len(parsed) \in Nat
      BY DEF RunInv, RunTypes
    <3>3. LinesInOrder'
      <4>1. parsed' = parsed /\ Len(parsed) + Len(pipe) = written
        BY <1>1 DEF RunInv, LinesInOrder, mainVars
      <4>2. \A i \in 1..Len(pipe') : pipe'[i] = Len(parsed) + i
        <5>1. SUFFICES ASSUME NEW i \in 1..Len(pipe') PROVE pipe'[i] = Len(parsed) + i
          OBVIOUS
        <5>2. CASE i = Len(pipe) + 1
          BY <3>1, <3>2, <4>1, <5>1, <5>2
        <5>3. CASE i \in 1..Len(pipe)
          BY <3>1, <3>2, <5>1, <5>3, SMTT(20) DEF RunInv, LinesInOrder
        <5>4. QED
          BY <3>1, <3>2, <5>1, <5>2, <5>3
      <4>3. Len(parsed) + Len(pipe') = written'
        BY <2>3, <3>1, <3>2, <4>1
      <4>4. QED
        BY <4>1, <4>2, <4>3 DEF RunInv, LinesInOrder
    <3>4. RunTypes'
      BY <1>1, <2>1, <2>2, <3>1 DEF RunInv, RunTypes, mainVars, threadVars
    <3>5. ThreadTells' /\ ReadToTheEnd' /\ JoinedBefore' /\ QuitAtPrompt'
      BY <1>1, <2>1 DEF RunInv, ThreadTells, ReadToTheEnd, JoinedBefore, QuitAtPrompt, mainVars, threadVars
    <3>6. QED
      BY <3>3, <3>4, <3>5 DEF RunInv
  <2>4. CASE UNCHANGED <<pipe, written>>
    <3>1. RunTypes' /\ LinesInOrder'
      BY <1>1, <2>1, <2>2, <2>4 DEF RunInv, RunTypes, LinesInOrder, mainVars, threadVars
    <3>2. ThreadTells' /\ ReadToTheEnd' /\ JoinedBefore' /\ QuitAtPrompt'
      BY <1>1, <2>1 DEF RunInv, ThreadTells, ReadToTheEnd, JoinedBefore, QuitAtPrompt, mainVars, threadVars
    <3>3. QED
      BY <3>1, <3>2 DEF RunInv
  <2>5. QED
    BY <1>2, <2>3, <2>4 DEF ProgramWrites
<1>3. CASE ProgramForks \/ ProgramExits \/ HelperExits
  <2>1. UNCHANGED <<pipe, written>>
    BY <1>3 DEF ProgramForks, ProgramExits, HelperExits
  <2>2. RunTypes' /\ LinesInOrder'
    BY <1>1, <1>3, <2>1 DEF RunInv, RunTypes, LinesInOrder, ProgramForks, ProgramExits,
                            HelperExits, mainVars, threadVars
  <2>3. program = "running" => thread = "wait"
    BY DEF RunInv, RunTypes, ThreadTells
  <2>4. ThreadTells' /\ ReadToTheEnd' /\ JoinedBefore' /\ QuitAtPrompt'
    BY <1>1, <1>3, <2>1, <2>3 DEF RunInv, ThreadTells, ReadToTheEnd, JoinedBefore, QuitAtPrompt, ProgramForks,
                            ProgramExits, HelperExits, mainVars, threadVars
  <2>5. QED
    BY <2>2, <2>4 DEF RunInv
<1>4. QED
  BY <1>2, <1>3 DEF Environment

(* The second thread goes on only while the main thread is there, and closes *)
(* its end of the pipe last.                                                 *)
LEMMA ThreadKeepsInv ==
  ASSUME RunInv, ThreadStep
  PROVE  RunInv'
<1>1. /\ main # "gone" /\ thread \in {"start", "wait", "close"}
      /\ UNCHANGED <<mainVars, pipe, read_end, interrupts, helper, written, exit_code>>
  BY DEF ThreadStep, StartFails, StartProgram, ProgramWaitedFor, CloseWriteEnd, programVars
<1>2. RunTypes' /\ LinesInOrder'
  BY <1>1 DEF RunInv, RunTypes, LinesInOrder, ThreadStep, StartFails, StartProgram,
              ProgramWaitedFor, CloseWriteEnd, mainVars, programVars
<1>3. ThreadTells'
  BY <1>1 DEF RunInv, ThreadTells, ThreadStep, StartFails, StartProgram, ProgramWaitedFor,
              CloseWriteEnd, mainVars, programVars
<1>4. ReadToTheEnd' /\ JoinedBefore' /\ QuitAtPrompt'
  BY <1>1 DEF RunInv, ReadToTheEnd, JoinedBefore, QuitAtPrompt, mainVars
<1>5. QED
  BY <1>2, <1>3, <1>4 DEF RunInv

(* The main thread takes lines from the front of the pipe, and leaves the    *)
(* loop at an end of input that only the second thread can have made.        *)
LEMMA MainKeepsInv ==
  ASSUME RunInv, MainStep \/ Command \/ EndOfCommands
  PROVE  RunInv'
<1>1. CASE ReadLine
  <2>1. /\ main = "readline" /\ main' = "handle"
        /\ UNCHANGED <<threadVars, programVars, interrupts>>
        /\ should_quit' = should_quit
    BY <1>1 DEF ReadLine, mainElsewhere
  <2>2. /\ pipe # <<>> /\ pipe \in Seq(Nat) /\ parsed \in Seq(Nat)
        /\ parsed' = Append(parsed, Head(pipe)) /\ pipe' = Tail(pipe)
    BY <1>1 DEF ReadLine, RunInv, RunTypes
  <2>3. /\ pipe' \in Seq(Nat) /\ parsed' \in Seq(Nat)
        /\ Len(pipe') = Len(pipe) - 1 /\ Len(parsed') = Len(parsed) + 1
        /\ \A i \in 1..Len(pipe') : pipe'[i] = pipe[i + 1]
        /\ \A i \in 1..Len(parsed') : parsed'[i] = IF i = Len(parsed) + 1 THEN pipe[1] ELSE parsed[i]
        /\ Len(pipe) \in Nat \ {0} /\ Len(parsed) \in Nat
    BY <2>2
  <2>4. LinesInOrder'
    <3>1. /\ Len(parsed) + Len(pipe) = written /\ written' = written
          /\ pipe[1] = Len(parsed) + 1
      BY <2>1, <2>3 DEF RunInv, LinesInOrder, programVars
    <3>2. Len(parsed') + Len(pipe') = written'
      BY <2>3, <3>1
    <3>3. \A i \in 1..Len(parsed') : parsed'[i] = i
      <4>1. SUFFICES ASSUME NEW i \in 1..Len(parsed') PROVE parsed'[i] = i
        OBVIOUS
      <4>2. CASE i = Len(parsed) + 1
        BY <2>3, <3>1, <4>1, <4>2
      <4>3. CASE i \in 1..Len(parsed)
        BY <2>3, <4>1, <4>3, SMTT(20) DEF RunInv, LinesInOrder
      <4>4. QED
        BY <2>3, <4>1, <4>2, <4>3
    <3>4. \A i \in 1..Len(pipe') : pipe'[i] = Len(parsed') + i
      <4>1. SUFFICES ASSUME NEW i \in 1..Len(pipe') PROVE pipe'[i] = Len(parsed') + i
        OBVIOUS
      <4>2. i + 1 \in 1..Len(pipe)
        BY <2>3, <4>1
      <4>3. pipe[i + 1] = Len(parsed) + (i + 1)
        BY <4>2 DEF RunInv, LinesInOrder
      <4>4. QED
        BY <2>3, <4>1, <4>3
    <3>5. QED
      BY <3>2, <3>3, <3>4 DEF LinesInOrder
  <2>5. RunTypes' /\ ThreadTells' /\ ReadToTheEnd' /\ JoinedBefore' /\ QuitAtPrompt'
    BY <2>1, <2>3 DEF RunInv, RunTypes, ThreadTells, ReadToTheEnd, JoinedBefore, QuitAtPrompt,
                      threadVars, programVars
  <2>6. QED
    BY <2>4, <2>5 DEF RunInv
<1>2. CASE EndOfInput
  <2>1. /\ main = "readline" /\ main' = "cleanup" /\ pipe = <<>> /\ ~HasWriter
        /\ UNCHANGED <<threadVars, programVars, interrupts, parsed, pipe, should_quit>>
    BY <1>2 DEF EndOfInput, mainElsewhere
  <2>2. thread = "done" /\ helper # "running"
    BY <2>1 DEF RunInv, RunTypes, ThreadTells, HasWriter
  <2>3. QED
    BY <2>1, <2>2 DEF RunInv, RunTypes, LinesInOrder, ThreadTells, ReadToTheEnd, JoinedBefore, QuitAtPrompt,
                      threadVars, programVars
<1>3. CASE Begin
  <2>1. /\ main = "start" /\ main' = "readline" /\ thread' = "start" /\ write_end'
        /\ UNCHANGED <<parsed, pipe, should_quit, returncode, programVars, interrupts>>
        /\ program = "none" /\ returncode = 99
    BY <1>3 DEF Begin, RunInv, ThreadTells
  <2>2. write_end' \in BOOLEAN
    BY <1>3 DEF Begin
  <2>3. QED
    BY <2>1, <2>2 DEF RunInv, RunTypes, LinesInOrder, ThreadTells, ReadToTheEnd, JoinedBefore, QuitAtPrompt, programVars
<1>4. CASE HandleLine \/ CleanUp \/ Joined \/ JoinTimesOut \/ Command \/ EndOfCommands
  <2>1. UNCHANGED <<threadVars, programVars, interrupts, parsed, pipe>>
    BY <1>4 DEF HandleLine, CleanUp, Joined, JoinTimesOut, Command, EndOfCommands, mainElsewhere
  <2>2. \/ main = "handle" /\ main' = "readline"
        \/ main = "cleanup" /\ main' = "join"
        \/ main = "join" /\ ThreadEnded /\ main' \in {"prompt", "returned"}
        \/ main \in {"join", "prompt"} /\ main' = "raised"
        \/ main = "prompt" /\ main' \in {"prompt", "returned"}
    BY <1>4 DEF HandleLine, CleanUp, Joined, JoinTimesOut, Command, EndOfCommands
  <2>3. RunTypes' /\ LinesInOrder' /\ ThreadTells'
    BY <2>1, <2>2 DEF RunInv, RunTypes, LinesInOrder, ThreadTells, threadVars, programVars
  <2>4. ReadToTheEnd' /\ JoinedBefore'
    BY <2>1, <2>2 DEF RunInv, ThreadTells, ReadToTheEnd, JoinedBefore, ThreadEnded, threadVars, programVars
  <2>5. should_quit' => should_quit \/ main = "prompt"
    BY <1>4 DEF HandleLine, CleanUp, Joined, JoinTimesOut, Command, EndOfCommands
  <2>6. QuitAtPrompt'
    BY <2>2, <2>5 DEF RunInv, QuitAtPrompt
  <2>7. QED
    BY <2>3, <2>4, <2>6 DEF RunInv
<1>5. CASE Shutdown
  <2>1. /\ main' = "gone" /\ main \in {"returned", "raised"} /\ write_end' = FALSE
        /\ UNCHANGED <<parsed, should_quit, thread, returncode, pipe, programVars, interrupts>>
    BY <1>5 DEF Shutdown
  <2>2. QED
    BY <2>1 DEF RunInv, RunTypes, LinesInOrder, ThreadTells, ReadToTheEnd, JoinedBefore, QuitAtPrompt, programVars
<1>6. QED
  BY <1>1, <1>2, <1>3, <1>4, <1>5 DEF MainStep

(* Ctrl-C may end what runs, but nothing that is over changes.               *)
LEMMA InterruptKeepsInv ==
  ASSUME RunInv, Interrupt
  PROVE  RunInv'
<1>1. /\ interrupts \in Nat /\ interrupts' = interrupts + 1
      /\ UNCHANGED <<parsed, should_quit, thread, returncode, written, pipe>>
  BY DEF Interrupt, RunInv, RunTypes
<1>2. \/ main = "readline" /\ main' = "cleanup" /\ write_end' = write_end
      \/ main \in {"handle", "cleanup", "join", "prompt"} /\ main' = "raised" /\ write_end' = write_end
      \/ main \in {"returned", "raised"} /\ main' = "gone" /\ write_end' = FALSE
  BY DEF Interrupt
<1>3. \/ UNCHANGED <<program, exit_code>>
      \/ ProgramAlive /\ program' = "exited"
  BY DEF Interrupt
<1>4. helper' \in {helper, "exited"}
  BY DEF Interrupt
<1>5. RunTypes' /\ LinesInOrder'
  <2>1. LinesInOrder'
    BY <1>1 DEF RunInv, LinesInOrder
  <2>2. interrupts' \in Nat /\ helper' \in {"none", "running", "exited"}
    BY <1>1, <1>4 DEF RunInv, RunTypes
  <2>3. QED
    BY <1>1, <1>2, <1>3, <2>1, <2>2 DEF RunInv, RunTypes
<1>6. ThreadTells'
  BY <1>1, <1>2, <1>3 DEF RunInv, RunTypes, ThreadTells, ProgramAlive
<1>7. ReadToTheEnd' /\ JoinedBefore' /\ QuitAtPrompt'
  BY <1>1, <1>2 DEF RunInv, ReadToTheEnd, JoinedBefore, QuitAtPrompt
<1>8. QED
  BY <1>5, <1>6, <1>7 DEF RunInv

(* The invariant holds in every state of run mode.                           *)
THEOREM RunInvariant == Spec => []RunInv
<1>1. Init => RunInv
  <2>1. SUFFICES ASSUME Init PROVE RunInv
    OBVIOUS
  <2>2. RunTypes
    <3>1. <<>> \in Seq(Nat)
      OBVIOUS
    <3>2. pipe = <<>> /\ parsed = <<>>
      BY <2>1 DEF Init
    <3>3. pipe \in Seq(Nat) /\ parsed \in Seq(Nat)
      BY <3>1, <3>2
    <3>4. QED
      BY <2>1, <3>3 DEF Init, RunTypes
  <2>3. LinesInOrder
    BY <2>1 DEF Init, LinesInOrder
  <2>4. ThreadTells /\ ReadToTheEnd /\ JoinedBefore /\ QuitAtPrompt
    BY <2>1 DEF Init, ThreadTells, ReadToTheEnd, JoinedBefore, QuitAtPrompt
  <2>5. QED
    BY <2>2, <2>3, <2>4 DEF RunInv
<1>2. RunInv /\ [Next]_vars => RunInv'
  <2>1. RunInv /\ UNCHANGED vars => RunInv'
    BY DEF vars, mainVars, threadVars, programVars, RunInv, RunTypes, LinesInOrder, ThreadTells,
           ReadToTheEnd, JoinedBefore, QuitAtPrompt
  <2>2. QED
    BY <2>1, EnvironmentKeepsInv, ThreadKeepsInv, MainKeepsInv, InterruptKeepsInv DEF Next, User
<1>3. QED
  BY <1>1, <1>2, PTL DEF Spec

(* Unless the user interrupts it, all the program has written is read, in    *)
(* order, before the reading ends, and nothing can be written afterwards.    *)
(* For a program that could not be started it does not end.                  *)
THEOREM AllIsParsed == Spec => []AllParsed
<1>1. RunInv => AllParsed
  <2>1. SUFFICES ASSUME RunInv, main \in {"cleanup", "join", "prompt", "returned"}, interrupts = 0
                 PROVE  /\ parsed = [i \in 1..written |-> i]
                        /\ ~ProgramAlive /\ helper # "running" /\ thread = "done"
    BY DEF AllParsed
  <2>2. pipe = <<>> /\ thread = "done" /\ helper # "running"
    BY <2>1 DEF RunInv, ReadToTheEnd
  <2>3. ~ProgramAlive
    BY <2>1, <2>2 DEF RunInv, ThreadTells, ProgramAlive
  <2>4. parsed \in Seq(Nat) /\ Len(parsed) = written /\ \A i \in 1..written : parsed[i] = i
    BY <2>1, <2>2 DEF RunInv, RunTypes, LinesInOrder
  <2>5. parsed = [i \in 1..written |-> i]
    BY <2>4
  <2>6. QED
    BY <2>2, <2>3, <2>5
<1>2. QED
  BY <1>1, RunInvariant, PTL

(* What run_program returns is the exit code of a program that has ended, or *)
(* 99 if none could be started.                                              *)
THEOREM ExitCodeReturned == Spec => []ReturnsExitCode
<1>1. RunInv => ReturnsExitCode
  BY DEF RunInv, ThreadTells, JoinedBefore, ReturnsExitCode, ProgramAlive
<1>2. QED
  BY <1>1, RunInvariant, PTL

(* run_program does not return before the user was asked: a wish to quit can *)
(* only have come from the prompt.                                           *)
THEOREM UserAlwaysAsked == Spec => UserIsAsked
<1>1. RunInv /\ [Next]_vars => [main' = "returned" => main \in {"prompt", "returned"}]_vars
  <2>1. SUFFICES ASSUME RunInv, Next, main' = "returned"
                 PROVE  main \in {"prompt", "returned"}
    OBVIOUS
  <2>2. CASE Environment \/ ThreadStep
    BY <2>1, <2>2 DEF Environment, ProgramWrites, ProgramForks, ProgramExits, HelperExits,
                      ThreadStep, StartFails, StartProgram, ProgramWaitedFor, CloseWriteEnd, mainVars
  <2>3. CASE MainStep
    <3>1. ~Joined
      BY <2>1 DEF Joined, RunInv, QuitAtPrompt
    <3>2. QED
      BY <2>1, <2>3, <3>1 DEF MainStep, Begin, ReadLine, HandleLine, EndOfInput, CleanUp,
                              JoinTimesOut, Shutdown
  <2>4. CASE User
    BY <2>1, <2>4 DEF User, Command, EndOfCommands, Interrupt
  <2>5. QED
    BY <2>1, <2>2, <2>3, <2>4 DEF Next
<1>2. QED
  BY <1>1, RunInvariant, PTL DEF Spec, UserIsAsked

------------------------------------------------------------------------------
(* Module Filter.  Simplifying is proved level by level, from the strings up *)
(* to the messages: what simplify makes of a parsed text matches what the    *)
(* text means, and is Always only where the text asks for everything or      *)
(* nothing.  Then the same of lists joined to what was shown before.         *)


(* What is selected at some places is what stands there.                      *)
LEMMA SelectedElements ==
  ASSUME NEW E, NEW s \in Seq(E), NEW P
  PROVE  /\ \A k \in DOMAIN Selected(s, P) :
              \E n \in DOMAIN s : n \in P /\ s[n] = Selected(s, P)[k]
         /\ \A n \in DOMAIN s : n \in P =>
              \E k \in DOMAIN Selected(s, P) : Selected(s, P)[k] = s[n]
<1> DEFINE chosen == Selected(s, P)
<1>1. chosen \in Seq(E) /\ DOMAIN chosen = 1..Len(chosen) /\ DOMAIN s = 1..Len(s)
  BY SelectedType
<1>2. PICK pos \in [1..Len(chosen) -> P \cap 1..Len(s)] :
        /\ \A n \in P \cap 1..Len(s) : \E k \in 1..Len(chosen) : pos[k] = n
        /\ \A k \in 1..Len(chosen) : chosen[k] = s[pos[k]]
  BY SelectedPlaces
<1> HIDE DEF chosen
<1>3. ASSUME NEW k \in DOMAIN chosen
      PROVE  \E n \in DOMAIN s : n \in P /\ s[n] = chosen[k]
  <2>1. pos[k] \in P /\ pos[k] \in DOMAIN s /\ s[pos[k]] = chosen[k]
    BY <1>1, <1>2, <1>3
  <2>2. QED
    BY <2>1
<1>4. ASSUME NEW n \in DOMAIN s, n \in P
      PROVE  \E k \in DOMAIN chosen : chosen[k] = s[n]
  <2>1. PICK k \in 1..Len(chosen) : pos[k] = n
    BY <1>1, <1>2, <1>4
  <2>2. QED
    BY <1>1, <1>2, <2>1
<1>5. QED
  BY <1>3, <1>4 DEF chosen

LEMMA SelectedAll ==
  ASSUME NEW E, NEW s \in Seq(E), NEW P, \A n \in DOMAIN s : n \in P
  PROVE  Selected(s, P) = s
<1> DEFINE up == SelectedUpTo(s, P)
           T == {n \in Nat : n <= Len(s) =>
                   Len(up[n]) = n /\ \A k \in 1..n : up[n][k] = s[k]}
<1>1. /\ Len(s) \in Nat /\ DOMAIN s = 1..Len(s)
      /\ up[0] = <<>> /\ up \in [0..Len(s) -> Seq(E)]
      /\ \A n \in 1..Len(s) : up[n] = IF n \in P THEN Append(up[n - 1], s[n]) ELSE up[n - 1]
  BY SelectedStep
<1> HIDE DEF up
<1>2. 0 \in T
  BY <1>1
<1>3. ASSUME NEW n \in Nat, n \in T
      PROVE  n + 1 \in T
  <2>1. SUFFICES ASSUME n + 1 <= Len(s)
                 PROVE  Len(up[n + 1]) = n + 1 /\ \A k \in 1..n+1 : up[n + 1][k] = s[k]
    OBVIOUS
  <2>2. n + 1 \in 1..Len(s) /\ (n + 1) - 1 = n /\ n \in 0..Len(s) /\ n + 1 \in P
    BY <1>1, <2>1
  <2>3. Len(up[n]) = n /\ \A k \in 1..n : up[n][k] = s[k]
    BY <1>1, <1>3, <2>1
  <2>4. up[n] \in Seq(E) /\ s[n + 1] \in E /\ up[n + 1] = Append(up[n], s[n + 1])
    <3>1. up[n + 1] = IF n + 1 \in P THEN Append(up[n], s[n + 1]) ELSE up[n]
      BY <1>1, <2>2
    <3>2. QED
      BY <1>1, <2>2, <3>1
  <2>5. QED
    BY <2>3, <2>4
<1> HIDE DEF T
<1>4. Nat \subseteq T
  BY <1>2, <1>3, Induction
<1>5. /\ up[Len(s)] \in Seq(E) /\ Len(up[Len(s)]) = Len(s)
      /\ \A k \in 1..Len(s) : up[Len(s)][k] = s[k]
  BY <1>1, <1>4 DEF T
<1>6. QED
  BY <1>1, <1>5 DEF Selected, up

------------------------------------------------------------------------------
(* Always *)

(* The matchers that always or never match are the two that the program has.  *)
Canonical(m) == IsAlways(m) => m = Always(TRUE) \/ m = Always(FALSE)

LEMMA AlwaysFacts ==
  /\ AlwaysTrue(Always(TRUE)) /\ ~AlwaysFalse(Always(TRUE)) /\ IsAlways(Always(TRUE))
  /\ AlwaysFalse(Always(FALSE)) /\ ~AlwaysTrue(Always(FALSE)) /\ IsAlways(Always(FALSE))
  /\ Always(TRUE) # Always(FALSE)
  /\ Canonical(Always(TRUE)) /\ Canonical(Always(FALSE))
  /\ Always(TRUE).is = "always" /\ Always(FALSE).is = "always"
  /\ Always(TRUE).result = TRUE /\ Always(FALSE).result = FALSE
BY DEF AlwaysTrue, AlwaysFalse, IsAlways, Always, Canonical

LEMMA CanonicalFacts ==
  ASSUME NEW m, Canonical(m)
  PROVE  /\ AlwaysTrue(m) <=> m = Always(TRUE)
         /\ AlwaysFalse(m) <=> m = Always(FALSE)
         /\ IsAlways(m) <=> AlwaysTrue(m) \/ AlwaysFalse(m)
         /\ ~(AlwaysTrue(m) /\ AlwaysFalse(m))
BY AlwaysFacts DEF Canonical, AlwaysTrue, AlwaysFalse

------------------------------------------------------------------------------
(* Simplifying a list *)

LEMMA NotNeverFacts ==
  ASSUME NEW E, NEW ms \in Seq(E)
  PROVE  /\ NotNever(ms) \in Seq(E)
         /\ \A k \in DOMAIN NotNever(ms) :
              /\ ~AlwaysFalse(NotNever(ms)[k])
              /\ \E n \in DOMAIN ms : ms[n] = NotNever(ms)[k]
         /\ \A n \in DOMAIN ms : ~AlwaysFalse(ms[n]) =>
              \E k \in DOMAIN NotNever(ms) : NotNever(ms)[k] = ms[n]
         /\ (\A n \in DOMAIN ms : ~AlwaysFalse(ms[n])) => NotNever(ms) = ms
<1> DEFINE P == {i \in DOMAIN ms : ~AlwaysFalse(ms[i])}
<1>1. NotNever(ms) = Selected(ms, P)
  BY Zenon DEF NotNever
<1>2. \A n : n \in P <=> n \in DOMAIN ms /\ ~AlwaysFalse(ms[n])
  OBVIOUS
<1> HIDE DEF P
<1>3. /\ Selected(ms, P) \in Seq(E)
      /\ \A k \in DOMAIN Selected(ms, P) :
           \E n \in DOMAIN ms : n \in P /\ ms[n] = Selected(ms, P)[k]
      /\ \A n \in DOMAIN ms : n \in P =>
           \E k \in DOMAIN Selected(ms, P) : Selected(ms, P)[k] = ms[n]
  BY SelectedElements, SelectedType
<1>4. ASSUME \A n \in DOMAIN ms : ~AlwaysFalse(ms[n])
      PROVE  Selected(ms, P) = ms
  BY <1>2, <1>4, SelectedAll
<1>5. QED
  BY <1>1, <1>2, <1>3, <1>4, Zenon

(* The items that accept something are in A: whether a list does.             *)
Accepts(positive, negative, A) ==
  /\ \E i \in DOMAIN positive : positive[i] \in A
  /\ \A i \in DOMAIN negative : negative[i] \notin A

SomeTrue(ms) == \E i \in DOMAIN ms : AlwaysTrue(ms[i])
AllFalse(ms) == \A i \in DOMAIN ms : AlwaysFalse(ms[i])

SimplerPositive(positive) == NotNever(IF SomeTrue(positive) THEN <<Always(TRUE)>> ELSE positive)

LEMMA SimplerListCases ==
  ASSUME NEW positive, NEW negative
  PROVE  SimplerList(positive, negative) =
           LET pos == SimplerPositive(positive)
               neg == NotNever(negative)
           IN IF pos = <<>> \/ SomeTrue(negative) THEN Always(FALSE)
              ELSE IF Len(pos) = 1 /\ neg = <<>> THEN pos[1] ELSE MatcherList(pos, neg)
BY Zenon DEF SimplerList, SimplerPositive, SomeTrue

(* What is left of the items that a message may match.                        *)
LEMMA SimplerPositiveFacts ==
  ASSUME NEW E, Always(TRUE) \in E, NEW positive \in Seq(E), \A e \in E : Canonical(e)
  PROVE  LET pos == SimplerPositive(positive)
         IN /\ pos \in Seq(E)
            /\ SomeTrue(positive) => pos = <<Always(TRUE)>>
            /\ SomeTrue(pos) => SomeTrue(positive)
            /\ pos = <<>> <=> AllFalse(positive)
            /\ \A k \in DOMAIN pos : ~AlwaysFalse(pos[k])
            /\ SimplerPositive(pos) = pos
            /\ \A A : Always(TRUE) \in A /\ Always(FALSE) \notin A =>
                 ((\E i \in DOMAIN positive : positive[i] \in A)
                    <=> \E i \in DOMAIN pos : pos[i] \in A)
<1> DEFINE pos == SimplerPositive(positive)
           any == <<Always(TRUE)>>
<1>1. any \in Seq(E) /\ DOMAIN any = {1} /\ any[1] = Always(TRUE) /\ any # <<>>
  <2> DEFINE e == Always(TRUE)
  <2>1. e \in E
    OBVIOUS
  <2> HIDE DEF e
  <2>2. <<e>> \in Seq(E) /\ DOMAIN <<e>> = {1} /\ <<e>>[1] = e /\ <<e>> # <<>>
    BY <2>1
  <2>3. QED
    BY <2>2, Zenon DEF e
<1> HIDE DEF any
<1>2. NotNever(any) = any /\ SomeTrue(any)
  BY <1>1, NotNeverFacts, AlwaysFacts, ZenonT(30) DEF SomeTrue
<1>3. ASSUME SomeTrue(positive)
      PROVE  pos = any
  BY <1>2, <1>3, Zenon DEF SimplerPositive, any
<1>4. ASSUME ~SomeTrue(positive)
      PROVE  pos = NotNever(positive)
  BY <1>4, Zenon DEF SimplerPositive
<1> HIDE DEF pos
<1>5. CASE SomeTrue(positive)
  <2>1. PICK n \in DOMAIN positive : positive[n] = Always(TRUE)
    <3>1. PICK n \in DOMAIN positive : AlwaysTrue(positive[n])
      BY <1>5 DEF SomeTrue
    <3>2. Canonical(positive[n])
      OBVIOUS
    <3>3. positive[n] = Always(TRUE)
      BY <3>1, <3>2, CanonicalFacts, Zenon
    <3>4. QED
      BY <3>3
  <2>2. ~AllFalse(positive)
    BY <2>1, AlwaysFacts DEF AllFalse
  <2>3. SimplerPositive(pos) = pos
    BY <1>2, <1>3, <1>5, Zenon DEF SimplerPositive, any
  <2>4. \A k \in DOMAIN pos : ~AlwaysFalse(pos[k])
    <3>1. \A k \in DOMAIN any : any[k] = Always(TRUE)
      BY <1>1
    <3>2. QED
      BY <1>3, <1>5, <3>1, AlwaysFacts, Zenon
  <2>5. QED
    BY <1>1, <1>2, <1>3, <1>5, <2>1, <2>2, <2>3, <2>4 DEF pos, any
<1>6. CASE ~SomeTrue(positive)
  <2> DEFINE ms == NotNever(positive)
  <2>1. /\ ms \in Seq(E) /\ pos = ms
        /\ \A k \in DOMAIN ms : ~AlwaysFalse(ms[k]) /\ \E n \in DOMAIN positive : positive[n] = ms[k]
        /\ \A n \in DOMAIN positive : ~AlwaysFalse(positive[n]) =>
             \E k \in DOMAIN ms : ms[k] = positive[n]
    BY <1>4, <1>6, NotNeverFacts
  <2>2. NotNever(ms) = ms
    BY <2>1, NotNeverFacts
  <2> HIDE DEF ms
  <2>3. ~SomeTrue(ms)
    BY <1>6, <2>1 DEF SomeTrue
  <2>4. SimplerPositive(pos) = pos
    BY <2>1, <2>2, <2>3, Zenon DEF SimplerPositive
  <2>5. ms = <<>> <=> AllFalse(positive)
    <3>1. ms = <<>> <=> DOMAIN ms = {}
      BY <2>1
    <3>2. QED
      BY <2>1, <3>1 DEF AllFalse
  <2>6. ASSUME NEW A, Always(FALSE) \notin A
        PROVE  (\E i \in DOMAIN positive : positive[i] \in A) <=> \E i \in DOMAIN ms : ms[i] \in A
    <3>1. ASSUME NEW i \in DOMAIN positive, positive[i] \in A
          PROVE  ~AlwaysFalse(positive[i])
      <4>1. Canonical(positive[i])
        OBVIOUS
      <4>2. QED
        BY <2>6, <3>1, <4>1, CanonicalFacts
    <3>2. QED
      BY <2>1, <3>1
  <2>7. QED
    BY <1>6, <2>1, <2>3, <2>4, <2>5, <2>6 DEF pos
<1>7. QED
  BY <1>5, <1>6

(* What is left of the exclusions.                                            *)
LEMMA SimplerNegativeFacts ==
  ASSUME NEW E, NEW negative \in Seq(E), \A e \in E : Canonical(e)
  PROVE  LET neg == NotNever(negative)
         IN /\ neg \in Seq(E)
            /\ SomeTrue(neg) => SomeTrue(negative)
            /\ neg = <<>> <=> AllFalse(negative)
            /\ NotNever(neg) = neg
            /\ \A A : Always(FALSE) \notin A =>
                 ((\E i \in DOMAIN negative : negative[i] \in A) <=> \E i \in DOMAIN neg : neg[i] \in A)
<1> DEFINE ms == NotNever(negative)
<1>1. /\ ms \in Seq(E)
      /\ \A k \in DOMAIN ms : ~AlwaysFalse(ms[k]) /\ \E n \in DOMAIN negative : negative[n] = ms[k]
      /\ \A n \in DOMAIN negative : ~AlwaysFalse(negative[n]) =>
           \E k \in DOMAIN ms : ms[k] = negative[n]
  BY NotNeverFacts
<1>2. NotNever(ms) = ms
  BY <1>1, NotNeverFacts
<1> HIDE DEF ms
<1>3. SomeTrue(ms) => SomeTrue(negative)
  BY <1>1 DEF SomeTrue
<1>4. ms = <<>> <=> AllFalse(negative)
  <2>1. ms = <<>> <=> DOMAIN ms = {}
    BY <1>1
  <2>2. QED
    BY <1>1, <2>1 DEF AllFalse
<1>5. ASSUME NEW A, Always(FALSE) \notin A
      PROVE  (\E i \in DOMAIN negative : negative[i] \in A) <=> \E i \in DOMAIN ms : ms[i] \in A
  <2>1. ASSUME NEW i \in DOMAIN negative, negative[i] \in A
        PROVE  ~AlwaysFalse(negative[i])
    <3>1. Canonical(negative[i])
      OBVIOUS
    <3>2. QED
      BY <1>5, <2>1, <3>1, CanonicalFacts
  <2>2. QED
    BY <1>1, <2>1
<1>6. QED
  BY <1>1, <1>2, <1>3, <1>4, <1>5 DEF ms

(* What simplify makes of a list: something that always or never matches, one *)
(* of its items, or a list that does not get any simpler; it accepts what the *)
(* list does.                                                                 *)
SimpleList(r, E) ==
  /\ r = MatcherList(r.positive, r.negative)
  /\ r.positive \in Seq(E) /\ r.negative \in Seq(E)
  /\ SimplerList(r.positive, r.negative) = r

LEMMA SimplerListFacts ==
  ASSUME NEW E, Always(TRUE) \in E, NEW positive \in Seq(E), NEW negative \in Seq(E),
         \A e \in E : Canonical(e)
  PROVE  LET r == SimplerList(positive, negative)
         IN /\ Canonical(r)
            /\ AlwaysTrue(r) <=> SomeTrue(positive) /\ AllFalse(negative)
            /\ AlwaysFalse(r) <=> SomeTrue(negative) \/ AllFalse(positive)
            /\ r = Always(FALSE) \/ r \in E \/ (r.is = "list" /\ SimpleList(r, E))
            /\ \A A : Always(TRUE) \in A /\ Always(FALSE) \notin A =>
                 \/ r = Always(FALSE) /\ ~Accepts(positive, negative, A)
                 \/ r \in E /\ (Accepts(positive, negative, A) <=> r \in A)
                 \/ r.is = "list" /\ (Accepts(positive, negative, A)
                                       <=> Accepts(r.positive, r.negative, A))
<1> DEFINE r == SimplerList(positive, negative)
           pos == SimplerPositive(positive)
           neg == NotNever(negative)
<1>1. /\ pos \in Seq(E)
      /\ SomeTrue(positive) => pos = <<Always(TRUE)>>
      /\ SomeTrue(pos) => SomeTrue(positive)
      /\ pos = <<>> <=> AllFalse(positive)
      /\ \A k \in DOMAIN pos : ~AlwaysFalse(pos[k])
      /\ SimplerPositive(pos) = pos
      /\ \A A : Always(TRUE) \in A /\ Always(FALSE) \notin A =>
           ((\E i \in DOMAIN positive : positive[i] \in A) <=> \E i \in DOMAIN pos : pos[i] \in A)
  BY SimplerPositiveFacts
<1>2. /\ neg \in Seq(E)
      /\ SomeTrue(neg) => SomeTrue(negative)
      /\ neg = <<>> <=> AllFalse(negative)
      /\ NotNever(neg) = neg
      /\ \A A : Always(FALSE) \notin A =>
           ((\E i \in DOMAIN negative : negative[i] \in A) <=> \E i \in DOMAIN neg : neg[i] \in A)
  BY SimplerNegativeFacts
<1>3. r = IF pos = <<>> \/ SomeTrue(negative) THEN Always(FALSE)
          ELSE IF Len(pos) = 1 /\ neg = <<>> THEN pos[1] ELSE MatcherList(pos, neg)
  BY SimplerListCases
<1>4. SimplerList(pos, neg) =
        IF pos = <<>> \/ SomeTrue(neg) THEN Always(FALSE)
        ELSE IF Len(pos) = 1 /\ neg = <<>> THEN pos[1] ELSE MatcherList(pos, neg)
  BY <1>1, <1>2, SimplerListCases, Zenon
<1> HIDE DEF r, pos, neg
<1>5. ASSUME NEW A, Always(TRUE) \in A, Always(FALSE) \notin A
      PROVE  Accepts(positive, negative, A) <=> Accepts(pos, neg, A)
  BY <1>1, <1>2, <1>5 DEF Accepts
<1>6. ASSUME NEW m \in Seq(E), SomeTrue(m)
      PROVE  ~AllFalse(m)
  BY <1>6 DEF SomeTrue, AllFalse, AlwaysTrue, AlwaysFalse
<1>7. CASE pos = <<>> \/ SomeTrue(negative)
  <2>1. r = Always(FALSE)
    BY <1>3, <1>7
  <2>2. ASSUME NEW A, Always(TRUE) \in A, Always(FALSE) \notin A
        PROVE  ~Accepts(positive, negative, A)
    <3>1. CASE pos = <<>>
      <4>1. DOMAIN pos = {}
        BY <3>1
      <4>2. QED
        BY <1>5, <2>2, <4>1 DEF Accepts
    <3>2. CASE SomeTrue(negative)
      <4>1. PICK n \in DOMAIN negative : AlwaysTrue(negative[n])
        BY <3>2 DEF SomeTrue
      <4>2. Canonical(negative[n])
        OBVIOUS
      <4>3. negative[n] = Always(TRUE)
        BY <4>1, <4>2, CanonicalFacts, Zenon
      <4>4. QED
        BY <2>2, <4>3 DEF Accepts
    <3>3. QED
      BY <1>7, <3>1, <3>2
  <2>3. ~(SomeTrue(positive) /\ AllFalse(negative)) /\ (SomeTrue(negative) \/ AllFalse(positive))
    BY <1>1, <1>6, <1>7
  <2>4. QED
    BY <2>1, <2>2, <2>3, AlwaysFacts DEF r
<1>8. CASE pos # <<>> /\ ~SomeTrue(negative) /\ Len(pos) = 1 /\ neg = <<>>
  <2>1. r = pos[1] /\ r \in E /\ DOMAIN pos = {1} /\ DOMAIN neg = {}
    <3>1. r = pos[1]
      BY <1>3, <1>8
    <3>2. pos \in Seq(E) /\ Len(pos) = 1 /\ neg = <<>>
      BY <1>1, <1>8
    <3>3. DOMAIN pos = 1..Len(pos) /\ \A k \in 1..Len(pos) : pos[k] \in E
      <4>1. pos \in Seq(E)
        BY <1>1
      <4>2. QED
        BY <4>1
    <3>4. DOMAIN pos = {1} /\ DOMAIN neg = {}
      BY <3>2, <3>3, DOMAIN <<>> = {}
    <3>5. QED
      BY <3>1, <3>3, <3>4
  <2>2. Canonical(r)
    BY <2>1
  <2>3. AllFalse(negative) /\ ~AllFalse(positive)
    BY <1>1, <1>2, <1>8
  <2>4. AlwaysTrue(r) <=> SomeTrue(positive)
    <3>1. AlwaysTrue(r) => SomeTrue(pos)
      BY <2>1 DEF SomeTrue
    <3>2. SomeTrue(positive) => r = Always(TRUE)
      <4>1. <<Always(TRUE)>>[1] = Always(TRUE)
        OBVIOUS
      <4>2. QED
        BY <1>1, <2>1, <4>1, Zenon
    <3>3. QED
      BY <1>1, <3>1, <3>2, AlwaysFacts
  <2>5. ~AlwaysFalse(r)
    <3>1. pos[1] \in {pos[k] : k \in DOMAIN pos}
      BY <2>1
    <3>2. \A k \in DOMAIN pos : ~AlwaysFalse(pos[k])
      BY <1>1, <1>8
    <3>3. QED
      BY <2>1, <3>2
  <2>6. ASSUME NEW A, Always(TRUE) \in A, Always(FALSE) \notin A
        PROVE  Accepts(positive, negative, A) <=> r \in A
    BY <1>5, <2>1, <2>6 DEF Accepts
  <2>7. QED
    BY <1>8, <2>1, <2>2, <2>3, <2>4, <2>5, <2>6 DEF r
<1>9. CASE pos # <<>> /\ ~SomeTrue(negative) /\ ~(Len(pos) = 1 /\ neg = <<>>)
  <2>1. r = MatcherList(pos, neg)
    BY <1>3, <1>9
  <2>2. r.is = "list" /\ r.positive = pos /\ r.negative = neg
    BY <2>1 DEF MatcherList
  <2>3. SimplerList(pos, neg) = r
    BY <1>2, <1>4, <1>9, <2>1
  <2>4. ~IsAlways(r)
    BY <2>2 DEF IsAlways
  <2>5. ~(SomeTrue(positive) /\ AllFalse(negative)) /\ ~SomeTrue(negative) /\ ~AllFalse(positive)
    BY <1>1, <1>2, <1>9, Len(<<Always(TRUE)>>) = 1
  <2>6. QED
    BY <1>1, <1>2, <1>5, <2>1, <2>2, <2>3, <2>4, <2>5
       DEF r, SimpleList, Canonical, AlwaysTrue, AlwaysFalse
<1>10. QED
  BY <1>7, <1>8, <1>9

LEMMA SingleList ==
  ASSUME NEW f, Canonical(f)
  PROVE  SimplerList(<<f>>, <<>>) = f
<1> DEFINE E == {f, Always(TRUE)}
           one == <<f>>
           none == <<>>
           pos == SimplerPositive(one)
           neg == NotNever(none)
<1>1. /\ one \in Seq(E) /\ DOMAIN one = {1} /\ one[1] = f /\ Len(one) = 1 /\ one # <<>>
      /\ none \in Seq(E) /\ DOMAIN none = {} /\ Always(TRUE) \in E
  OBVIOUS
<1>2. \A e \in E : Canonical(e)
  BY AlwaysFacts
<1> HIDE DEF E, one, none
<1>3. /\ SomeTrue(one) => pos = <<Always(TRUE)>>
      /\ pos = <<>> <=> AllFalse(one)
  BY <1>1, <1>2, SimplerPositiveFacts
<1>4. neg = <<>> /\ ~SomeTrue(none)
  <2>1. NotNever(none) = none /\ ~SomeTrue(none)
    BY <1>1, NotNeverFacts DEF SomeTrue
  <2>2. QED
    BY <2>1 DEF none
<1>5. SimplerList(one, none) =
        IF pos = <<>> \/ SomeTrue(none) THEN Always(FALSE)
        ELSE IF Len(pos) = 1 /\ neg = <<>> THEN pos[1] ELSE MatcherList(pos, neg)
  BY SimplerListCases
<1> HIDE DEF pos, neg
<1>6. CASE AlwaysFalse(f)
  <2>1. f = Always(FALSE) /\ AllFalse(one)
    BY <1>1, <1>6, CanonicalFacts DEF AllFalse
  <2>2. QED
    BY <1>3, <1>5, <2>1 DEF one, none
<1>7. CASE ~AlwaysFalse(f)
  <2>1. pos = one
    <3>1. CASE AlwaysTrue(f)
      <4>1. f = Always(TRUE) /\ SomeTrue(one)
        BY <1>1, <3>1, CanonicalFacts DEF SomeTrue
      <4>2. QED
        BY <1>3, <4>1 DEF one
    <3>2. CASE ~AlwaysTrue(f)
      <4>1. ~SomeTrue(one)
        BY <1>1, <3>2 DEF SomeTrue
      <4>2. NotNever(one) = one
        BY <1>1, <1>7, NotNeverFacts
      <4>3. QED
        BY <4>1, <4>2, Zenon DEF pos, SimplerPositive
    <3>3. QED
      BY <3>1, <3>2
  <2>2. QED
    BY <1>1, <1>4, <1>5, <2>1 DEF one, none
<1>8. QED
  BY <1>6, <1>7

LEMMA SequenceFacts ==
  ASSUME NEW U, NEW s \in Seq(U)
  PROVE  /\ s = <<>> <=> DOMAIN s = {}
         /\ s = <<>> <=> Len(s) = 0
         /\ \A i \in DOMAIN s : s[i] \in U
<1>1. DOMAIN s = 1..Len(s) /\ Len(s) \in Nat
  OBVIOUS
<1>2. \A i \in 1..Len(s) : s[i] \in U
  OBVIOUS
<1>3. s = <<>> <=> Len(s) = 0
  OBVIOUS
<1>4. DOMAIN s = {} <=> Len(s) = 0
  <2> DEFINE n == Len(s)
  <2>1. n \in Nat /\ (1..n = {} <=> n = 0)
    <3>1. n \in Nat
      OBVIOUS
    <3> HIDE DEF n
    <3>2. n # 0 => 1 \in 1..n
      BY <3>1
    <3>3. n = 0 => 1..n = {}
      BY <3>1
    <3>4. QED
      BY <3>1, <3>2, <3>3
  <2>2. QED
    BY <1>1, <2>1
<1>5. QED
  BY <1>1, <1>2, <1>3, <1>4

(* What a sequence becomes item by item.                                      *)
LEMMA MapType ==
  ASSUME NEW U, NEW E, NEW s \in Seq(U), NEW f, DOMAIN f = DOMAIN s,
         f = [i \in DOMAIN f |-> f[i]], \A i \in DOMAIN s : f[i] \in E
  PROVE  f \in Seq(E) /\ Len(f) = Len(s)
<1>1. DOMAIN f = 1..Len(s) /\ Len(s) \in Nat
  OBVIOUS
<1>2. f \in [1..Len(s) -> E]
  BY <1>1
<1>3. QED
  BY <1>1, <1>2

LEMMA ListOfCases ==
  ASSUME NEW E, NEW positive \in Seq(E), positive # <<>>, NEW negative
  PROVE  \/ /\ negative = <<>> /\ positive = <<positive[1]>> /\ DOMAIN positive = {1}
            /\ ListOf(positive, negative) = positive[1]
         \/ ListOf(positive, negative) = MatcherList(positive, negative)
<1>1. CASE negative = <<>> /\ Len(positive) = 1
  <2>1. DOMAIN positive = {1} /\ positive = <<positive[1]>>
    BY <1>1
  <2>2. QED
    BY <1>1, <2>1 DEF ListOf
<1>2. CASE ~(negative = <<>> /\ Len(positive) = 1)
  BY <1>2 DEF ListOf
<1>3. QED
  BY <1>1, <1>2


OneTextMeaning(u) ==
  LET m == WordMatcher(u)
      r == SimplifyLeaf(m)
  IN /\ m.is # "list" /\ r.is # "list" /\ Canonical(r)
     /\ AlwaysTrue(r) <=> IsAny(u)
     /\ AlwaysFalse(r) <=> FALSE
     /\ SimplifyLeaf(r) = r
     /\ \A x : MatchesLeaf(r, x) <=> MeansWord(u, x)

TextMeaning(t) ==
  LET r == SimplifyText(TextMatcher(t))
  IN /\ Canonical(r)
     /\ AlwaysTrue(r) <=> AnyIn(t)
     /\ AlwaysFalse(r) <=> NoneIn(t)
     /\ SimplifyText(r) = r
     /\ \A x : MatchesText(r, x) <=> MeansText(t, x)

LEMMA TextList ==
  ASSUME NEW t \in ListsAnd(Words), \A u \in Words : u.of # "list" /\ OneTextMeaning(u)
  PROVE  TextMeaning(t)
<1>1. CASE t \in Words
  <2>1. t.of # "list" /\ OneTextMeaning(t)
    BY <1>1
  <2>2. TextMatcher(t) = WordMatcher(t)
    BY <2>1 DEF TextMatcher, ParseList
  <2> DEFINE m == WordMatcher(t)
             r == SimplifyLeaf(m)
  <2>3. /\ m.is # "list" /\ r.is # "list" /\ Canonical(r)
        /\ AlwaysTrue(r) <=> IsAny(t)
        /\ AlwaysFalse(r) <=> FALSE
        /\ SimplifyLeaf(r) = r
        /\ \A x : MatchesLeaf(r, x) <=> MeansWord(t, x)
    BY <2>1, Zenon DEF OneTextMeaning
  <2> HIDE DEF m
  <2>4. SimplifyText(m) = r
    BY <2>3 DEF SimplifyText, SimplifyList
  <2> HIDE DEF r
  <2>5. SimplifyText(r) = r
    BY <2>3 DEF SimplifyText, SimplifyList
  <2>6. \A x : MatchesText(r, x) <=> MeansText(t, x)
    BY <2>1, <2>3 DEF MatchesText, MatchesList, MeansText, MeansList
  <2>7. (AlwaysTrue(r) <=> AnyIn(t)) /\ (AlwaysFalse(r) <=> NoneIn(t))
    BY <2>1, <2>3 DEF AnyIn, NoneIn
  <2>8. QED
    BY <2>2, <2>3, <2>4, <2>5, <2>6, <2>7, Zenon DEF TextMeaning, m
<1>2. CASE t \in ListsOf(Words)
  <2>1. t.of = "list" /\ t.pos \in Seq(Words) /\ t.pos # <<>> /\ t.neg \in Seq(Words)
    BY <1>2 DEF ListsOf
  <2> DEFINE F(u) == SimplifyLeaf(WordMatcher(u))
             E == {F(u) : u \in Words} \cup {Always(TRUE)}
             sp == [i \in DOMAIN t.pos |-> F(t.pos[i])]
             sn == [i \in DOMAIN t.neg |-> F(t.neg[i])]
             mp == [i \in DOMAIN t.pos |-> WordMatcher(t.pos[i])]
             mn == [i \in DOMAIN t.neg |-> WordMatcher(t.neg[i])]
             r == SimplerList(sp, sn)
  <2>2. \A u \in Words : WordMatcher(u).is # "list" /\ F(u).is # "list" /\ Canonical(F(u)) /\ SimplifyLeaf(F(u)) = F(u)
    BY Zenon DEF OneTextMeaning
  <2>3. \A u \in Words : (AlwaysTrue(F(u)) <=> IsAny(u)) /\ (AlwaysFalse(F(u)) <=> FALSE)
    BY Zenon DEF OneTextMeaning
  <2>4. \A u \in Words : \A x : MatchesLeaf(F(u), x) <=> MeansWord(u, x)
    BY Zenon DEF OneTextMeaning
  <2>5. \A u \in Words : F(u) \in E
    OBVIOUS
  <2>6. \A e \in E : e.is # "list" /\ Canonical(e) /\ SimplifyLeaf(e) = e
    <3>1. SimplifyLeaf(Always(TRUE)) = Always(TRUE)
      BY AlwaysFacts DEF SimplifyLeaf
    <3>2. ASSUME NEW e \in E
          PROVE  e = Always(TRUE) \/ \E u \in Words : e = F(u)
      OBVIOUS
    <3> HIDE DEF F, E
    <3>3. QED
      BY <2>2, <3>1, <3>2, AlwaysFacts
  <2>7. Always(TRUE) \in E
    OBVIOUS
  <2> HIDE DEF F, E
  <2>8. /\ \A i \in DOMAIN t.pos : t.pos[i] \in Words
        /\ \A i \in DOMAIN t.neg : t.neg[i] \in Words
        /\ DOMAIN t.pos # {}
    BY <2>1, SequenceFacts
  <2>9. sp \in Seq(E) /\ DOMAIN sp = DOMAIN t.pos /\ \A i \in DOMAIN sp : sp[i] = F(t.pos[i])
    BY <2>1, <2>5, <2>8, MapType
  <2>10. sn \in Seq(E) /\ DOMAIN sn = DOMAIN t.neg /\ \A i \in DOMAIN sn : sn[i] = F(t.neg[i])
    BY <2>1, <2>5, <2>8, MapType
  <2>11. SimplifyText(TextMatcher(t)) = r
    <3> DEFINE G == {WordMatcher(u) : u \in Words}
    <3>1. mp \in Seq(G) /\ Len(mp) = Len(t.pos)
      BY <2>1, <2>8, MapType
    <3>2. mn \in Seq(G) /\ Len(mn) = Len(t.neg)
      BY <2>1, <2>8, MapType
    <3> HIDE DEF G
    <3>3. mp # <<>> /\ (mn = <<>> <=> t.neg = <<>>)
      BY <2>1, <3>1, <3>2, SequenceFacts
    <3>4. TextMatcher(t) = ListOf(mp, mn)
      BY <2>1, Zenon DEF TextMatcher, ParseList
    <3>5. /\ DOMAIN mp = DOMAIN t.pos /\ DOMAIN mn = DOMAIN t.neg
          /\ \A i \in DOMAIN t.pos : mp[i] = WordMatcher(t.pos[i])
          /\ \A i \in DOMAIN t.neg : mn[i] = WordMatcher(t.neg[i])
      OBVIOUS
    <3> HIDE DEF mp, mn
    <3>6. CASE /\ mn = <<>> /\ mp = <<mp[1]>> /\ DOMAIN mp = {1}
               /\ ListOf(mp, mn) = mp[1]
      <4>1. 1 \in DOMAIN t.pos /\ t.pos[1] \in Words /\ mp[1] = WordMatcher(t.pos[1])
        BY <2>8, <3>5, <3>6
      <4>2. SimplifyText(mp[1]) = F(t.pos[1])
        BY <2>2, <4>1 DEF SimplifyText, SimplifyList, F
      <4>3. sp = <<F(t.pos[1])>> /\ sn = <<>>
        <5>1. sp[1] = F(t.pos[1]) /\ DOMAIN sp = {1} /\ t.neg = <<>>
          BY <2>9, <3>3, <3>5, <3>6, <4>1
        <5>2. sn = <<>>
          BY <5>1
        <5> HIDE DEF sp
        <5>3. Len(sp) = 1
          BY <2>9, <5>1
        <5>4. QED
          BY <2>9, <5>1, <5>2, <5>3
      <4>4. SimplerList(<<F(t.pos[1])>>, <<>>) = F(t.pos[1])
        BY <2>2, <4>1, SingleList
      <4>5. QED
        BY <3>4, <3>6, <4>2, <4>3, <4>4, Zenon
    <3>7. CASE ListOf(mp, mn) = MatcherList(mp, mn)
      <4> DEFINE l == MatcherList(mp, mn)
      <4>1. l.is = "list" /\ l.positive = mp /\ l.negative = mn
        BY DEF MatcherList
      <4> HIDE DEF l
      <4>2. SimplifyText(l) = SimplerList([i \in DOMAIN mp |-> SimplifyLeaf(mp[i])], [i \in DOMAIN mn |-> SimplifyLeaf(mn[i])])
        BY <4>1, Zenon DEF SimplifyText, SimplifyList
      <4>3. [i \in DOMAIN mp |-> SimplifyLeaf(mp[i])] = sp
        BY <3>5 DEF F
      <4>4. [i \in DOMAIN mn |-> SimplifyLeaf(mn[i])] = sn
        BY <3>5 DEF F
      <4>5. QED
        BY <3>4, <3>7, <4>2, <4>3, <4>4, Zenon DEF l
    <3>8. QED
      BY <3>1, <3>3, <3>6, <3>7, ListOfCases
  <2> HIDE DEF sp, sn, mp, mn
  <2>12. /\ Canonical(r)
         /\ AlwaysTrue(r) <=> SomeTrue(sp) /\ AllFalse(sn)
         /\ AlwaysFalse(r) <=> SomeTrue(sn) \/ AllFalse(sp)
         /\ r = Always(FALSE) \/ r \in E \/ (r.is = "list" /\ SimpleList(r, E))
         /\ \A A : Always(TRUE) \in A /\ Always(FALSE) \notin A =>
              \/ r = Always(FALSE) /\ ~Accepts(sp, sn, A)
              \/ r \in E /\ (Accepts(sp, sn, A) <=> r \in A)
              \/ r.is = "list" /\ (Accepts(sp, sn, A) <=> Accepts(r.positive, r.negative, A))
    BY <2>6, <2>7, <2>9, <2>10, SimplerListFacts
  <2> HIDE DEF r
  <2>13. /\ SomeTrue(sp) <=> \E i \in DOMAIN t.pos : IsAny(t.pos[i])
         /\ AllFalse(sp) <=> \A i \in DOMAIN t.pos : FALSE
    BY <2>3, <2>8, <2>9 DEF SomeTrue, AllFalse
  <2>14. /\ SomeTrue(sn) <=> \E i \in DOMAIN t.neg : IsAny(t.neg[i])
         /\ AllFalse(sn) <=> \A i \in DOMAIN t.neg : FALSE
    BY <2>3, <2>8, <2>10 DEF SomeTrue, AllFalse
  <2>15. (AlwaysTrue(r) <=> AnyIn(t)) /\ (AlwaysFalse(r) <=> NoneIn(t))
    <3>1. t.neg = <<>> <=> DOMAIN t.neg = {}
      BY <2>1, SequenceFacts
    <3>2. QED
      BY <2>1, <2>8, <2>12, <2>13, <2>14, <3>1 DEF AnyIn, NoneIn
  <2>16. SimplifyText(r) = r
    <3>1. CASE r.is # "list"
      <4>1. r = Always(FALSE) \/ r \in E
        BY <2>12, <3>1
      <4>2. SimplifyLeaf(Always(FALSE)) = Always(FALSE)
        BY AlwaysFacts DEF SimplifyLeaf
      <4>3. QED
        BY <2>6, <3>1, <4>1, <4>2 DEF SimplifyText, SimplifyList
    <3>2. CASE r.is = "list"
      <4>1. SimpleList(r, E)
        BY <2>6, <2>12, <3>2, AlwaysFacts
      <4> DEFINE p == r.positive
                 n == r.negative
      <4>2. p \in Seq(E) /\ n \in Seq(E) /\ SimplerList(p, n) = r
        BY <4>1 DEF SimpleList
      <4>3. SimplifyText(r) = SimplerList([i \in DOMAIN p |-> SimplifyLeaf(p[i])], [i \in DOMAIN n |-> SimplifyLeaf(n[i])])
        BY <3>2, Zenon DEF SimplifyText, SimplifyList
      <4> HIDE DEF p, n
      <4>4. [i \in DOMAIN p |-> SimplifyLeaf(p[i])] = p
        BY <2>6, <4>2
      <4>5. [i \in DOMAIN n |-> SimplifyLeaf(n[i])] = n
        BY <2>6, <4>2
      <4>6. QED
        BY <4>2, <4>3, <4>4, <4>5, Zenon
    <3>3. QED
      BY <3>1, <3>2
  <2>17. ASSUME NEW x
         PROVE  MatchesText(r, x) <=> MeansText(t, x)
    <3> DEFINE A == {e \in E \cup {Always(TRUE)} : MatchesLeaf(e, x)}
    <3>1. MatchesLeaf(Always(TRUE), x) /\ ~MatchesLeaf(Always(FALSE), x)
      BY AlwaysFacts DEF MatchesLeaf
    <3>2. Always(TRUE) \in A /\ Always(FALSE) \notin A
      BY <3>1
    <3>3. \A e \in E : e \in A <=> MatchesLeaf(e, x)
      OBVIOUS
    <3> HIDE DEF A
    <3>4. Accepts(sp, sn, A) <=> MeansText(t, x)
      <4>1. MeansText(t, x) <=> /\ \E i \in DOMAIN t.pos : MeansWord(t.pos[i], x)
                          /\ \A i \in DOMAIN t.neg : ~MeansWord(t.neg[i], x)
        BY <2>1 DEF MeansText, MeansList
      <4>2. \A i \in DOMAIN t.pos : sp[i] \in A <=> MeansWord(t.pos[i], x)
        BY <2>4, <2>5, <2>8, <2>9, <3>3
      <4>3. \A i \in DOMAIN t.neg : sn[i] \in A <=> MeansWord(t.neg[i], x)
        BY <2>4, <2>5, <2>8, <2>10, <3>3
      <4>4. QED
        BY <2>9, <2>10, <4>1, <4>2, <4>3 DEF Accepts
    <3>5. CASE r = Always(FALSE) /\ ~Accepts(sp, sn, A)
      <4>1. ~MatchesText(r, x)
        BY <3>1, <3>5, AlwaysFacts DEF MatchesText, MatchesList
      <4>2. QED
        BY <3>4, <3>5, <4>1
    <3>6. CASE r \in E /\ (Accepts(sp, sn, A) <=> r \in A)
      <4>1. MatchesText(r, x) <=> MatchesLeaf(r, x)
        BY <2>6, <3>6 DEF MatchesText, MatchesList
      <4>2. QED
        BY <3>3, <3>4, <3>6, <4>1
    <3>7. CASE r.is = "list" /\ (Accepts(sp, sn, A) <=> Accepts(r.positive, r.negative, A))
      <4> DEFINE p == r.positive
                 n == r.negative
      <4>1. SimpleList(r, E)
        BY <2>6, <2>12, <3>7, AlwaysFacts
      <4>2. p \in Seq(E) /\ n \in Seq(E)
        BY <4>1 DEF SimpleList
      <4>3. MatchesText(r, x) <=> /\ \E i \in DOMAIN p : MatchesLeaf(p[i], x)
                          /\ \A i \in DOMAIN n : ~MatchesLeaf(n[i], x)
        BY <3>7, Zenon DEF MatchesText, MatchesList
      <4> HIDE DEF p, n
      <4>4. /\ \A i \in DOMAIN p : p[i] \in A <=> MatchesLeaf(p[i], x)
            /\ \A i \in DOMAIN n : n[i] \in A <=> MatchesLeaf(n[i], x)
        BY <3>3, <4>2
      <4>5. QED
        BY <3>4, <3>7, <4>3, <4>4 DEF Accepts, p, n
    <3>8. QED
      BY <2>12, <3>2, <3>5, <3>6, <3>7, Zenon
  <2>18. QED
    BY <2>11, <2>12, <2>15, <2>16, <2>17, Zenon DEF TextMeaning
<1>3. QED
  BY <1>1, <1>2 DEF ListsAnd

(* Words, and lists of them.                                                  *)
LEMMA WordLeaf ==
  ASSUME NEW u \in Words
  PROVE  u.of # "list" /\ OneTextMeaning(u)
<1>1. u.of \in {"empty", "star", "names"}
  BY DEF Words, Empty, Star
<1>2. CASE u.of = "names"
  <2>1. WordMatcher(u) = OneOf(u.names)
    BY <1>2 DEF WordMatcher
  <2>2. OneOf(u.names).is = "oneof" /\ OneOf(u.names).values = u.names
    BY DEF OneOf
  <2> HIDE DEF OneOf
  <2>3. QED
    BY <1>2, <2>1, <2>2 DEF OneTextMeaning, SimplifyLeaf, Canonical, IsAlways, AlwaysTrue, AlwaysFalse,
      IsAny, MatchesLeaf, MeansWord
<1>3. CASE u.of # "names"
  <2>1. WordMatcher(u) = Always(TRUE) /\ IsAny(u)
    BY <1>1, <1>3 DEF WordMatcher, IsAny
  <2>2. QED
    BY <1>1, <2>1, AlwaysFacts DEF OneTextMeaning, SimplifyLeaf, IsAny, MatchesLeaf, MeansWord
<1>4. QED
  BY <1>1, <1>2, <1>3

LEMMA TextFacts ==
  ASSUME NEW t \in ListsAnd(Words)
  PROVE  TextMeaning(t)
BY WordLeaf, TextList

OneObjectMeaning(u) ==
  LET m == OneObjMatcher(u)
      r == SimplifyOneObject(m)
  IN /\ m.is # "list" /\ r.is # "list" /\ Canonical(r)
     /\ AlwaysTrue(r) <=> IsAny(u)
     /\ AlwaysFalse(r) <=> FALSE
     /\ SimplifyOneObject(r) = r
     /\ \A x : MatchesOneObject(r, x) <=> MeansOneObject(u, x)

ObjectMeaning(t) ==
  LET r == SimplifyObject(ObjMatcher(t))
  IN /\ Canonical(r)
     /\ AlwaysTrue(r) <=> AnyIn(t)
     /\ AlwaysFalse(r) <=> NoneIn(t)
     /\ SimplifyObject(r) = r
     /\ \A x : MatchesObject(r, x) <=> MeansObject(t, x)

LEMMA ObjectList ==
  ASSUME NEW t \in ListsAnd(Objects), \A u \in Objects : u.of # "list" /\ OneObjectMeaning(u)
  PROVE  ObjectMeaning(t)
<1>1. CASE t \in Objects
  <2>1. t.of # "list" /\ OneObjectMeaning(t)
    BY <1>1
  <2>2. ObjMatcher(t) = OneObjMatcher(t)
    BY <2>1 DEF ObjMatcher, ParseList
  <2> DEFINE m == OneObjMatcher(t)
             r == SimplifyOneObject(m)
  <2>3. /\ m.is # "list" /\ r.is # "list" /\ Canonical(r)
        /\ AlwaysTrue(r) <=> IsAny(t)
        /\ AlwaysFalse(r) <=> FALSE
        /\ SimplifyOneObject(r) = r
        /\ \A x : MatchesOneObject(r, x) <=> MeansOneObject(t, x)
    BY <2>1, Zenon DEF OneObjectMeaning
  <2> HIDE DEF m
  <2>4. SimplifyObject(m) = r
    BY <2>3 DEF SimplifyObject, SimplifyList
  <2> HIDE DEF r
  <2>5. SimplifyObject(r) = r
    BY <2>3 DEF SimplifyObject, SimplifyList
  <2>6. \A x : MatchesObject(r, x) <=> MeansObject(t, x)
    BY <2>1, <2>3 DEF MatchesObject, MatchesList, MeansObject, MeansList
  <2>7. (AlwaysTrue(r) <=> AnyIn(t)) /\ (AlwaysFalse(r) <=> NoneIn(t))
    BY <2>1, <2>3 DEF AnyIn, NoneIn
  <2>8. QED
    BY <2>2, <2>3, <2>4, <2>5, <2>6, <2>7, Zenon DEF ObjectMeaning, m
<1>2. CASE t \in ListsOf(Objects)
  <2>1. t.of = "list" /\ t.pos \in Seq(Objects) /\ t.pos # <<>> /\ t.neg \in Seq(Objects)
    BY <1>2 DEF ListsOf
  <2> DEFINE F(u) == SimplifyOneObject(OneObjMatcher(u))
             E == {F(u) : u \in Objects} \cup {Always(TRUE)}
             sp == [i \in DOMAIN t.pos |-> F(t.pos[i])]
             sn == [i \in DOMAIN t.neg |-> F(t.neg[i])]
             mp == [i \in DOMAIN t.pos |-> OneObjMatcher(t.pos[i])]
             mn == [i \in DOMAIN t.neg |-> OneObjMatcher(t.neg[i])]
             r == SimplerList(sp, sn)
  <2>2. \A u \in Objects : OneObjMatcher(u).is # "list" /\ F(u).is # "list" /\ Canonical(F(u)) /\ SimplifyOneObject(F(u)) = F(u)
    BY Zenon DEF OneObjectMeaning
  <2>3. \A u \in Objects : (AlwaysTrue(F(u)) <=> IsAny(u)) /\ (AlwaysFalse(F(u)) <=> FALSE)
    BY Zenon DEF OneObjectMeaning
  <2>4. \A u \in Objects : \A x : MatchesOneObject(F(u), x) <=> MeansOneObject(u, x)
    BY Zenon DEF OneObjectMeaning
  <2>5. \A u \in Objects : F(u) \in E
    OBVIOUS
  <2>6. \A e \in E : e.is # "list" /\ Canonical(e) /\ SimplifyOneObject(e) = e
    <3>1. SimplifyOneObject(Always(TRUE)) = Always(TRUE)
      BY AlwaysFacts DEF SimplifyOneObject
    <3>2. ASSUME NEW e \in E
          PROVE  e = Always(TRUE) \/ \E u \in Objects : e = F(u)
      OBVIOUS
    <3> HIDE DEF F, E
    <3>3. QED
      BY <2>2, <3>1, <3>2, AlwaysFacts
  <2>7. Always(TRUE) \in E
    OBVIOUS
  <2> HIDE DEF F, E
  <2>8. /\ \A i \in DOMAIN t.pos : t.pos[i] \in Objects
        /\ \A i \in DOMAIN t.neg : t.neg[i] \in Objects
        /\ DOMAIN t.pos # {}
    BY <2>1, SequenceFacts
  <2>9. sp \in Seq(E) /\ DOMAIN sp = DOMAIN t.pos /\ \A i \in DOMAIN sp : sp[i] = F(t.pos[i])
    BY <2>1, <2>5, <2>8, MapType
  <2>10. sn \in Seq(E) /\ DOMAIN sn = DOMAIN t.neg /\ \A i \in DOMAIN sn : sn[i] = F(t.neg[i])
    BY <2>1, <2>5, <2>8, MapType
  <2>11. SimplifyObject(ObjMatcher(t)) = r
    <3> DEFINE G == {OneObjMatcher(u) : u \in Objects}
    <3>1. mp \in Seq(G) /\ Len(mp) = Len(t.pos)
      BY <2>1, <2>8, MapType
    <3>2. mn \in Seq(G) /\ Len(mn) = Len(t.neg)
      BY <2>1, <2>8, MapType
    <3> HIDE DEF G
    <3>3. mp # <<>> /\ (mn = <<>> <=> t.neg = <<>>)
      BY <2>1, <3>1, <3>2, SequenceFacts
    <3>4. ObjMatcher(t) = ListOf(mp, mn)
      BY <2>1, Zenon DEF ObjMatcher, ParseList
    <3>5. /\ DOMAIN mp = DOMAIN t.pos /\ DOMAIN mn = DOMAIN t.neg
          /\ \A i \in DOMAIN t.pos : mp[i] = OneObjMatcher(t.pos[i])
          /\ \A i \in DOMAIN t.neg : mn[i] = OneObjMatcher(t.neg[i])
      OBVIOUS
    <3> HIDE DEF mp, mn
    <3>6. CASE /\ mn = <<>> /\ mp = <<mp[1]>> /\ DOMAIN mp = {1}
               /\ ListOf(mp, mn) = mp[1]
      <4>1. 1 \in DOMAIN t.pos /\ t.pos[1] \in Objects /\ mp[1] = OneObjMatcher(t.pos[1])
        BY <2>8, <3>5, <3>6
      <4>2. SimplifyObject(mp[1]) = F(t.pos[1])
        BY <2>2, <4>1 DEF SimplifyObject, SimplifyList, F
      <4>3. sp = <<F(t.pos[1])>> /\ sn = <<>>
        <5>1. sp[1] = F(t.pos[1]) /\ DOMAIN sp = {1} /\ t.neg = <<>>
          BY <2>9, <3>3, <3>5, <3>6, <4>1
        <5>2. sn = <<>>
          BY <5>1
        <5> HIDE DEF sp
        <5>3. Len(sp) = 1
          BY <2>9, <5>1
        <5>4. QED
          BY <2>9, <5>1, <5>2, <5>3
      <4>4. SimplerList(<<F(t.pos[1])>>, <<>>) = F(t.pos[1])
        BY <2>2, <4>1, SingleList
      <4>5. QED
        BY <3>4, <3>6, <4>2, <4>3, <4>4, Zenon
    <3>7. CASE ListOf(mp, mn) = MatcherList(mp, mn)
      <4> DEFINE l == MatcherList(mp, mn)
      <4>1. l.is = "list" /\ l.positive = mp /\ l.negative = mn
        BY DEF MatcherList
      <4> HIDE DEF l
      <4>2. SimplifyObject(l) = SimplerList([i \in DOMAIN mp |-> SimplifyOneObject(mp[i])], [i \in DOMAIN mn |-> SimplifyOneObject(mn[i])])
        BY <4>1, Zenon DEF SimplifyObject, SimplifyList
      <4>3. [i \in DOMAIN mp |-> SimplifyOneObject(mp[i])] = sp
        BY <3>5 DEF F
      <4>4. [i \in DOMAIN mn |-> SimplifyOneObject(mn[i])] = sn
        BY <3>5 DEF F
      <4>5. QED
        BY <3>4, <3>7, <4>2, <4>3, <4>4, Zenon DEF l
    <3>8. QED
      BY <3>1, <3>3, <3>6, <3>7, ListOfCases
  <2> HIDE DEF sp, sn, mp, mn
  <2>12. /\ Canonical(r)
         /\ AlwaysTrue(r) <=> SomeTrue(sp) /\ AllFalse(sn)
         /\ AlwaysFalse(r) <=> SomeTrue(sn) \/ AllFalse(sp)
         /\ r = Always(FALSE) \/ r \in E \/ (r.is = "list" /\ SimpleList(r, E))
         /\ \A A : Always(TRUE) \in A /\ Always(FALSE) \notin A =>
              \/ r = Always(FALSE) /\ ~Accepts(sp, sn, A)
              \/ r \in E /\ (Accepts(sp, sn, A) <=> r \in A)
              \/ r.is = "list" /\ (Accepts(sp, sn, A) <=> Accepts(r.positive, r.negative, A))
    BY <2>6, <2>7, <2>9, <2>10, SimplerListFacts
  <2> HIDE DEF r
  <2>13. /\ SomeTrue(sp) <=> \E i \in DOMAIN t.pos : IsAny(t.pos[i])
         /\ AllFalse(sp) <=> \A i \in DOMAIN t.pos : FALSE
    BY <2>3, <2>8, <2>9 DEF SomeTrue, AllFalse
  <2>14. /\ SomeTrue(sn) <=> \E i \in DOMAIN t.neg : IsAny(t.neg[i])
         /\ AllFalse(sn) <=> \A i \in DOMAIN t.neg : FALSE
    BY <2>3, <2>8, <2>10 DEF SomeTrue, AllFalse
  <2>15. (AlwaysTrue(r) <=> AnyIn(t)) /\ (AlwaysFalse(r) <=> NoneIn(t))
    <3>1. t.neg = <<>> <=> DOMAIN t.neg = {}
      BY <2>1, SequenceFacts
    <3>2. QED
      BY <2>1, <2>8, <2>12, <2>13, <2>14, <3>1 DEF AnyIn, NoneIn
  <2>16. SimplifyObject(r) = r
    <3>1. CASE r.is # "list"
      <4>1. r = Always(FALSE) \/ r \in E
        BY <2>12, <3>1
      <4>2. SimplifyOneObject(Always(FALSE)) = Always(FALSE)
        BY AlwaysFacts DEF SimplifyOneObject
      <4>3. QED
        BY <2>6, <3>1, <4>1, <4>2 DEF SimplifyObject, SimplifyList
    <3>2. CASE r.is = "list"
      <4>1. SimpleList(r, E)
        BY <2>6, <2>12, <3>2, AlwaysFacts
      <4> DEFINE p == r.positive
                 n == r.negative
      <4>2. p \in Seq(E) /\ n \in Seq(E) /\ SimplerList(p, n) = r
        BY <4>1 DEF SimpleList
      <4>3. SimplifyObject(r) = SimplerList([i \in DOMAIN p |-> SimplifyOneObject(p[i])], [i \in DOMAIN n |-> SimplifyOneObject(n[i])])
        BY <3>2, Zenon DEF SimplifyObject, SimplifyList
      <4> HIDE DEF p, n
      <4>4. [i \in DOMAIN p |-> SimplifyOneObject(p[i])] = p
        BY <2>6, <4>2
      <4>5. [i \in DOMAIN n |-> SimplifyOneObject(n[i])] = n
        BY <2>6, <4>2
      <4>6. QED
        BY <4>2, <4>3, <4>4, <4>5, Zenon
    <3>3. QED
      BY <3>1, <3>2
  <2>17. ASSUME NEW x
         PROVE  MatchesObject(r, x) <=> MeansObject(t, x)
    <3> DEFINE A == {e \in E \cup {Always(TRUE)} : MatchesOneObject(e, x)}
    <3>1. MatchesOneObject(Always(TRUE), x) /\ ~MatchesOneObject(Always(FALSE), x)
      BY AlwaysFacts DEF MatchesOneObject
    <3>2. Always(TRUE) \in A /\ Always(FALSE) \notin A
      BY <3>1
    <3>3. \A e \in E : e \in A <=> MatchesOneObject(e, x)
      OBVIOUS
    <3> HIDE DEF A
    <3>4. Accepts(sp, sn, A) <=> MeansObject(t, x)
      <4>1. MeansObject(t, x) <=> /\ \E i \in DOMAIN t.pos : MeansOneObject(t.pos[i], x)
                          /\ \A i \in DOMAIN t.neg : ~MeansOneObject(t.neg[i], x)
        BY <2>1 DEF MeansObject, MeansList
      <4>2. \A i \in DOMAIN t.pos : sp[i] \in A <=> MeansOneObject(t.pos[i], x)
        BY <2>4, <2>5, <2>8, <2>9, <3>3
      <4>3. \A i \in DOMAIN t.neg : sn[i] \in A <=> MeansOneObject(t.neg[i], x)
        BY <2>4, <2>5, <2>8, <2>10, <3>3
      <4>4. QED
        BY <2>9, <2>10, <4>1, <4>2, <4>3 DEF Accepts
    <3>5. CASE r = Always(FALSE) /\ ~Accepts(sp, sn, A)
      <4>1. ~MatchesObject(r, x)
        BY <3>1, <3>5, AlwaysFacts DEF MatchesObject, MatchesList
      <4>2. QED
        BY <3>4, <3>5, <4>1
    <3>6. CASE r \in E /\ (Accepts(sp, sn, A) <=> r \in A)
      <4>1. MatchesObject(r, x) <=> MatchesOneObject(r, x)
        BY <2>6, <3>6 DEF MatchesObject, MatchesList
      <4>2. QED
        BY <3>3, <3>4, <3>6, <4>1
    <3>7. CASE r.is = "list" /\ (Accepts(sp, sn, A) <=> Accepts(r.positive, r.negative, A))
      <4> DEFINE p == r.positive
                 n == r.negative
      <4>1. SimpleList(r, E)
        BY <2>6, <2>12, <3>7, AlwaysFacts
      <4>2. p \in Seq(E) /\ n \in Seq(E)
        BY <4>1 DEF SimpleList
      <4>3. MatchesObject(r, x) <=> /\ \E i \in DOMAIN p : MatchesOneObject(p[i], x)
                          /\ \A i \in DOMAIN n : ~MatchesOneObject(n[i], x)
        BY <3>7, Zenon DEF MatchesObject, MatchesList
      <4> HIDE DEF p, n
      <4>4. /\ \A i \in DOMAIN p : p[i] \in A <=> MatchesOneObject(p[i], x)
            /\ \A i \in DOMAIN n : n[i] \in A <=> MatchesOneObject(n[i], x)
        BY <3>3, <4>2
      <4>5. QED
        BY <3>4, <3>7, <4>3, <4>4 DEF Accepts, p, n
    <3>8. QED
      BY <2>12, <3>2, <3>5, <3>6, <3>7, Zenon
  <2>18. QED
    BY <2>11, <2>12, <2>15, <2>16, <2>17, Zenon DEF ObjectMeaning
<1>3. QED
  BY <1>1, <1>2 DEF ListsAnd

LEMMA ClassFacts ==
  /\ \A c, w : Wrap(c, w).is = c /\ Wrap(c, w).wrapped = w
  /\ \A v : OneOf(v).is = "oneof" /\ OneOf(v).values = v /\ ~IsAlways(OneOf(v))
  /\ \A a, b : PairMatcher(a, b).is = "pair" /\ PairMatcher(a, b).a = a /\ PairMatcher(a, b).b = b
               /\ ~IsAlways(PairMatcher(a, b))
BY DEF Wrap, OneOf, PairMatcher, IsAlways

(* Objects, and lists of them.                                                *)
LEMMA ObjectLeaf ==
  ASSUME NEW u \in Objects
  PROVE  u.of # "list" /\ OneObjectMeaning(u)
<1> DEFINE m == OneObjMatcher(u)
<1>1. u.of \in {"empty", "star", "names", "id"}
  BY DEF Objects, Words, Ids, Empty, Star
<1>2. CASE u.of = "empty"
  <2>1. m = Always(TRUE)
    BY <1>2 DEF OneObjMatcher
  <2>2. SimplifyOneObject(Always(TRUE)) = Always(TRUE)
    BY AlwaysFacts DEF SimplifyOneObject
  <2>3. QED
    BY <1>2, <2>1, <2>2, AlwaysFacts
       DEF OneObjectMeaning, MatchesOneObject, MeansOneObject, IsAny
<1>3. CASE u.of = "star"
  <2>1. m = Wrap("type", Always(TRUE))
    BY <1>3 DEF OneObjMatcher, WordMatcher
  <2> HIDE DEF m
  <2>2. m.is = "type" /\ m.wrapped = Always(TRUE)
    BY <2>1, ClassFacts, Zenon
  <2>3. SimplifyOneObject(m) = Always(TRUE) /\ SimplifyOneObject(Always(TRUE)) = Always(TRUE)
    BY <2>2, AlwaysFacts DEF SimplifyOneObject, SimplerWrap, SimplifyLeaf
  <2>4. QED
    BY <1>3, <2>2, <2>3, AlwaysFacts
       DEF OneObjectMeaning, MatchesOneObject, MeansOneObject, IsAny, m
<1>4. CASE u.of = "names"
  <2>1. m = Wrap("type", OneOf(u.names))
    BY <1>4 DEF OneObjMatcher, WordMatcher
  <2>2. m.is = "type" /\ m.wrapped = OneOf(u.names) /\ ~IsAlways(m.wrapped)
    BY <2>1, ClassFacts
  <2> HIDE DEF m
  <2>3. SimplifyOneObject(m) = m
    BY <2>1, <2>2 DEF SimplifyOneObject, SimplerWrap, SimplifyLeaf
  <2>4. ASSUME NEW x
        PROVE  MatchesOneObject(m, x) <=> MeansOneObject(u, x)
    <3>1. MatchesOneObject(m, x) <=> x.type # NoType /\ MatchesLeaf(m.wrapped, x.type)
      BY <2>2 DEF MatchesOneObject
    <3>2. MatchesLeaf(m.wrapped, x.type) <=> x.type \in u.names
      BY <2>2, ClassFacts DEF MatchesLeaf
    <3>3. QED
      BY <1>4, <3>1, <3>2 DEF MeansOneObject, IsAny
  <2>5. ~IsAlways(m)
    BY <2>2 DEF IsAlways
  <2>6. QED
    BY <1>4, <2>2, <2>3, <2>4, <2>5
       DEF OneObjectMeaning, IsAny, Canonical, AlwaysTrue, AlwaysFalse, m
<1>5. CASE u.of = "id"
  <2> DEFINE a == OneOf({u.id})
             b == IF u.generations = {} THEN Always(TRUE) ELSE OneOf(u.generations)
  <2>1. m = Wrap("id", PairMatcher(a, b))
    BY <1>5 DEF OneObjMatcher
  <2>2. m.is = "id" /\ m.wrapped = PairMatcher(a, b) /\ m.wrapped.a = a /\ m.wrapped.b = b
    <3> HIDE DEF m, a, b
    <3>1. m.is = "id" /\ m.wrapped = PairMatcher(a, b)
      BY <2>1, ClassFacts, Zenon
    <3>2. PairMatcher(a, b).a = a /\ PairMatcher(a, b).b = b
      BY ClassFacts
    <3>3. QED
      BY <3>1, <3>2
  <2>3. ~IsAlways(a)
    BY ClassFacts
  <2>4. \A x : MatchesLeaf(a, x) <=> x = u.id
    BY ClassFacts DEF MatchesLeaf
  <2>5. \A x : MatchesLeaf(b, x) <=> u.generations = {} \/ x \in u.generations
    BY ClassFacts, AlwaysFacts DEF MatchesLeaf
  <2> HIDE DEF m, a, b
  <2>6. SimplifyOneObject(m) = m
    <3>1. SimplerPair(a, b) = PairMatcher(a, b)
      BY <2>3 DEF SimplerPair
    <3>2. SimplerWrap("id", PairMatcher(a, b)) = Wrap("id", PairMatcher(a, b))
      BY ClassFacts DEF SimplerWrap
    <3>3. QED
      BY <2>1, <2>2, <3>1, <3>2 DEF SimplifyOneObject, SimplifyLeaf
  <2>7. ASSUME NEW x
        PROVE  MatchesOneObject(m, x) <=> MeansOneObject(u, x)
    <3>1. MatchesOneObject(m, x) <=> MatchesLeaf(a, x.id) /\ MatchesLeaf(b, x.generation)
      BY <2>2 DEF MatchesOneObject
    <3>2. QED
      BY <1>5, <2>4, <2>5, <3>1 DEF MeansOneObject, IsAny
  <2>8. ~IsAlways(m)
    BY <2>2 DEF IsAlways
  <2>9. QED
    BY <1>5, <2>2, <2>6, <2>7, <2>8
       DEF OneObjectMeaning, IsAny, Canonical, AlwaysTrue, AlwaysFalse, m
<1>6. QED
  BY <1>1, <1>2, <1>3, <1>4, <1>5

LEMMA ObjectFacts ==
  ASSUME NEW t \in ListsAnd(Objects)
  PROVE  ObjectMeaning(t)
BY ObjectLeaf, ObjectList

OneValueMeaning(u) ==
  LET m == OneArgValueMatcher(u)
      r == SimplifyOneValue(m)
  IN /\ m.is # "list" /\ r.is # "list" /\ Canonical(r)
     /\ AlwaysTrue(r) <=> IsAny(u)
     /\ AlwaysFalse(r) <=> FALSE
     /\ SimplifyOneValue(r) = r
     /\ \A x : MatchesOneValue(r, x) <=> MeansOneValue(u, x)

ValueMeaning(t) ==
  LET r == SimplifyValue(ArgValueMatcher(t))
  IN /\ Canonical(r)
     /\ AlwaysTrue(r) <=> AnyIn(t)
     /\ AlwaysFalse(r) <=> NoneIn(t)
     /\ SimplifyValue(r) = r
     /\ \A x : MatchesValue(r, x) <=> MeansValue(t, x)

LEMMA ValueList ==
  ASSUME NEW t \in ListsAnd(Values), \A u \in Values : u.of # "list" /\ OneValueMeaning(u)
  PROVE  ValueMeaning(t)
<1>1. CASE t \in Values
  <2>1. t.of # "list" /\ OneValueMeaning(t)
    BY <1>1
  <2>2. ArgValueMatcher(t) = OneArgValueMatcher(t)
    BY <2>1 DEF ArgValueMatcher, ParseList
  <2> DEFINE m == OneArgValueMatcher(t)
             r == SimplifyOneValue(m)
  <2>3. /\ m.is # "list" /\ r.is # "list" /\ Canonical(r)
        /\ AlwaysTrue(r) <=> IsAny(t)
        /\ AlwaysFalse(r) <=> FALSE
        /\ SimplifyOneValue(r) = r
        /\ \A x : MatchesOneValue(r, x) <=> MeansOneValue(t, x)
    BY <2>1, Zenon DEF OneValueMeaning
  <2> HIDE DEF m
  <2>4. SimplifyValue(m) = r
    BY <2>3 DEF SimplifyValue, SimplifyList
  <2> HIDE DEF r
  <2>5. SimplifyValue(r) = r
    BY <2>3 DEF SimplifyValue, SimplifyList
  <2>6. \A x : MatchesValue(r, x) <=> MeansValue(t, x)
    BY <2>1, <2>3 DEF MatchesValue, MatchesList, MeansValue, MeansList
  <2>7. (AlwaysTrue(r) <=> AnyIn(t)) /\ (AlwaysFalse(r) <=> NoneIn(t))
    BY <2>1, <2>3 DEF AnyIn, NoneIn
  <2>8. QED
    BY <2>2, <2>3, <2>4, <2>5, <2>6, <2>7, Zenon DEF ValueMeaning, m
<1>2. CASE t \in ListsOf(Values)
  <2>1. t.of = "list" /\ t.pos \in Seq(Values) /\ t.pos # <<>> /\ t.neg \in Seq(Values)
    BY <1>2 DEF ListsOf
  <2> DEFINE F(u) == SimplifyOneValue(OneArgValueMatcher(u))
             E == {F(u) : u \in Values} \cup {Always(TRUE)}
             sp == [i \in DOMAIN t.pos |-> F(t.pos[i])]
             sn == [i \in DOMAIN t.neg |-> F(t.neg[i])]
             mp == [i \in DOMAIN t.pos |-> OneArgValueMatcher(t.pos[i])]
             mn == [i \in DOMAIN t.neg |-> OneArgValueMatcher(t.neg[i])]
             r == SimplerList(sp, sn)
  <2>2. \A u \in Values : OneArgValueMatcher(u).is # "list" /\ F(u).is # "list" /\ Canonical(F(u)) /\ SimplifyOneValue(F(u)) = F(u)
    BY Zenon DEF OneValueMeaning
  <2>3. \A u \in Values : (AlwaysTrue(F(u)) <=> IsAny(u)) /\ (AlwaysFalse(F(u)) <=> FALSE)
    BY Zenon DEF OneValueMeaning
  <2>4. \A u \in Values : \A x : MatchesOneValue(F(u), x) <=> MeansOneValue(u, x)
    BY Zenon DEF OneValueMeaning
  <2>5. \A u \in Values : F(u) \in E
    OBVIOUS
  <2>6. \A e \in E : e.is # "list" /\ Canonical(e) /\ SimplifyOneValue(e) = e
    <3>1. SimplifyOneValue(Always(TRUE)) = Always(TRUE)
      BY AlwaysFacts DEF SimplifyOneValue
    <3>2. ASSUME NEW e \in E
          PROVE  e = Always(TRUE) \/ \E u \in Values : e = F(u)
      OBVIOUS
    <3> HIDE DEF F, E
    <3>3. QED
      BY <2>2, <3>1, <3>2, AlwaysFacts
  <2>7. Always(TRUE) \in E
    OBVIOUS
  <2> HIDE DEF F, E
  <2>8. /\ \A i \in DOMAIN t.pos : t.pos[i] \in Values
        /\ \A i \in DOMAIN t.neg : t.neg[i] \in Values
        /\ DOMAIN t.pos # {}
    BY <2>1, SequenceFacts
  <2>9. sp \in Seq(E) /\ DOMAIN sp = DOMAIN t.pos /\ \A i \in DOMAIN sp : sp[i] = F(t.pos[i])
    BY <2>1, <2>5, <2>8, MapType
  <2>10. sn \in Seq(E) /\ DOMAIN sn = DOMAIN t.neg /\ \A i \in DOMAIN sn : sn[i] = F(t.neg[i])
    BY <2>1, <2>5, <2>8, MapType
  <2>11. SimplifyValue(ArgValueMatcher(t)) = r
    <3> DEFINE G == {OneArgValueMatcher(u) : u \in Values}
    <3>1. mp \in Seq(G) /\ Len(mp) = Len(t.pos)
      BY <2>1, <2>8, MapType
    <3>2. mn \in Seq(G) /\ Len(mn) = Len(t.neg)
      BY <2>1, <2>8, MapType
    <3> HIDE DEF G
    <3>3. mp # <<>> /\ (mn = <<>> <=> t.neg = <<>>)
      BY <2>1, <3>1, <3>2, SequenceFacts
    <3>4. ArgValueMatcher(t) = ListOf(mp, mn)
      BY <2>1, Zenon DEF ArgValueMatcher, ParseList
    <3>5. /\ DOMAIN mp = DOMAIN t.pos /\ DOMAIN mn = DOMAIN t.neg
          /\ \A i \in DOMAIN t.pos : mp[i] = OneArgValueMatcher(t.pos[i])
          /\ \A i \in DOMAIN t.neg : mn[i] = OneArgValueMatcher(t.neg[i])
      OBVIOUS
    <3> HIDE DEF mp, mn
    <3>6. CASE /\ mn = <<>> /\ mp = <<mp[1]>> /\ DOMAIN mp = {1}
               /\ ListOf(mp, mn) = mp[1]
      <4>1. 1 \in DOMAIN t.pos /\ t.pos[1] \in Values /\ mp[1] = OneArgValueMatcher(t.pos[1])
        BY <2>8, <3>5, <3>6
      <4>2. SimplifyValue(mp[1]) = F(t.pos[1])
        BY <2>2, <4>1 DEF SimplifyValue, SimplifyList, F
      <4>3. sp = <<F(t.pos[1])>> /\ sn = <<>>
        <5>1. sp[1] = F(t.pos[1]) /\ DOMAIN sp = {1} /\ t.neg = <<>>
          BY <2>9, <3>3, <3>5, <3>6, <4>1
        <5>2. sn = <<>>
          BY <5>1
        <5> HIDE DEF sp
        <5>3. Len(sp) = 1
          BY <2>9, <5>1
        <5>4. QED
          BY <2>9, <5>1, <5>2, <5>3
      <4>4. SimplerList(<<F(t.pos[1])>>, <<>>) = F(t.pos[1])
        BY <2>2, <4>1, SingleList
      <4>5. QED
        BY <3>4, <3>6, <4>2, <4>3, <4>4, Zenon
    <3>7. CASE ListOf(mp, mn) = MatcherList(mp, mn)
      <4> DEFINE l == MatcherList(mp, mn)
      <4>1. l.is = "list" /\ l.positive = mp /\ l.negative = mn
        BY DEF MatcherList
      <4> HIDE DEF l
      <4>2. SimplifyValue(l) = SimplerList([i \in DOMAIN mp |-> SimplifyOneValue(mp[i])], [i \in DOMAIN mn |-> SimplifyOneValue(mn[i])])
        BY <4>1, Zenon DEF SimplifyValue, SimplifyList
      <4>3. [i \in DOMAIN mp |-> SimplifyOneValue(mp[i])] = sp
        BY <3>5 DEF F
      <4>4. [i \in DOMAIN mn |-> SimplifyOneValue(mn[i])] = sn
        BY <3>5 DEF F
      <4>5. QED
        BY <3>4, <3>7, <4>2, <4>3, <4>4, Zenon DEF l
    <3>8. QED
      BY <3>1, <3>3, <3>6, <3>7, ListOfCases
  <2> HIDE DEF sp, sn, mp, mn
  <2>12. /\ Canonical(r)
         /\ AlwaysTrue(r) <=> SomeTrue(sp) /\ AllFalse(sn)
         /\ AlwaysFalse(r) <=> SomeTrue(sn) \/ AllFalse(sp)
         /\ r = Always(FALSE) \/ r \in E \/ (r.is = "list" /\ SimpleList(r, E))
         /\ \A A : Always(TRUE) \in A /\ Always(FALSE) \notin A =>
              \/ r = Always(FALSE) /\ ~Accepts(sp, sn, A)
              \/ r \in E /\ (Accepts(sp, sn, A) <=> r \in A)
              \/ r.is = "list" /\ (Accepts(sp, sn, A) <=> Accepts(r.positive, r.negative, A))
    BY <2>6, <2>7, <2>9, <2>10, SimplerListFacts
  <2> HIDE DEF r
  <2>13. /\ SomeTrue(sp) <=> \E i \in DOMAIN t.pos : IsAny(t.pos[i])
         /\ AllFalse(sp) <=> \A i \in DOMAIN t.pos : FALSE
    BY <2>3, <2>8, <2>9 DEF SomeTrue, AllFalse
  <2>14. /\ SomeTrue(sn) <=> \E i \in DOMAIN t.neg : IsAny(t.neg[i])
         /\ AllFalse(sn) <=> \A i \in DOMAIN t.neg : FALSE
    BY <2>3, <2>8, <2>10 DEF SomeTrue, AllFalse
  <2>15. (AlwaysTrue(r) <=> AnyIn(t)) /\ (AlwaysFalse(r) <=> NoneIn(t))
    <3>1. t.neg = <<>> <=> DOMAIN t.neg = {}
      BY <2>1, SequenceFacts
    <3>2. QED
      BY <2>1, <2>8, <2>12, <2>13, <2>14, <3>1 DEF AnyIn, NoneIn
  <2>16. SimplifyValue(r) = r
    <3>1. CASE r.is # "list"
      <4>1. r = Always(FALSE) \/ r \in E
        BY <2>12, <3>1
      <4>2. SimplifyOneValue(Always(FALSE)) = Always(FALSE)
        BY AlwaysFacts DEF SimplifyOneValue
      <4>3. QED
        BY <2>6, <3>1, <4>1, <4>2 DEF SimplifyValue, SimplifyList
    <3>2. CASE r.is = "list"
      <4>1. SimpleList(r, E)
        BY <2>6, <2>12, <3>2, AlwaysFacts
      <4> DEFINE p == r.positive
                 n == r.negative
      <4>2. p \in Seq(E) /\ n \in Seq(E) /\ SimplerList(p, n) = r
        BY <4>1 DEF SimpleList
      <4>3. SimplifyValue(r) = SimplerList([i \in DOMAIN p |-> SimplifyOneValue(p[i])], [i \in DOMAIN n |-> SimplifyOneValue(n[i])])
        BY <3>2, Zenon DEF SimplifyValue, SimplifyList
      <4> HIDE DEF p, n
      <4>4. [i \in DOMAIN p |-> SimplifyOneValue(p[i])] = p
        BY <2>6, <4>2
      <4>5. [i \in DOMAIN n |-> SimplifyOneValue(n[i])] = n
        BY <2>6, <4>2
      <4>6. QED
        BY <4>2, <4>3, <4>4, <4>5, Zenon
    <3>3. QED
      BY <3>1, <3>2
  <2>17. ASSUME NEW x
         PROVE  MatchesValue(r, x) <=> MeansValue(t, x)
    <3> DEFINE A == {e \in E \cup {Always(TRUE)} : MatchesOneValue(e, x)}
    <3>1. MatchesOneValue(Always(TRUE), x) /\ ~MatchesOneValue(Always(FALSE), x)
      BY AlwaysFacts DEF MatchesOneValue
    <3>2. Always(TRUE) \in A /\ Always(FALSE) \notin A
      BY <3>1
    <3>3. \A e \in E : e \in A <=> MatchesOneValue(e, x)
      OBVIOUS
    <3> HIDE DEF A
    <3>4. Accepts(sp, sn, A) <=> MeansValue(t, x)
      <4>1. MeansValue(t, x) <=> /\ \E i \in DOMAIN t.pos : MeansOneValue(t.pos[i], x)
                          /\ \A i \in DOMAIN t.neg : ~MeansOneValue(t.neg[i], x)
        BY <2>1 DEF MeansValue, MeansList
      <4>2. \A i \in DOMAIN t.pos : sp[i] \in A <=> MeansOneValue(t.pos[i], x)
        BY <2>4, <2>5, <2>8, <2>9, <3>3
      <4>3. \A i \in DOMAIN t.neg : sn[i] \in A <=> MeansOneValue(t.neg[i], x)
        BY <2>4, <2>5, <2>8, <2>10, <3>3
      <4>4. QED
        BY <2>9, <2>10, <4>1, <4>2, <4>3 DEF Accepts
    <3>5. CASE r = Always(FALSE) /\ ~Accepts(sp, sn, A)
      <4>1. ~MatchesValue(r, x)
        BY <3>1, <3>5, AlwaysFacts DEF MatchesValue, MatchesList
      <4>2. QED
        BY <3>4, <3>5, <4>1
    <3>6. CASE r \in E /\ (Accepts(sp, sn, A) <=> r \in A)
      <4>1. MatchesValue(r, x) <=> MatchesOneValue(r, x)
        BY <2>6, <3>6 DEF MatchesValue, MatchesList
      <4>2. QED
        BY <3>3, <3>4, <3>6, <4>1
    <3>7. CASE r.is = "list" /\ (Accepts(sp, sn, A) <=> Accepts(r.positive, r.negative, A))
      <4> DEFINE p == r.positive
                 n == r.negative
      <4>1. SimpleList(r, E)
        BY <2>6, <2>12, <3>7, AlwaysFacts
      <4>2. p \in Seq(E) /\ n \in Seq(E)
        BY <4>1 DEF SimpleList
      <4>3. MatchesValue(r, x) <=> /\ \E i \in DOMAIN p : MatchesOneValue(p[i], x)
                          /\ \A i \in DOMAIN n : ~MatchesOneValue(n[i], x)
        BY <3>7, Zenon DEF MatchesValue, MatchesList
      <4> HIDE DEF p, n
      <4>4. /\ \A i \in DOMAIN p : p[i] \in A <=> MatchesOneValue(p[i], x)
            /\ \A i \in DOMAIN n : n[i] \in A <=> MatchesOneValue(n[i], x)
        BY <3>3, <4>2
      <4>5. QED
        BY <3>4, <3>7, <4>3, <4>4 DEF Accepts, p, n
    <3>8. QED
      BY <2>12, <3>2, <3>5, <3>6, <3>7, Zenon
  <2>18. QED
    BY <2>11, <2>12, <2>15, <2>16, <2>17, Zenon DEF ValueMeaning
<1>3. QED
  BY <1>1, <1>2 DEF ListsAnd

(* A wrapper that stays: its value matcher is one of those that are not a     *)
(* star.                                                                      *)
LEMMA ValueWrap ==
  ASSUME NEW c \in {"int", "label", "float", "string"}, NEW v
  PROVE  LET m == Wrap(c, OneOf(v))
         IN SimplifyOneValue(m) = m /\ m.is = c /\ ~IsAlways(m) /\ m.wrapped = OneOf(v)
<1> DEFINE w == OneOf(v)
           m == Wrap(c, w)
<1>1. m.is = c /\ m.wrapped = w /\ ~IsAlways(w)
  BY ClassFacts
<1> HIDE DEF w
<1>2. SimplerWrap(c, w) = m
  BY <1>1 DEF SimplerWrap
<1> HIDE DEF m
<1>3. SimplifyOneValue(m) = SimplerWrap(m.is, SimplifyLeaf(m.wrapped))
  BY <1>1 DEF SimplifyOneValue
<1>4. QED
  BY <1>1, <1>2, <1>3 DEF SimplifyLeaf, IsAlways, m, w

(* What does not simplify to something that always matches.                   *)
LEMMA ValueStays ==
  ASSUME NEW u, u.of \notin {"empty", "star", "list"}, NEW m, m = OneArgValueMatcher(u),
         m.is \notin {"list", "always"}, SimplifyOneValue(m) = m,
         \A x : MatchesOneValue(m, x) <=> MeansOneValue(u, x)
  PROVE  u.of # "list" /\ OneValueMeaning(u)
BY DEF OneValueMeaning, IsAny, Canonical, AlwaysTrue, AlwaysFalse, IsAlways

(* Values of arguments, and lists of them.                                    *)
LEMMA ValueLeaf ==
  ASSUME NEW u \in Values
  PROVE  u.of # "list" /\ OneValueMeaning(u)
<1> DEFINE m == OneArgValueMatcher(u)
<1>1. /\ u.of \in {"empty", "star", "names", "id", "int", "float", "string"}
      /\ u.of = "id" => u \in Objects
  BY DEF Values, Objects, Words, Ids, Empty, Star
<1>2. CASE u.of \in {"empty", "star"}
  <2>1. m = Wrap("int", Always(TRUE))
    BY <1>2 DEF OneArgValueMatcher
  <2> HIDE DEF m
  <2>2. m.is = "int" /\ m.wrapped = Always(TRUE)
    BY <2>1, ClassFacts, Zenon
  <2>3. SimplifyOneValue(m) = Always(TRUE) /\ SimplifyOneValue(Always(TRUE)) = Always(TRUE)
    BY <2>2, AlwaysFacts DEF SimplifyOneValue, SimplerWrap, SimplifyLeaf
  <2>4. QED
    BY <1>2, <2>2, <2>3, AlwaysFacts
       DEF OneValueMeaning, MatchesOneValue, MeansOneValue, IsAny, m
<1>3. CASE u.of = "int"
  <2>1. m = Wrap("int", OneOf({u.int}))
    BY <1>3 DEF OneArgValueMatcher
  <2> HIDE DEF m
  <2>2. m.is = "int" /\ m.wrapped = OneOf({u.int}) /\ SimplifyOneValue(m) = m
    BY <2>1, ValueWrap
  <2>3. \A x : MatchesLeaf(m.wrapped, x) <=> x = u.int
    BY <2>2, ClassFacts DEF MatchesLeaf
  <2>4. ASSUME NEW x
        PROVE  MatchesOneValue(m, x) <=> MeansOneValue(u, x)
    BY <1>3, <2>2, <2>3 DEF MatchesOneValue, MeansOneValue, IsAny
  <2>5. QED
    BY <1>3, <2>2, <2>4, ValueStays DEF m
<1>4. CASE u.of = "float"
  <2>1. m = Wrap("float", OneOf({u.float}))
    BY <1>4 DEF OneArgValueMatcher
  <2> HIDE DEF m
  <2>2. m.is = "float" /\ m.wrapped = OneOf({u.float}) /\ SimplifyOneValue(m) = m
    BY <2>1, ValueWrap
  <2>3. \A x : MatchesLeaf(m.wrapped, x) <=> x = u.float
    BY <2>2, ClassFacts DEF MatchesLeaf
  <2>4. ASSUME NEW x
        PROVE  MatchesOneValue(m, x) <=> MeansOneValue(u, x)
    BY <1>4, <2>2, <2>3 DEF MatchesOneValue, MeansOneValue, IsAny
  <2>5. QED
    BY <1>4, <2>2, <2>4, ValueStays DEF m
<1>5. CASE u.of = "string"
  <2>1. m = Wrap("string", OneOf({u.string}))
    BY <1>5 DEF OneArgValueMatcher
  <2> HIDE DEF m
  <2>2. m.is = "string" /\ m.wrapped = OneOf({u.string}) /\ SimplifyOneValue(m) = m
    BY <2>1, ValueWrap
  <2>3. \A x : MatchesLeaf(m.wrapped, x) <=> x = u.string
    BY <2>2, ClassFacts DEF MatchesLeaf
  <2>4. ASSUME NEW x
        PROVE  MatchesOneValue(m, x) <=> MeansOneValue(u, x)
    BY <1>5, <2>2, <2>3 DEF MatchesOneValue, MeansOneValue, IsAny
  <2>5. QED
    BY <1>5, <2>2, <2>4, ValueStays DEF m
<1>6. CASE u.of = "names"
  <2>1. m = Wrap("label", OneOf(u.names))
    BY <1>6 DEF OneArgValueMatcher, WordMatcher
  <2> HIDE DEF m
  <2>2. m.is = "label" /\ m.wrapped = OneOf(u.names) /\ SimplifyOneValue(m) = m
    BY <2>1, ValueWrap
  <2>3. \A x : MatchesLeaf(m.wrapped, x) <=> x \in u.names
    BY <2>2, ClassFacts DEF MatchesLeaf
  <2>4. ASSUME NEW x
        PROVE  MatchesOneValue(m, x) <=> MeansOneValue(u, x)
    <3>1. MatchesOneValue(m, x) <=>
            \/ x.kind = "int" /\ \E label \in x.labels : label \in u.names
            \/ x.kind = "object" /\ x.obj.type # NoType /\ x.obj.type \in u.names
            \/ x.kind = "null" /\ x.type # NoType /\ x.type \in u.names
      BY <2>2, <2>3 DEF MatchesOneValue
    <3>2. \A o : MeansOneObject(u, o) <=> o.type # NoType /\ o.type \in u.names
      BY <1>6 DEF MeansOneObject, IsAny
    <3>3. MockObject(x.type).type = x.type
      BY DEF MockObject
    <3>4. MeansOneValue(u, x) <=>
            \/ x.kind = "int" /\ \E label \in x.labels : label \in u.names
            \/ x.kind = "object" /\ MeansOneObject(u, x.obj)
            \/ x.kind = "null" /\ MeansOneObject(u, MockObject(x.type))
      BY <1>6 DEF MeansOneValue, IsAny
    <3>5. QED
      BY <3>1, <3>2, <3>3, <3>4
  <2>5. QED
    BY <1>6, <2>2, <2>4, ValueStays DEF m
<1>7. CASE u.of = "id"
  <2> DEFINE o == OneObjMatcher(u)
  <2>1. m = Wrap("object", o)
    BY <1>7 DEF OneArgValueMatcher
  <2> HIDE DEF m
  <2>2. m.is = "object" /\ m.wrapped = o
    BY <2>1, ClassFacts, Zenon
  <2>3. o.is = "id" /\ OneObjectMeaning(u)
    <3>1. o.is = "id"
      BY <1>7, ClassFacts DEF OneObjMatcher
    <3>2. QED
      BY <1>1, <1>7, <3>1, ObjectLeaf
  <2>4. /\ SimplifyOneObject(o).is # "list" /\ ~IsAlways(SimplifyOneObject(o))
        /\ \A x : MatchesOneObject(SimplifyOneObject(o), x) <=> MeansOneObject(u, x)
    <3>1. Canonical(SimplifyOneObject(o)) /\ ~AlwaysTrue(SimplifyOneObject(o))
          /\ ~AlwaysFalse(SimplifyOneObject(o)) /\ SimplifyOneObject(o).is # "list"
      BY <1>7, <2>3 DEF OneObjectMeaning, IsAny
    <3>2. \A x : MatchesOneObject(SimplifyOneObject(o), x) <=> MeansOneObject(u, x)
      BY <2>3, Zenon DEF OneObjectMeaning
    <3>3. QED
      BY <3>1, <3>2, CanonicalFacts
  <2>5. SimplifyOneObject(o) = o
    <3>1. \E a, b : o = Wrap("id", PairMatcher(OneOf(a), b))
      BY <1>7 DEF OneObjMatcher
    <3> HIDE DEF o
    <3>2. PICK a, b : o = Wrap("id", PairMatcher(OneOf(a), b))
      BY <3>1
    <3> DEFINE q == PairMatcher(OneOf(a), b)
    <3>3. o.wrapped = q /\ q.a = OneOf(a) /\ q.b = b /\ ~IsAlways(q) /\ ~IsAlways(OneOf(a))
      BY <3>2, ClassFacts
    <3>4. SimplerPair(OneOf(a), b) = q
      BY <3>3 DEF SimplerPair
    <3> HIDE DEF q
    <3>5. SimplerWrap("id", q) = Wrap("id", q)
      BY <3>3 DEF SimplerWrap
    <3>6. QED
      BY <2>3, <3>2, <3>3, <3>4, <3>5 DEF SimplifyOneObject, SimplifyLeaf, q
  <2> HIDE DEF o
  <2>6. SimplifyObject(o) = o /\ \A x : MatchesObject(o, x) <=> MeansOneObject(u, x)
    BY <2>3, <2>4, <2>5 DEF SimplifyObject, SimplifyList, MatchesObject, MatchesList
  <2>7. SimplifyOneValue(m) = m
    <3>1. SimplifyOneValue(m) = SimplerWrap("object", SimplifyObject(o))
      BY <2>2 DEF SimplifyOneValue
    <3>2. QED
      BY <2>1, <2>3, <2>6, <3>1 DEF SimplerWrap, IsAlways
  <2>8. ASSUME NEW x
        PROVE  MatchesOneValue(m, x) <=> MeansOneValue(u, x)
    <3>1. MatchesOneValue(m, x) <=>
            \/ x.kind = "object" /\ MatchesObject(o, x.obj)
            \/ x.kind = "null" /\ MatchesObject(o, MockObject(x.type))
      BY <2>2 DEF MatchesOneValue
    <3>2. MeansOneValue(u, x) <=>
            \/ x.kind = "object" /\ MeansOneObject(u, x.obj)
            \/ x.kind = "null" /\ MeansOneObject(u, MockObject(x.type))
      BY <1>7 DEF MeansOneValue, IsAny
    <3>3. QED
      BY <2>6, <3>1, <3>2
  <2>9. QED
    BY <1>7, <2>2, <2>7, <2>8, ValueStays DEF m
<1>8. QED
  BY <1>1, <1>2, <1>3, <1>4, <1>5, <1>6, <1>7

LEMMA ValueFacts ==
  ASSUME NEW t \in ListsAnd(Values)
  PROVE  ValueMeaning(t)
BY ValueLeaf, ValueList

OneArgMeaning(u) ==
  LET m == OneArgMatcher(u)
      r == SimplifyOneArg(m)
  IN /\ m.is # "list" /\ r.is # "list" /\ Canonical(r)
     /\ AlwaysTrue(r) <=> AnyArg(u)
     /\ AlwaysFalse(r) <=> NoArg(u)
     /\ SimplifyOneArg(r) = r
     /\ \A x : MatchesOneArg(r, x) <=> MeansOneArg(u, x)

ArgMeaning(t) ==
  LET r == SimplifyArg(ArgMatcher(t))
  IN /\ Canonical(r)
     /\ AlwaysTrue(r) <=> AnyArgIn(t)
     /\ AlwaysFalse(r) <=> NoArgIn(t)
     /\ SimplifyArg(r) = r
     /\ \A x : MatchesArg(r, x) <=> MeansArg(t, x)

LEMMA ArgList ==
  ASSUME NEW t \in ListsAnd(Args), \A u \in Args : u.of # "list" /\ OneArgMeaning(u)
  PROVE  ArgMeaning(t)
<1>1. CASE t \in Args
  <2>1. t.of # "list" /\ OneArgMeaning(t)
    BY <1>1
  <2>2. ArgMatcher(t) = OneArgMatcher(t)
    BY <2>1 DEF ArgMatcher, ParseList
  <2> DEFINE m == OneArgMatcher(t)
             r == SimplifyOneArg(m)
  <2>3. /\ m.is # "list" /\ r.is # "list" /\ Canonical(r)
        /\ AlwaysTrue(r) <=> AnyArg(t)
        /\ AlwaysFalse(r) <=> NoArg(t)
        /\ SimplifyOneArg(r) = r
        /\ \A x : MatchesOneArg(r, x) <=> MeansOneArg(t, x)
    BY <2>1, Zenon DEF OneArgMeaning
  <2> HIDE DEF m
  <2>4. SimplifyArg(m) = r
    BY <2>3 DEF SimplifyArg, SimplifyList
  <2> HIDE DEF r
  <2>5. SimplifyArg(r) = r
    BY <2>3 DEF SimplifyArg, SimplifyList
  <2>6. \A x : MatchesArg(r, x) <=> MeansArg(t, x)
    BY <2>1, <2>3 DEF MatchesArg, MatchesList, MeansArg, MeansList
  <2>7. (AlwaysTrue(r) <=> AnyArgIn(t)) /\ (AlwaysFalse(r) <=> NoArgIn(t))
    BY <2>1, <2>3 DEF AnyArgIn, NoArgIn
  <2>8. QED
    BY <2>2, <2>3, <2>4, <2>5, <2>6, <2>7, Zenon DEF ArgMeaning, m
<1>2. CASE t \in ListsOf(Args)
  <2>1. t.of = "list" /\ t.pos \in Seq(Args) /\ t.pos # <<>> /\ t.neg \in Seq(Args)
    BY <1>2 DEF ListsOf
  <2> DEFINE F(u) == SimplifyOneArg(OneArgMatcher(u))
             E == {F(u) : u \in Args} \cup {Always(TRUE)}
             sp == [i \in DOMAIN t.pos |-> F(t.pos[i])]
             sn == [i \in DOMAIN t.neg |-> F(t.neg[i])]
             mp == [i \in DOMAIN t.pos |-> OneArgMatcher(t.pos[i])]
             mn == [i \in DOMAIN t.neg |-> OneArgMatcher(t.neg[i])]
             r == SimplerList(sp, sn)
  <2>2. \A u \in Args : OneArgMatcher(u).is # "list" /\ F(u).is # "list" /\ Canonical(F(u)) /\ SimplifyOneArg(F(u)) = F(u)
    BY Zenon DEF OneArgMeaning
  <2>3. \A u \in Args : (AlwaysTrue(F(u)) <=> AnyArg(u)) /\ (AlwaysFalse(F(u)) <=> NoArg(u))
    BY Zenon DEF OneArgMeaning
  <2>4. \A u \in Args : \A x : MatchesOneArg(F(u), x) <=> MeansOneArg(u, x)
    BY Zenon DEF OneArgMeaning
  <2>5. \A u \in Args : F(u) \in E
    OBVIOUS
  <2>6. \A e \in E : e.is # "list" /\ Canonical(e) /\ SimplifyOneArg(e) = e
    <3>1. SimplifyOneArg(Always(TRUE)) = Always(TRUE)
      BY AlwaysFacts DEF SimplifyOneArg
    <3>2. ASSUME NEW e \in E
          PROVE  e = Always(TRUE) \/ \E u \in Args : e = F(u)
      OBVIOUS
    <3> HIDE DEF F, E
    <3>3. QED
      BY <2>2, <3>1, <3>2, AlwaysFacts
  <2>7. Always(TRUE) \in E
    OBVIOUS
  <2> HIDE DEF F, E
  <2>8. /\ \A i \in DOMAIN t.pos : t.pos[i] \in Args
        /\ \A i \in DOMAIN t.neg : t.neg[i] \in Args
        /\ DOMAIN t.pos # {}
    BY <2>1, SequenceFacts
  <2>9. sp \in Seq(E) /\ DOMAIN sp = DOMAIN t.pos /\ \A i \in DOMAIN sp : sp[i] = F(t.pos[i])
    BY <2>1, <2>5, <2>8, MapType
  <2>10. sn \in Seq(E) /\ DOMAIN sn = DOMAIN t.neg /\ \A i \in DOMAIN sn : sn[i] = F(t.neg[i])
    BY <2>1, <2>5, <2>8, MapType
  <2>11. SimplifyArg(ArgMatcher(t)) = r
    <3> DEFINE G == {OneArgMatcher(u) : u \in Args}
    <3>1. mp \in Seq(G) /\ Len(mp) = Len(t.pos)
      BY <2>1, <2>8, MapType
    <3>2. mn \in Seq(G) /\ Len(mn) = Len(t.neg)
      BY <2>1, <2>8, MapType
    <3> HIDE DEF G
    <3>3. mp # <<>> /\ (mn = <<>> <=> t.neg = <<>>)
      BY <2>1, <3>1, <3>2, SequenceFacts
    <3>4. ArgMatcher(t) = ListOf(mp, mn)
      BY <2>1, Zenon DEF ArgMatcher, ParseList
    <3>5. /\ DOMAIN mp = DOMAIN t.pos /\ DOMAIN mn = DOMAIN t.neg
          /\ \A i \in DOMAIN t.pos : mp[i] = OneArgMatcher(t.pos[i])
          /\ \A i \in DOMAIN t.neg : mn[i] = OneArgMatcher(t.neg[i])
      OBVIOUS
    <3> HIDE DEF mp, mn
    <3>6. CASE /\ mn = <<>> /\ mp = <<mp[1]>> /\ DOMAIN mp = {1}
               /\ ListOf(mp, mn) = mp[1]
      <4>1. 1 \in DOMAIN t.pos /\ t.pos[1] \in Args /\ mp[1] = OneArgMatcher(t.pos[1])
        BY <2>8, <3>5, <3>6
      <4>2. SimplifyArg(mp[1]) = F(t.pos[1])
        BY <2>2, <4>1 DEF SimplifyArg, SimplifyList, F
      <4>3. sp = <<F(t.pos[1])>> /\ sn = <<>>
        <5>1. sp[1] = F(t.pos[1]) /\ DOMAIN sp = {1} /\ t.neg = <<>>
          BY <2>9, <3>3, <3>5, <3>6, <4>1
        <5>2. sn = <<>>
          BY <5>1
        <5> HIDE DEF sp
        <5>3. Len(sp) = 1
          BY <2>9, <5>1
        <5>4. QED
          BY <2>9, <5>1, <5>2, <5>3
      <4>4. SimplerList(<<F(t.pos[1])>>, <<>>) = F(t.pos[1])
        BY <2>2, <4>1, SingleList
      <4>5. QED
        BY <3>4, <3>6, <4>2, <4>3, <4>4, Zenon
    <3>7. CASE ListOf(mp, mn) = MatcherList(mp, mn)
      <4> DEFINE l == MatcherList(mp, mn)
      <4>1. l.is = "list" /\ l.positive = mp /\ l.negative = mn
        BY DEF MatcherList
      <4> HIDE DEF l
      <4>2. SimplifyArg(l) = SimplerList([i \in DOMAIN mp |-> SimplifyOneArg(mp[i])], [i \in DOMAIN mn |-> SimplifyOneArg(mn[i])])
        BY <4>1, Zenon DEF SimplifyArg, SimplifyList
      <4>3. [i \in DOMAIN mp |-> SimplifyOneArg(mp[i])] = sp
        BY <3>5 DEF F
      <4>4. [i \in DOMAIN mn |-> SimplifyOneArg(mn[i])] = sn
        BY <3>5 DEF F
      <4>5. QED
        BY <3>4, <3>7, <4>2, <4>3, <4>4, Zenon DEF l
    <3>8. QED
      BY <3>1, <3>3, <3>6, <3>7, ListOfCases
  <2> HIDE DEF sp, sn, mp, mn
  <2>12. /\ Canonical(r)
         /\ AlwaysTrue(r) <=> SomeTrue(sp) /\ AllFalse(sn)
         /\ AlwaysFalse(r) <=> SomeTrue(sn) \/ AllFalse(sp)
         /\ r = Always(FALSE) \/ r \in E \/ (r.is = "list" /\ SimpleList(r, E))
         /\ \A A : Always(TRUE) \in A /\ Always(FALSE) \notin A =>
              \/ r = Always(FALSE) /\ ~Accepts(sp, sn, A)
              \/ r \in E /\ (Accepts(sp, sn, A) <=> r \in A)
              \/ r.is = "list" /\ (Accepts(sp, sn, A) <=> Accepts(r.positive, r.negative, A))
    BY <2>6, <2>7, <2>9, <2>10, SimplerListFacts
  <2> HIDE DEF r
  <2>13. /\ SomeTrue(sp) <=> \E i \in DOMAIN t.pos : AnyArg(t.pos[i])
         /\ AllFalse(sp) <=> \A i \in DOMAIN t.pos : NoArg(t.pos[i])
    BY <2>3, <2>8, <2>9 DEF SomeTrue, AllFalse
  <2>14. /\ SomeTrue(sn) <=> \E i \in DOMAIN t.neg : AnyArg(t.neg[i])
         /\ AllFalse(sn) <=> \A i \in DOMAIN t.neg : NoArg(t.neg[i])
    BY <2>3, <2>8, <2>10 DEF SomeTrue, AllFalse
  <2>15. (AlwaysTrue(r) <=> AnyArgIn(t)) /\ (AlwaysFalse(r) <=> NoArgIn(t))
    <3>1. t.neg = <<>> <=> DOMAIN t.neg = {}
      BY <2>1, SequenceFacts
    <3>2. QED
      BY <2>1, <2>8, <2>12, <2>13, <2>14, <3>1 DEF AnyArgIn, NoArgIn
  <2>16. SimplifyArg(r) = r
    <3>1. CASE r.is # "list"
      <4>1. r = Always(FALSE) \/ r \in E
        BY <2>12, <3>1
      <4>2. SimplifyOneArg(Always(FALSE)) = Always(FALSE)
        BY AlwaysFacts DEF SimplifyOneArg
      <4>3. QED
        BY <2>6, <3>1, <4>1, <4>2 DEF SimplifyArg, SimplifyList
    <3>2. CASE r.is = "list"
      <4>1. SimpleList(r, E)
        BY <2>6, <2>12, <3>2, AlwaysFacts
      <4> DEFINE p == r.positive
                 n == r.negative
      <4>2. p \in Seq(E) /\ n \in Seq(E) /\ SimplerList(p, n) = r
        BY <4>1 DEF SimpleList
      <4>3. SimplifyArg(r) = SimplerList([i \in DOMAIN p |-> SimplifyOneArg(p[i])], [i \in DOMAIN n |-> SimplifyOneArg(n[i])])
        BY <3>2, Zenon DEF SimplifyArg, SimplifyList
      <4> HIDE DEF p, n
      <4>4. [i \in DOMAIN p |-> SimplifyOneArg(p[i])] = p
        BY <2>6, <4>2
      <4>5. [i \in DOMAIN n |-> SimplifyOneArg(n[i])] = n
        BY <2>6, <4>2
      <4>6. QED
        BY <4>2, <4>3, <4>4, <4>5, Zenon
    <3>3. QED
      BY <3>1, <3>2
  <2>17. ASSUME NEW x
         PROVE  MatchesArg(r, x) <=> MeansArg(t, x)
    <3> DEFINE A == {e \in E \cup {Always(TRUE)} : MatchesOneArg(e, x)}
    <3>1. MatchesOneArg(Always(TRUE), x) /\ ~MatchesOneArg(Always(FALSE), x)
      BY AlwaysFacts DEF MatchesOneArg
    <3>2. Always(TRUE) \in A /\ Always(FALSE) \notin A
      BY <3>1
    <3>3. \A e \in E : e \in A <=> MatchesOneArg(e, x)
      OBVIOUS
    <3> HIDE DEF A
    <3>4. Accepts(sp, sn, A) <=> MeansArg(t, x)
      <4>1. MeansArg(t, x) <=> /\ \E i \in DOMAIN t.pos : MeansOneArg(t.pos[i], x)
                          /\ \A i \in DOMAIN t.neg : ~MeansOneArg(t.neg[i], x)
        BY <2>1 DEF MeansArg, MeansList
      <4>2. \A i \in DOMAIN t.pos : sp[i] \in A <=> MeansOneArg(t.pos[i], x)
        BY <2>4, <2>5, <2>8, <2>9, <3>3
      <4>3. \A i \in DOMAIN t.neg : sn[i] \in A <=> MeansOneArg(t.neg[i], x)
        BY <2>4, <2>5, <2>8, <2>10, <3>3
      <4>4. QED
        BY <2>9, <2>10, <4>1, <4>2, <4>3 DEF Accepts
    <3>5. CASE r = Always(FALSE) /\ ~Accepts(sp, sn, A)
      <4>1. ~MatchesArg(r, x)
        BY <3>1, <3>5, AlwaysFacts DEF MatchesArg, MatchesList
      <4>2. QED
        BY <3>4, <3>5, <4>1
    <3>6. CASE r \in E /\ (Accepts(sp, sn, A) <=> r \in A)
      <4>1. MatchesArg(r, x) <=> MatchesOneArg(r, x)
        BY <2>6, <3>6 DEF MatchesArg, MatchesList
      <4>2. QED
        BY <3>3, <3>4, <3>6, <4>1
    <3>7. CASE r.is = "list" /\ (Accepts(sp, sn, A) <=> Accepts(r.positive, r.negative, A))
      <4> DEFINE p == r.positive
                 n == r.negative
      <4>1. SimpleList(r, E)
        BY <2>6, <2>12, <3>7, AlwaysFacts
      <4>2. p \in Seq(E) /\ n \in Seq(E)
        BY <4>1 DEF SimpleList
      <4>3. MatchesArg(r, x) <=> /\ \E i \in DOMAIN p : MatchesOneArg(p[i], x)
                          /\ \A i \in DOMAIN n : ~MatchesOneArg(n[i], x)
        BY <3>7, Zenon DEF MatchesArg, MatchesList
      <4> HIDE DEF p, n
      <4>4. /\ \A i \in DOMAIN p : p[i] \in A <=> MatchesOneArg(p[i], x)
            /\ \A i \in DOMAIN n : n[i] \in A <=> MatchesOneArg(n[i], x)
        BY <3>3, <4>2
      <4>5. QED
        BY <3>4, <3>7, <4>3, <4>4 DEF Accepts, p, n
    <3>8. QED
      BY <2>12, <3>2, <3>5, <3>6, <3>7, Zenon
  <2>18. QED
    BY <2>11, <2>12, <2>15, <2>16, <2>17, Zenon DEF ArgMeaning
<1>3. QED
  BY <1>1, <1>2 DEF ListsAnd

LEMMA PairFacts ==
  ASSUME NEW a, NEW b, Canonical(a), Canonical(b)
  PROVE  LET p == SimplerPair(a, b)
         IN \/ AlwaysTrue(a) /\ AlwaysTrue(b) /\ p = Always(TRUE)
            \/ AlwaysFalse(a) /\ AlwaysFalse(b) /\ p = Always(FALSE)
            \/ /\ ~(AlwaysTrue(a) /\ AlwaysTrue(b)) /\ ~(AlwaysFalse(a) /\ AlwaysFalse(b))
               /\ p = PairMatcher(a, b)
<1>1. CASE IsAlways(a) /\ IsAlways(b)
  <2>1. (a = Always(TRUE) \/ a = Always(FALSE)) /\ (b = Always(TRUE) \/ b = Always(FALSE))
    BY <1>1 DEF Canonical
  <2>2. QED
    BY <1>1, <2>1, AlwaysFacts DEF SimplerPair
<1>2. CASE ~(IsAlways(a) /\ IsAlways(b))
  BY <1>2 DEF SimplerPair, AlwaysTrue, AlwaysFalse
<1>3. QED
  BY <1>1, <1>2

(* Arguments, and lists of them.                                              *)
LEMMA ArgLeaf ==
  ASSUME NEW u \in Args
  PROVE  u.of # "list" /\ OneArgMeaning(u)
<1>1. u.of = "arg" /\ u.name \in ListsAnd(Words) /\ u.value \in ListsAnd(Values)
  BY DEF Args
<1> DEFINE n == SimplifyText(TextMatcher(u.name))
           v == SimplifyValue(ArgValueMatcher(u.value))
           m == OneArgMatcher(u)
           r == SimplifyOneArg(m)
<1>2. /\ Canonical(n) /\ (AlwaysTrue(n) <=> AnyIn(u.name)) /\ (AlwaysFalse(n) <=> NoneIn(u.name))
      /\ SimplifyText(n) = n /\ \A x : MatchesText(n, x) <=> MeansText(u.name, x)
  BY <1>1, TextFacts, Zenon DEF TextMeaning
<1>3. /\ Canonical(v) /\ (AlwaysTrue(v) <=> AnyIn(u.value)) /\ (AlwaysFalse(v) <=> NoneIn(u.value))
      /\ SimplifyValue(v) = v /\ \A x : MatchesValue(v, x) <=> MeansValue(u.value, x)
  BY <1>1, ValueFacts, Zenon DEF ValueMeaning
<1>4. m.is = "arg" /\ r = SimplerWrap("arg", SimplerPair(n, v))
  <2> DEFINE a == TextMatcher(u.name)
             b == ArgValueMatcher(u.value)
  <2>1. m = Wrap("arg", PairMatcher(a, b))
    BY Zenon DEF OneArgMatcher
  <2> HIDE DEF m, a, b
  <2>2. m.is = "arg" /\ m.wrapped = PairMatcher(a, b)
    BY <2>1, ClassFacts, Zenon
  <2>3. m.wrapped.a = a /\ m.wrapped.b = b
    BY <2>2, ClassFacts
  <2>4. QED
    BY <2>2, <2>3 DEF SimplifyOneArg, IsAlways, a, b
<1>5. \A x : MeansOneArg(u, x) <=> MatchesText(n, x.name) /\ MatchesValue(v, x)
  BY <1>2, <1>3 DEF MeansOneArg
<1> HIDE DEF n, v, m, r
<1>6. \A x : /\ MatchesText(Always(TRUE), x) /\ ~MatchesText(Always(FALSE), x)
             /\ MatchesValue(Always(TRUE), x) /\ ~MatchesValue(Always(FALSE), x)
             /\ MatchesOneArg(Always(TRUE), x) /\ ~MatchesOneArg(Always(FALSE), x)
  <2>1. \A x : MatchesText(Always(TRUE), x) /\ ~MatchesText(Always(FALSE), x)
    BY AlwaysFacts DEF MatchesText, MatchesList, MatchesLeaf
  <2>2. \A x : MatchesValue(Always(TRUE), x) /\ ~MatchesValue(Always(FALSE), x)
    BY AlwaysFacts DEF MatchesValue, MatchesList, MatchesOneValue
  <2>3. \A x : MatchesOneArg(Always(TRUE), x) /\ ~MatchesOneArg(Always(FALSE), x)
    BY AlwaysFacts DEF MatchesOneArg
  <2>4. QED
    BY <2>1, <2>2, <2>3, Zenon
<1>7. CASE AlwaysTrue(n) /\ AlwaysTrue(v) /\ SimplerPair(n, v) = Always(TRUE)
  <2>1. r = Always(TRUE) /\ n = Always(TRUE) /\ v = Always(TRUE)
    BY <1>2, <1>3, <1>4, <1>7, AlwaysFacts, CanonicalFacts DEF SimplerWrap
  <2>2. SimplifyOneArg(r) = r
    BY <2>1, AlwaysFacts DEF SimplifyOneArg
  <2>3. AnyArg(u) /\ ~NoArg(u)
    BY <1>2, <1>3, <1>7, CanonicalFacts DEF AnyArg, NoArg
  <2>4. \A x : MatchesOneArg(r, x) <=> MeansOneArg(u, x)
    BY <1>5, <1>6, <2>1
  <2>5. QED
    BY <1>1, <1>4, <2>1, <2>2, <2>3, <2>4, AlwaysFacts DEF OneArgMeaning, m, r
<1>8. CASE AlwaysFalse(n) /\ AlwaysFalse(v) /\ SimplerPair(n, v) = Always(FALSE)
  <2>1. r = Always(FALSE) /\ n = Always(FALSE) /\ v = Always(FALSE)
    BY <1>2, <1>3, <1>4, <1>8, AlwaysFacts, CanonicalFacts DEF SimplerWrap
  <2>2. SimplifyOneArg(r) = r
    BY <2>1, AlwaysFacts DEF SimplifyOneArg
  <2>3. ~AnyArg(u) /\ NoArg(u)
    BY <1>2, <1>3, <1>8, CanonicalFacts DEF AnyArg, NoArg
  <2>4. \A x : MatchesOneArg(r, x) <=> MeansOneArg(u, x)
    BY <1>5, <1>6, <2>1
  <2>5. QED
    BY <1>1, <1>4, <2>1, <2>2, <2>3, <2>4, AlwaysFacts DEF OneArgMeaning, m, r
<1>9. CASE /\ ~(AlwaysTrue(n) /\ AlwaysTrue(v)) /\ ~(AlwaysFalse(n) /\ AlwaysFalse(v))
           /\ SimplerPair(n, v) = PairMatcher(n, v)
  <2>1. r = Wrap("arg", PairMatcher(n, v))
    BY <1>4, <1>9, ClassFacts DEF SimplerWrap
  <2>2. r.is = "arg" /\ r.wrapped = PairMatcher(n, v)
    BY <2>1, ClassFacts, Zenon
  <2>3. r.wrapped.a = n /\ r.wrapped.b = v /\ ~IsAlways(r)
    BY <2>2, ClassFacts DEF IsAlways
  <2>4. SimplifyOneArg(r) = r
    BY <1>2, <1>3, <1>4, <2>3 DEF SimplifyOneArg
  <2>5. ~AnyArg(u) /\ ~NoArg(u)
    BY <1>2, <1>3, <1>9 DEF AnyArg, NoArg
  <2>6. \A x : MatchesOneArg(r, x) <=> MeansOneArg(u, x)
    BY <1>5, <2>3 DEF MatchesOneArg
  <2>7. QED
    BY <1>1, <1>4, <2>2, <2>3, <2>4, <2>5, <2>6
       DEF OneArgMeaning, Canonical, AlwaysTrue, AlwaysFalse, m, r
<1>10. QED
  BY <1>2, <1>3, <1>7, <1>8, <1>9, PairFacts

LEMMA ArgFacts ==
  ASSUME NEW t \in ListsAnd(Args)
  PROVE  ArgMeaning(t)
BY ArgLeaf, ArgList

(* Lists of arguments.                                                        *)
ArgsMeaning(t) ==
  LET r == SimplifyArgs(ArgsMatcher(t))
  IN /\ Canonical(r)
     /\ AlwaysTrue(r) <=> AnyArgs(t)
     /\ AlwaysFalse(r) <=> NoArgs(t)
     /\ SimplifyArgs(r) = r
     /\ \A x : MatchesArgs(r, x) <=> MeansArgs(t, x)

LEMMA ArgsFacts ==
  ASSUME NEW t \in ArgsLists,
         t.of = "args" => /\ t.pos = <<>> \/ ~AnyArgs(t)
                          /\ \A i \in DOMAIN t.neg : ~AnyArgIn(t.neg[i])
  PROVE  ArgsMeaning(t)
<1> DEFINE m == ArgsMatcher(t)
           r == SimplifyArgs(m)
<1>1. CASE t.of = "empty"
  <2>1. m = Always(TRUE)
    BY <1>1 DEF ArgsMatcher
  <2>2. \A x : MeansArgs(t, x)
    BY <1>1 DEF MeansArgs
  <2>3. QED
    BY <1>1, <2>1, <2>2, AlwaysFacts DEF ArgsMeaning, SimplifyArgs, MatchesArgs, AnyArgs, NoArgs
<1>2. CASE t.of = "bang"
  <2>1. m = Always(FALSE)
    BY <1>2 DEF ArgsMatcher
  <2>2. \A x : ~MeansArgs(t, x)
    BY <1>2 DEF MeansArgs
  <2>3. QED
    BY <1>2, <2>1, <2>2, AlwaysFacts DEF ArgsMeaning, SimplifyArgs, MatchesArgs, AnyArgs, NoArgs
<1>3. CASE t.of = "args"
  <2> DEFINE F(u) == SimplifyArg(ArgMatcher(u))
             T == ListsAnd(Args)
             E == {F(u) : u \in T}
             sp == [i \in DOMAIN t.pos |-> F(t.pos[i])]
             sn == [i \in DOMAIN t.neg |-> F(t.neg[i])]
             neg == NotNever(sn)
  <2>1. t.pos \in Seq(T) /\ t.neg \in Seq(T)
    BY <1>3 DEF ArgsLists, Empty, Bang
  <2>2. /\ \A u \in T : Canonical(F(u)) /\ SimplifyArg(F(u)) = F(u)
        /\ \A u \in T : (AlwaysTrue(F(u)) <=> AnyArgIn(u)) /\ (AlwaysFalse(F(u)) <=> NoArgIn(u))
        /\ \A u \in T : \A x : MatchesArg(F(u), x) <=> MeansArg(u, x)
    BY ArgFacts, Zenon DEF ArgMeaning
  <2>3. \A u \in T : F(u) \in E
    OBVIOUS
  <2>4. \A e \in E : Canonical(e) /\ SimplifyArg(e) = e
    <3>1. \A e \in E : \E u \in T : e = F(u)
      OBVIOUS
    <3> HIDE DEF F, E, T
    <3>2. QED
      BY <2>2, <3>1
  <2> HIDE DEF F, E, T
  <2>5. (\A i \in DOMAIN t.pos : t.pos[i] \in T) /\ (\A i \in DOMAIN t.neg : t.neg[i] \in T)
    BY <2>1, SequenceFacts
  <2>6. sp \in Seq(E) /\ DOMAIN sp = DOMAIN t.pos /\ \A i \in DOMAIN sp : sp[i] = F(t.pos[i])
    BY <2>1, <2>3, <2>5, MapType
  <2>7. sn \in Seq(E) /\ DOMAIN sn = DOMAIN t.neg /\ \A i \in DOMAIN sn : sn[i] = F(t.neg[i])
    BY <2>1, <2>3, <2>5, MapType
  <2>8. r = SimplerArgs(sp, sn)
    <3> DEFINE mp == [i \in DOMAIN t.pos |-> ArgMatcher(t.pos[i])]
               mn == [i \in DOMAIN t.neg |-> ArgMatcher(t.neg[i])]
               l == ArgsMatcherList(mp, mn)
    <3>1. m = l
      BY <1>3 DEF ArgsMatcher
    <3>2. l.is = "args" /\ l.positive = mp /\ l.negative = mn
      BY DEF ArgsMatcherList
    <3> HIDE DEF l, m
    <3>3. SimplifyArgs(l) = SimplerArgs([i \in DOMAIN mp |-> SimplifyArg(mp[i])],
                                        [i \in DOMAIN mn |-> SimplifyArg(mn[i])])
      BY <3>2 DEF SimplifyArgs, IsAlways
    <3>4. [i \in DOMAIN mp |-> SimplifyArg(mp[i])] = sp /\ [i \in DOMAIN mn |-> SimplifyArg(mn[i])] = sn
      BY DEF F
    <3>5. QED
      BY <3>1, <3>3, <3>4, Zenon
  <2> HIDE DEF sp, sn, m, r
  <2>9. /\ neg \in Seq(E)
        /\ SomeTrue(neg) => SomeTrue(sn)
        /\ neg = <<>> <=> AllFalse(sn)
        /\ NotNever(neg) = neg
        /\ \A A : Always(FALSE) \notin A =>
             ((\E i \in DOMAIN sn : sn[i] \in A) <=> \E i \in DOMAIN neg : neg[i] \in A)
    BY <2>4, <2>7, SimplerNegativeFacts
  <2>10. /\ ~SomeTrue(sn)
         /\ AllFalse(sn) <=> \A i \in DOMAIN t.neg : NoArgIn(t.neg[i])
    BY <1>3, <2>2, <2>5, <2>7 DEF SomeTrue, AllFalse
  <2>11. /\ AllFalse(sp) <=> \A i \in DOMAIN t.pos : NoArgIn(t.pos[i])
         /\ (\E i \in DOMAIN sp : AlwaysFalse(sp[i])) <=> NoArgs(t)
         /\ (\A i \in DOMAIN sp : AlwaysTrue(sp[i])) <=> \A i \in DOMAIN t.pos : AnyArgIn(t.pos[i])
    BY <1>3, <2>2, <2>5, <2>6 DEF AllFalse, NoArgs
  <2>12. AnyArgs(t) <=> neg = <<>> /\ \A i \in DOMAIN sp : AlwaysTrue(sp[i])
    BY <1>3, <2>9, <2>10, <2>11 DEF AnyArgs
  <2> DEFINE Simpler(n) == IF SomeTrue(n) \/ \E i \in DOMAIN sp : AlwaysFalse(sp[i]) THEN Always(FALSE)
                           ELSE IF neg = <<>> /\ \A i \in DOMAIN sp : AlwaysTrue(sp[i])
                                THEN Always(TRUE) ELSE ArgsMatcherList(sp, neg)
  <2>13. r = Simpler(sn) /\ SimplerArgs(sp, neg) = Simpler(neg)
    <3>1. SimplerArgs(sp, sn) = Simpler(sn)
      BY Zenon DEF SimplerArgs, SomeTrue
    <3>2. SimplerArgs(sp, neg) =
            IF SomeTrue(neg) \/ \E i \in DOMAIN sp : AlwaysFalse(sp[i]) THEN Always(FALSE)
            ELSE IF NotNever(neg) = <<>> /\ \A i \in DOMAIN sp : AlwaysTrue(sp[i])
                 THEN Always(TRUE) ELSE ArgsMatcherList(sp, NotNever(neg))
      <4> HIDE DEF neg
      <4>1. QED
        BY Zenon DEF SimplerArgs, SomeTrue
    <3> HIDE DEF neg
    <3>3. QED
      BY <2>8, <2>9, <3>1, <3>2, Zenon
  <2> HIDE DEF neg
  <2>14. ~SomeTrue(neg)
    BY <2>9, <2>10
  <2>15. \A x : MeansArgs(t, x) <=>
                  /\ \A i \in DOMAIN sp : \E j \in DOMAIN x : MatchesArg(sp[i], x[j])
                  /\ \A j \in DOMAIN x : ~\E i \in DOMAIN sn : MatchesArg(sn[i], x[j])
    BY <1>3, <2>2, <2>5, <2>6, <2>7 DEF MeansArgs
  <2>16. \A y : ~MatchesArg(Always(FALSE), y)
    BY AlwaysFacts DEF MatchesArg, MatchesList, MatchesOneArg
  <2>17. ASSUME NEW y
         PROVE  (\E i \in DOMAIN sn : MatchesArg(sn[i], y)) <=> \E i \in DOMAIN neg : MatchesArg(neg[i], y)
    <3> DEFINE A == {e \in E : MatchesArg(e, y)}
    <3>1. Always(FALSE) \notin A
      BY <2>16
    <3>2. (\A i \in DOMAIN sn : sn[i] \in E) /\ (\A i \in DOMAIN neg : neg[i] \in E)
      BY <2>7, <2>9, SequenceFacts
    <3>3. \A e \in E : e \in A <=> MatchesArg(e, y)
      OBVIOUS
    <3> HIDE DEF A
    <3>4. (\E i \in DOMAIN sn : sn[i] \in A) <=> \E i \in DOMAIN neg : neg[i] \in A
      BY <2>9, <3>1
    <3>5. QED
      BY <3>2, <3>3, <3>4
  <2>18. CASE \E i \in DOMAIN sp : AlwaysFalse(sp[i])
    <3>1. r = Always(FALSE)
      BY <2>13, <2>18
    <3>2. NoArgs(t) /\ ~AnyArgs(t)
      BY <2>11, <2>12, <2>18 DEF AlwaysTrue, AlwaysFalse
    <3>3. \A x : ~MeansArgs(t, x)
      <4>1. PICK i \in DOMAIN sp : AlwaysFalse(sp[i])
        BY <2>18
      <4>2. sp[i] = Always(FALSE)
        <5>1. Canonical(sp[i])
          BY <2>2, <2>5, <2>6
        <5>2. QED
          BY <4>1, <5>1, CanonicalFacts, Zenon
      <4>3. QED
        BY <2>15, <2>16, <4>2
    <3>4. QED
      BY <3>1, <3>2, <3>3, AlwaysFacts DEF ArgsMeaning, SimplifyArgs, MatchesArgs, m, r
  <2>19. CASE /\ ~\E i \in DOMAIN sp : AlwaysFalse(sp[i])
              /\ neg = <<>> /\ \A i \in DOMAIN sp : AlwaysTrue(sp[i])
    <3>1. r = Always(TRUE)
      BY <2>10, <2>13, <2>19
    <3>2. AnyArgs(t) /\ ~NoArgs(t) /\ t.pos = <<>>
      BY <1>3, <2>11, <2>12, <2>19
    <3>3. \A x : MeansArgs(t, x)
      <4>1. DOMAIN sp = {} /\ DOMAIN neg = {}
        BY <2>1, <2>6, <2>9, <2>19, <3>2, SequenceFacts
      <4>2. QED
        BY <2>15, <2>17, <4>1
    <3>4. QED
      BY <3>1, <3>2, <3>3, AlwaysFacts DEF ArgsMeaning, SimplifyArgs, MatchesArgs, m, r
  <2>20. CASE /\ ~\E i \in DOMAIN sp : AlwaysFalse(sp[i])
              /\ ~(neg = <<>> /\ \A i \in DOMAIN sp : AlwaysTrue(sp[i]))
    <3>1. r = ArgsMatcherList(sp, neg) /\ SimplerArgs(sp, neg) = r
      BY <2>10, <2>13, <2>14, <2>20
    <3>2. r.is = "args" /\ r.positive = sp /\ r.negative = neg
      BY <3>1 DEF ArgsMatcherList
    <3>3. ~AnyArgs(t) /\ ~NoArgs(t)
      BY <2>11, <2>12, <2>20
    <3>4. SimplifyArgs(r) = r
      <4>1. SimplifyArgs(r) = SimplerArgs([i \in DOMAIN sp |-> SimplifyArg(sp[i])],
                                          [i \in DOMAIN neg |-> SimplifyArg(neg[i])])
        BY <3>2 DEF SimplifyArgs, IsAlways
      <4>2. [i \in DOMAIN sp |-> SimplifyArg(sp[i])] = sp
        BY <2>4, <2>6
      <4>3. [i \in DOMAIN neg |-> SimplifyArg(neg[i])] = neg
        BY <2>4, <2>9
      <4>4. QED
        BY <3>1, <4>1, <4>2, <4>3, Zenon
    <3>5. ASSUME NEW x
          PROVE  MatchesArgs(r, x) <=> MeansArgs(t, x)
      <4>1. MatchesArgs(r, x) <=>
              /\ \A i \in DOMAIN sp : \E j \in DOMAIN x : MatchesArg(sp[i], x[j])
              /\ \A i \in DOMAIN neg : \A j \in DOMAIN x : ~MatchesArg(neg[i], x[j])
        BY <3>2 DEF MatchesArgs, IsAlways
      <4>2. QED
        BY <2>15, <2>17, <4>1
    <3>6. QED
      BY <3>2, <3>3, <3>4, <3>5
         DEF ArgsMeaning, Canonical, AlwaysTrue, AlwaysFalse, IsAlways, m, r
  <2>21. QED
    BY <2>18, <2>19, <2>20
<1>4. QED
  BY <1>1, <1>2, <1>3 DEF ArgsLists, Empty, Bang

(* What the matchers of a pattern match before they are simplified: the names *)
(* new and destroyed, and no arguments.                                       *)
LEMMA PlainText ==
  ASSUME NEW t \in ListsAnd(Words), NEW s
  PROVE  MatchesText(TextMatcher(t), s) <=> MeansText(t, s)
<1>1. \A u \in Words : u.of # "list" /\ WordMatcher(u).is # "list"
                       /\ (MatchesLeaf(WordMatcher(u), s) <=> MeansWord(u, s))
  <2>1. \A u \in Words : u.of # "list" /\ OneTextMeaning(u)
    BY WordLeaf
  <2>2. QED
    BY <2>1 DEF OneTextMeaning, SimplifyLeaf
<1>2. CASE t \in Words
  <2>1. t.of # "list" /\ TextMatcher(t) = WordMatcher(t)
    BY <1>1, <1>2 DEF TextMatcher, ParseList
  <2>2. QED
    BY <1>1, <1>2, <2>1 DEF MatchesText, MatchesList, MeansText, MeansList
<1>3. CASE t \in ListsOf(Words)
  <2>1. t.of = "list" /\ t.pos \in Seq(Words) /\ t.pos # <<>> /\ t.neg \in Seq(Words)
    BY <1>3 DEF ListsOf
  <2>2. (\A i \in DOMAIN t.pos : t.pos[i] \in Words) /\ (\A i \in DOMAIN t.neg : t.neg[i] \in Words)
    BY <2>1, SequenceFacts
  <2> DEFINE mp == [i \in DOMAIN t.pos |-> WordMatcher(t.pos[i])]
             mn == [i \in DOMAIN t.neg |-> WordMatcher(t.neg[i])]
             G == {WordMatcher(u) : u \in Words}
  <2>3. mp \in Seq(G) /\ Len(mp) = Len(t.pos) /\ mn \in Seq(G)
    BY <2>1, <2>2, MapType
  <2>4. TextMatcher(t) = ListOf(mp, mn)
    BY <2>1, Zenon DEF TextMatcher, ParseList
  <2>5. /\ DOMAIN mp = DOMAIN t.pos /\ DOMAIN mn = DOMAIN t.neg
        /\ \A i \in DOMAIN t.pos : mp[i] = WordMatcher(t.pos[i])
        /\ \A i \in DOMAIN t.neg : mn[i] = WordMatcher(t.neg[i])
    OBVIOUS
  <2> HIDE DEF mp, mn, G
  <2>6. MeansText(t, s) <=> /\ \E i \in DOMAIN mp : MatchesLeaf(mp[i], s)
                            /\ \A i \in DOMAIN mn : ~MatchesLeaf(mn[i], s)
    BY <1>1, <2>1, <2>2, <2>5 DEF MeansText, MeansList
  <2>7. mp # <<>>
    BY <2>1, <2>3, SequenceFacts
  <2>8. CASE mn = <<>> /\ mp = <<mp[1]>> /\ DOMAIN mp = {1} /\ ListOf(mp, mn) = mp[1]
    <3>1. DOMAIN mn = {} /\ mp[1].is # "list"
      BY <1>1, <2>2, <2>3, <2>5, <2>8, SequenceFacts
    <3>2. QED
      BY <2>4, <2>6, <2>8, <3>1 DEF MatchesText, MatchesList
  <2>9. CASE ListOf(mp, mn) = MatcherList(mp, mn)
    <3> DEFINE l == MatcherList(mp, mn)
    <3>1. l.is = "list" /\ l.positive = mp /\ l.negative = mn
      BY DEF MatcherList
    <3> HIDE DEF l
    <3>2. MatchesText(l, s) <=> /\ \E i \in DOMAIN mp : MatchesLeaf(mp[i], s)
                                /\ \A i \in DOMAIN mn : ~MatchesLeaf(mn[i], s)
      BY <3>1, Zenon DEF MatchesText, MatchesList
    <3>3. QED
      BY <2>4, <2>6, <2>9, <3>2 DEF l
  <2>10. QED
    BY <2>3, <2>7, <2>8, <2>9, ListOfCases
<1>4. QED
  BY <1>2, <1>3 DEF ListsAnd

LEMMA PlainArgs ==
  ASSUME NEW t \in ArgsLists
  PROVE  MatchesArgs(ArgsMatcher(t), <<>>) <=> MeansArgs(t, <<>>)
<1> DEFINE m == ArgsMatcher(t)
           none == <<>>
<1>1. DOMAIN none = {}
  OBVIOUS
<1> HIDE DEF none
<1>2. CASE t.of = "empty"
  <2>1. m = Always(TRUE)
    BY <1>2 DEF ArgsMatcher
  <2>2. QED
    BY <1>2, <2>1, AlwaysFacts DEF MatchesArgs, MeansArgs
<1>3. CASE t.of = "bang"
  <2>1. m = Always(FALSE)
    BY <1>3 DEF ArgsMatcher
  <2>2. QED
    BY <1>3, <2>1, AlwaysFacts DEF MatchesArgs, MeansArgs
<1>4. CASE t.of = "args"
  <2> DEFINE mp == [i \in DOMAIN t.pos |-> ArgMatcher(t.pos[i])]
             mn == [i \in DOMAIN t.neg |-> ArgMatcher(t.neg[i])]
  <2>1. m = ArgsMatcherList(mp, mn)
    BY <1>4 DEF ArgsMatcher
  <2> HIDE DEF m
  <2>2. m.is = "args" /\ m.positive = mp /\ m.negative = mn
    BY <2>1 DEF ArgsMatcherList
  <2>3. DOMAIN mp = DOMAIN t.pos
    OBVIOUS
  <2> HIDE DEF mp, mn
  <2>4. MatchesArgs(m, none) <=> DOMAIN mp = {}
    BY <1>1, <2>2 DEF MatchesArgs, IsAlways
  <2>5. MeansArgs(t, none) <=> DOMAIN t.pos = {}
    BY <1>1, <1>4 DEF MeansArgs
  <2>6. QED
    BY <2>3, <2>4, <2>5 DEF m, none
<1>5. QED
  BY <1>2, <1>3, <1>4 DEF ArgsLists, Empty, Bang

(* The connection of a pattern.                                               *)
LEMMA ConnFacts ==
  ASSUME NEW t \in ListsAnd(Words)
  PROVE  LET c == SimplifyConn(Wrap("conn", TextMatcher(t)))
         IN /\ Canonical(c)
            /\ AlwaysTrue(c) <=> AnyIn(t)
            /\ AlwaysFalse(c) <=> NoneIn(t)
            /\ SimplifyConn(c) = c
            /\ \A x : MatchesConn(c, x) <=> MeansText(t, x)
<1> DEFINE w == TextMatcher(t)
           n == SimplifyText(w)
           m == Wrap("conn", w)
           c == SimplifyConn(m)
<1>1. /\ Canonical(n) /\ (AlwaysTrue(n) <=> AnyIn(t)) /\ (AlwaysFalse(n) <=> NoneIn(t))
      /\ SimplifyText(n) = n /\ \A x : MatchesText(n, x) <=> MeansText(t, x)
  BY TextFacts, Zenon DEF TextMeaning
<1>2. c = SimplerWrap("conn", n)
  <2> HIDE DEF w
  <2>1. m.is = "conn" /\ m.wrapped = w
    BY ClassFacts, Zenon
  <2> HIDE DEF m
  <2>2. QED
    BY <2>1 DEF SimplifyConn, IsAlways
<1> HIDE DEF n, m, c
<1>3. CASE IsAlways(n)
  <2>1. c = n /\ (n = Always(TRUE) \/ n = Always(FALSE))
    BY <1>1, <1>2, <1>3 DEF SimplerWrap, Canonical
  <2>2. \A x : MatchesText(Always(TRUE), x) /\ ~MatchesText(Always(FALSE), x)
    BY AlwaysFacts DEF MatchesText, MatchesList, MatchesLeaf
  <2>3. \A x : MatchesConn(c, x) <=> MatchesText(n, x)
    BY <2>1, <2>2, AlwaysFacts DEF MatchesConn
  <2>4. QED
    BY <1>1, <1>3, <2>1, <2>3 DEF SimplifyConn, c, m
<1>4. CASE ~IsAlways(n)
  <2>1. c = Wrap("conn", n)
    BY <1>2, <1>4 DEF SimplerWrap
  <2>2. c.is = "conn" /\ c.wrapped = n
    BY <2>1, ClassFacts, Zenon
  <2>3. SimplifyConn(c) = c /\ \A x : MatchesConn(c, x) <=> MatchesText(n, x)
    BY <1>1, <1>2, <2>2 DEF SimplifyConn, MatchesConn, IsAlways
  <2>4. QED
    BY <1>1, <1>4, <2>2, <2>3 DEF Canonical, AlwaysTrue, AlwaysFalse, IsAlways, c, m
<1>5. QED
  BY <1>3, <1>4

LEMMA PatternRecord ==
  ASSUME NEW conn, NEW obj, NEW name, NEW args
  PROVE  LET p == MessagePattern(conn, obj, name, args)
         IN /\ p.is = "pattern" /\ p.conn = conn /\ p.obj = obj /\ p.name = name /\ p.args = args
            /\ p.match_new <=> MatchesText(name, "new") /\ MatchesArgs(args, <<>>)
            /\ p.match_destroyed <=> MatchesText(name, "destroyed") /\ MatchesArgs(args, <<>>)
            /\ p = [is |-> "pattern", conn |-> p.conn, obj |-> p.obj, name |-> p.name,
                    args |-> p.args, match_new |-> p.match_new,
                    match_destroyed |-> p.match_destroyed]
BY DEF MessagePattern

(* A message pattern is as simple as its parts, and the names new and         *)
(* destroyed are matched as before.                                           *)
MatchesParts(c, o, n, a, p, x) ==
  /\ MatchesConn(c, x.conn)
  /\ \/ /\ p.match_new
        /\ \E j \in DOMAIN x.args :
             x.args[j].kind = "object" /\ x.args[j].new /\ MatchesObject(o, x.args[j].obj)
     \/ p.match_destroyed /\ \E j \in DOMAIN x.destroyed : MatchesObject(o, x.destroyed[j])
     \/ MatchesObject(o, x.obj) /\ MatchesText(n, x.name) /\ MatchesArgs(a, x.args)

LEMMA PatternSimplified ==
  ASSUME NEW conn, NEW obj, NEW name, NEW args,
         NEW c, c = SimplifyConn(conn), Canonical(c), SimplifyConn(c) = c,
         NEW o, o = SimplifyObject(obj), Canonical(o), SimplifyObject(o) = o,
         NEW n, n = SimplifyText(name), Canonical(n), SimplifyText(n) = n,
         NEW a, a = SimplifyArgs(args), Canonical(a), SimplifyArgs(a) = a,
         NEW p, p = MessagePattern(conn, obj, name, args),
         AlwaysFalse(n) \/ AlwaysFalse(a) => ~p.match_new /\ ~p.match_destroyed
  PROVE  LET r == SimplifyPattern(p)
         IN /\ p.is # "list" /\ ~IsAlways(p)
            /\ r.is # "list" /\ Canonical(r)
            /\ AlwaysTrue(r) <=> AlwaysTrue(c) /\ AlwaysTrue(o) /\ AlwaysTrue(n) /\ AlwaysTrue(a)
            /\ AlwaysFalse(r) <=> AlwaysFalse(c) \/ AlwaysFalse(o) \/ AlwaysFalse(n) \/ AlwaysFalse(a)
            /\ SimplifyPattern(r) = r
            /\ \A x : MatchesPattern(r, x) <=> MatchesParts(c, o, n, a, p, x)
<1> DEFINE r == SimplifyPattern(p)
           Q(s) == [s EXCEPT !.conn = c, !.obj = o, !.name = n, !.args = a]
           q == Q(p)
           some == AlwaysFalse(c) \/ AlwaysFalse(o) \/ AlwaysFalse(n) \/ AlwaysFalse(a)
           all == AlwaysTrue(c) /\ AlwaysTrue(o) /\ AlwaysTrue(n) /\ AlwaysTrue(a)
<1>1. /\ p.is = "pattern" /\ p.conn = conn /\ p.obj = obj /\ p.name = name /\ p.args = args
      /\ p = [is |-> "pattern", conn |-> p.conn, obj |-> p.obj, name |-> p.name,
              args |-> p.args, match_new |-> p.match_new, match_destroyed |-> p.match_destroyed]
  BY PatternRecord, Zenon
<1>2. p.is # "list" /\ ~IsAlways(p)
  BY <1>1 DEF IsAlways
<1>3. /\ q.is = "pattern" /\ q.conn = c /\ q.obj = o /\ q.name = n /\ q.args = a
      /\ q.match_new = p.match_new /\ q.match_destroyed = p.match_destroyed
      /\ Q(q) = q
  <2> DEFINE mn == p.match_new
             md == p.match_destroyed
             R(k, b, d, e) == [is |-> "pattern", conn |-> k, obj |-> b, name |-> d, args |-> e,
                               match_new |-> mn, match_destroyed |-> md]
  <2> HIDE DEF mn, md
  <2>1. p = R(conn, obj, name, args)
    BY <1>1 DEF mn, md
  <2>3. LET s == R(c, o, n, a)
        IN /\ s.is = "pattern" /\ s.conn = c /\ s.obj = o /\ s.name = n /\ s.args = a
           /\ s.match_new = mn /\ s.match_destroyed = md
    OBVIOUS
  <2> HIDE DEF R
  <2>4. ASSUME NEW s, NEW k, NEW b, NEW d, NEW e, s = R(k, b, d, e)
        PROVE  Q(s) = R(c, o, n, a)
    <3> DEFINE s1 == [s EXCEPT !.conn = c]
               s2 == [s1 EXCEPT !.obj = o]
               s3 == [s2 EXCEPT !.name = n]
               s4 == [s3 EXCEPT !.args = a]
    <3>1. s1 = R(c, b, d, e)
      BY <2>4 DEF R
    <3> HIDE DEF s1
    <3>2. s2 = R(c, o, d, e)
      BY <3>1 DEF R
    <3> HIDE DEF s2
    <3>3. s3 = R(c, o, n, e)
      BY <3>2 DEF R
    <3> HIDE DEF s3
    <3>4. s4 = R(c, o, n, a)
      BY <3>3 DEF R
    <3>5. QED
      BY <3>4, Zenon DEF s1, s2, s3, s4
  <2> HIDE DEF Q
  <2>5. q = R(c, o, n, a)
    BY <2>1, <2>4
  <2> HIDE DEF q
  <2>6. Q(q) = q
    BY <2>4, <2>5, Zenon
  <2>7. QED
    BY <2>3, <2>5, <2>6 DEF mn, md
<1>4. r = IF some THEN Always(FALSE) ELSE IF all THEN Always(TRUE) ELSE q
  <2> HIDE DEF q
  <2>1. SimplifyPattern(p) =
          LET conn_ == SimplifyConn(p.conn)
              obj_ == SimplifyObject(p.obj)
              name_ == SimplifyText(p.name)
              args_ == SimplifyArgs(p.args)
              parts == {conn_, obj_, name_, args_}
          IN IF \E part \in parts : AlwaysFalse(part) THEN Always(FALSE)
             ELSE IF \A part \in parts : AlwaysTrue(part) THEN Always(TRUE)
                  ELSE [p EXCEPT !.conn = conn_, !.obj = obj_, !.name = name_, !.args = args_]
    BY <1>2 DEF SimplifyPattern
  <2>2. SimplifyConn(p.conn) = c /\ SimplifyObject(p.obj) = o /\ SimplifyText(p.name) = n
        /\ SimplifyArgs(p.args) = a
    BY <1>1
  <2>3. QED
    BY <2>1, <2>2 DEF q
<1>5. ~some /\ ~all => SimplifyPattern(q) = q
  <2>1. ~IsAlways(q)
    BY <1>3 DEF IsAlways
  <2> HIDE DEF q
  <2>2. SimplifyPattern(q) =
          LET conn_ == SimplifyConn(q.conn)
              obj_ == SimplifyObject(q.obj)
              name_ == SimplifyText(q.name)
              args_ == SimplifyArgs(q.args)
              parts == {conn_, obj_, name_, args_}
          IN IF \E part \in parts : AlwaysFalse(part) THEN Always(FALSE)
             ELSE IF \A part \in parts : AlwaysTrue(part) THEN Always(TRUE)
                  ELSE [q EXCEPT !.conn = conn_, !.obj = obj_, !.name = name_, !.args = args_]
    BY <2>1 DEF SimplifyPattern
  <2>3. SimplifyConn(q.conn) = c /\ SimplifyObject(q.obj) = o /\ SimplifyText(q.name) = n
        /\ SimplifyArgs(q.args) = a
    BY <1>3
  <2>4. QED
    BY <1>3, <2>2, <2>3
<1>6. /\ \A x : MatchesConn(Always(TRUE), x) /\ ~MatchesConn(Always(FALSE), x)
      /\ \A x : MatchesObject(Always(TRUE), x) /\ ~MatchesObject(Always(FALSE), x)
      /\ \A x : MatchesText(Always(TRUE), x) /\ ~MatchesText(Always(FALSE), x)
      /\ \A x : MatchesArgs(Always(TRUE), x) /\ ~MatchesArgs(Always(FALSE), x)
      /\ \A x : MatchesPattern(Always(TRUE), x) /\ ~MatchesPattern(Always(FALSE), x)
  <2>1. \A x : MatchesConn(Always(TRUE), x) /\ ~MatchesConn(Always(FALSE), x)
    BY AlwaysFacts DEF MatchesConn
  <2>2. \A x : MatchesObject(Always(TRUE), x) /\ ~MatchesObject(Always(FALSE), x)
    BY AlwaysFacts DEF MatchesObject, MatchesList, MatchesOneObject
  <2>3. \A x : MatchesText(Always(TRUE), x) /\ ~MatchesText(Always(FALSE), x)
    BY AlwaysFacts DEF MatchesText, MatchesList, MatchesLeaf
  <2>4. \A x : MatchesArgs(Always(TRUE), x) /\ ~MatchesArgs(Always(FALSE), x)
    BY AlwaysFacts DEF MatchesArgs
  <2>5. \A x : MatchesPattern(Always(TRUE), x) /\ ~MatchesPattern(Always(FALSE), x)
    BY AlwaysFacts DEF MatchesPattern
  <2>6. QED
    BY <2>1, <2>2, <2>3, <2>4, <2>5, Zenon
<1>7. SimplifyPattern(Always(TRUE)) = Always(TRUE) /\ SimplifyPattern(Always(FALSE)) = Always(FALSE)
  BY AlwaysFacts DEF SimplifyPattern
<1> HIDE DEF q, r
<1>8. CASE some
  <2>1. r = Always(FALSE)
    BY <1>4, <1>8
  <2>2. ~all
    BY <1>8 DEF AlwaysTrue, AlwaysFalse
  <2>3. ASSUME NEW x
        PROVE  ~MatchesParts(c, o, n, a, p, x)
    <3>1. AlwaysFalse(c) => c = Always(FALSE)
      BY CanonicalFacts
    <3>2. AlwaysFalse(o) => o = Always(FALSE)
      BY CanonicalFacts
    <3>3. AlwaysFalse(n) => n = Always(FALSE)
      BY CanonicalFacts
    <3>4. AlwaysFalse(a) => a = Always(FALSE)
      BY CanonicalFacts
    <3>5. c = Always(FALSE) \/ o = Always(FALSE)
          \/ ((n = Always(FALSE) \/ a = Always(FALSE)) /\ ~p.match_new /\ ~p.match_destroyed)
      BY <1>8, <3>1, <3>2, <3>3, <3>4
    <3>6. QED
      BY <1>6, <3>5, Zenon DEF MatchesParts
  <2>4. QED
    BY <1>2, <1>6, <1>7, <1>8, <2>1, <2>2, <2>3, AlwaysFacts DEF r
<1>9. CASE ~some /\ all
  <2>1. r = Always(TRUE)
    BY <1>4, <1>9
  <2>2. c = Always(TRUE) /\ o = Always(TRUE) /\ n = Always(TRUE) /\ a = Always(TRUE)
    BY <1>9, CanonicalFacts
  <2>3. \A x : MatchesParts(c, o, n, a, p, x)
    BY <1>6, <2>2, Zenon DEF MatchesParts
  <2>4. QED
    BY <1>2, <1>6, <1>7, <1>9, <2>1, <2>3, AlwaysFacts DEF r
<1>10. CASE ~some /\ ~all
  <2>1. r = q /\ SimplifyPattern(r) = r
    BY <1>4, <1>5, <1>10
  <2>2. r.is = "pattern" /\ ~IsAlways(r)
    BY <1>3, <2>1 DEF IsAlways
  <2>3. ASSUME NEW x
        PROVE  MatchesPattern(r, x) <=> MatchesParts(c, o, n, a, p, x)
    BY <1>3, <2>1, <2>2 DEF MatchesPattern, MatchesParts
  <2>4. QED
    BY <1>2, <1>10, <2>1, <2>2, <2>3 DEF r, Canonical, AlwaysTrue, AlwaysFalse
<1>11. QED
  BY <1>8, <1>9, <1>10

(* An object among the arguments, which an object alone also asks for.        *)
WithObjectArgs(obj) ==
  ArgsMatcherList(<<Wrap("arg", PairMatcher(Always(TRUE), Wrap("object", obj)))>>, <<>>)

IsWith(o, x) ==
  \E j \in DOMAIN x :
    \/ x[j].kind = "object" /\ MatchesObject(o, x[j].obj)
    \/ x[j].kind = "null" /\ MatchesObject(o, MockObject(x[j].type))

LEMMA ObjectArgFacts ==
  ASSUME NEW obj, NEW o, o = SimplifyObject(obj), Canonical(o), SimplifyObject(o) = o
  PROVE  LET a == SimplifyArgs(WithObjectArgs(obj))
         IN /\ Canonical(a)
            /\ AlwaysTrue(a) <=> AlwaysTrue(o)
            /\ ~AlwaysFalse(a)
            /\ SimplifyArgs(a) = a
            /\ ~MatchesArgs(WithObjectArgs(obj), <<>>)
            /\ \A x : MatchesArgs(a, x) <=> AlwaysTrue(o) \/ IsWith(o, x)
<1> DEFINE w == Wrap("object", obj)
           v == SimplerWrap("object", o)
           b == Wrap("arg", PairMatcher(Always(TRUE), w))
           g == SimplerWrap("arg", SimplerPair(Always(TRUE), v))
           none == <<>>
           l == ArgsMatcherList(<<b>>, none)
           a == SimplifyArgs(l)
<1>1. WithObjectArgs(obj) = l
  BY Zenon DEF WithObjectArgs
<1>2. /\ l.is = "args" /\ l.positive = <<b>> /\ l.negative = none /\ ~IsAlways(l)
      /\ DOMAIN <<b>> = {1} /\ <<b>>[1] = b /\ <<b>> = [i \in {1} |-> b] /\ DOMAIN none = {}
  <2> HIDE DEF b
  <2>1. l.is = "args" /\ l.positive = <<b>> /\ l.negative = none
    BY DEF ArgsMatcherList
  <2>2. DOMAIN <<b>> = {1} /\ <<b>>[1] = b /\ DOMAIN none = {} /\ <<b>> = [i \in {1} |-> b]
    OBVIOUS
  <2> HIDE DEF l
  <2>3. QED
    BY <2>1, <2>2 DEF IsAlways
<1>3. ~MatchesArgs(l, <<>>)
  <2> HIDE DEF l, b
  <2>1. DOMAIN <<>> = {}
    OBVIOUS
  <2>2. QED
    BY <1>2, <2>1 DEF MatchesArgs
<1>4. /\ w.is = "object" /\ w.wrapped = obj
      /\ b.is = "arg" /\ b.wrapped = PairMatcher(Always(TRUE), w)
  BY ClassFacts, Zenon
<1>5. \A c, e : PairMatcher(c, e).a = c /\ PairMatcher(c, e).b = e /\ ~IsAlways(PairMatcher(c, e))
  BY ClassFacts
<1>6. SimplifyText(Always(TRUE)) = Always(TRUE)
  BY AlwaysFacts DEF SimplifyText, SimplifyList, SimplifyLeaf
<1> HIDE DEF w, b, l
<1>7. SimplifyValue(w) = v
  BY <1>4 DEF SimplifyValue, SimplifyList, SimplifyOneValue
<1>8. SimplifyArg(b) = g
  <2>1. SimplifyArg(b) = SimplifyOneArg(b)
    BY <1>4 DEF SimplifyArg, SimplifyList
  <2>2. SimplifyOneArg(b) = SimplerWrap("arg", SimplerPair(SimplifyText(Always(TRUE)), SimplifyValue(w)))
    <3>1. b.wrapped.a = Always(TRUE) /\ b.wrapped.b = w
      <4>1. PairMatcher(Always(TRUE), w).a = Always(TRUE) /\ PairMatcher(Always(TRUE), w).b = w
        BY <1>5, Zenon
      <4>2. QED
        BY <1>4, <4>1, Zenon
    <3>2. QED
      BY <1>4, <3>1 DEF SimplifyOneArg, IsAlways
  <2>3. QED
    BY <1>6, <1>7, <2>1, <2>2, Zenon
<1> HIDE DEF g
<1>9. a = SimplerArgs(<<g>>, none)
  <2>1. a = SimplerArgs([i \in DOMAIN <<b>> |-> SimplifyArg(<<b>>[i])],
                        [i \in DOMAIN none |-> SimplifyArg(none[i])])
    BY <1>2, Zenon DEF SimplifyArgs
  <2>2. [i \in DOMAIN <<b>> |-> SimplifyArg(<<b>>[i])] = <<g>>
    <3>1. <<g>> = [i \in {1} |-> g]
      OBVIOUS
    <3>2. QED
      BY <1>2, <1>8, <3>1
  <2>3. [i \in DOMAIN none |-> SimplifyArg(none[i])] = none
    OBVIOUS
  <2>4. QED
    BY <2>1, <2>2, <2>3, Zenon
<1>10. NotNever(none) = none
  <2>1. none \in Seq({g}) /\ \A i \in DOMAIN none : ~AlwaysFalse(none[i])
    OBVIOUS
  <2> HIDE DEF none
  <2>2. QED
    BY <2>1, NotNeverFacts
<1>11. DOMAIN <<g>> = {1} /\ <<g>>[1] = g /\ <<g>> = [i \in {1} |-> g]
  OBVIOUS
<1>12. ~AlwaysFalse(g) =>
         SimplerArgs(<<g>>, none) = IF AlwaysTrue(g) THEN Always(TRUE) ELSE ArgsMatcherList(<<g>>, none)
  BY <1>2, <1>10, <1>11 DEF SimplerArgs
<1> HIDE DEF a
<1>13. \A x : /\ MatchesValue(Always(TRUE), x) /\ ~MatchesValue(Always(FALSE), x)
              /\ MatchesText(Always(TRUE), x)
              /\ MatchesArgs(Always(TRUE), x)
              /\ ~MatchesObject(Always(FALSE), x)
  <2>1. \A x : MatchesText(Always(TRUE), x)
    BY AlwaysFacts DEF MatchesText, MatchesList, MatchesLeaf
  <2>2. \A x : MatchesValue(Always(TRUE), x) /\ ~MatchesValue(Always(FALSE), x)
    BY AlwaysFacts DEF MatchesValue, MatchesList, MatchesOneValue
  <2>3. \A x : MatchesArgs(Always(TRUE), x)
    BY AlwaysFacts DEF MatchesArgs
  <2>4. \A x : ~MatchesObject(Always(FALSE), x)
    BY AlwaysFacts DEF MatchesObject, MatchesList, MatchesOneObject
  <2>5. QED
    BY <2>1, <2>2, <2>3, <2>4, Zenon
<1>14. CASE AlwaysTrue(o)
  <2>1. o = Always(TRUE)
    BY <1>14, CanonicalFacts
  <2>2. v = Always(TRUE)
    BY <2>1, AlwaysFacts DEF SimplerWrap
  <2>3. g = Always(TRUE)
    BY <2>2, AlwaysFacts DEF g, SimplerPair, SimplerWrap
  <2>4. a = Always(TRUE)
    BY <1>9, <1>12, <2>3, AlwaysFacts
  <2>5. SimplifyArgs(a) = a
    BY <2>4, AlwaysFacts DEF SimplifyArgs
  <2>6. QED
    BY <1>1, <1>3, <1>13, <1>14, <2>4, <2>5, AlwaysFacts DEF a
<1>15. CASE ~AlwaysTrue(o)
  <2>1. v = IF o = Always(FALSE) THEN Always(FALSE) ELSE Wrap("object", o)
    BY <1>15, AlwaysFacts, CanonicalFacts DEF SimplerWrap
  <2>2. ~AlwaysTrue(v)
    <3>1. Wrap("object", o).is = "object"
      BY ClassFacts, Zenon
    <3>2. ~AlwaysTrue(Wrap("object", o))
      BY <3>1 DEF AlwaysTrue, IsAlways
    <3>3. QED
      BY <2>1, <3>2, AlwaysFacts
  <2> HIDE DEF v
  <2> DEFINE q == PairMatcher(Always(TRUE), v)
  <2>3. q.a = Always(TRUE) /\ q.b = v /\ ~IsAlways(q)
    BY ClassFacts, Zenon
  <2>4. g = Wrap("arg", q)
    <3>1. SimplerPair(Always(TRUE), v) = q
      BY <2>2, AlwaysFacts DEF SimplerPair, AlwaysTrue
    <3> HIDE DEF q
    <3>2. QED
      BY <2>3, <3>1 DEF g, SimplerWrap
  <2> HIDE DEF q
  <2>5. g.is = "arg" /\ g.wrapped = q /\ ~IsAlways(g)
    <3>1. g.is = "arg" /\ g.wrapped = q
      BY <2>4, ClassFacts, Zenon
    <3>2. QED
      BY <3>1 DEF IsAlways
  <2>6. SimplifyValue(v) = v
    <3>1. CASE v = Always(FALSE)
      BY <3>1, AlwaysFacts DEF SimplifyValue, SimplifyList, SimplifyOneValue
    <3>2. CASE v = Wrap("object", o)
      <4>1. v.is = "object" /\ v.wrapped = o
        BY <3>2, ClassFacts, Zenon
      <4>2. QED
        BY <4>1 DEF SimplifyValue, SimplifyList, SimplifyOneValue, v
    <3>3. QED
      BY <2>1, <3>1, <3>2
  <2>7. SimplifyArg(g) = g
    <3>1. SimplifyArg(g) = SimplifyOneArg(g)
      BY <2>5 DEF SimplifyArg, SimplifyList
    <3>2. SimplifyOneArg(g) = SimplerWrap("arg", SimplerPair(SimplifyText(Always(TRUE)), SimplifyValue(v)))
      BY <2>3, <2>5 DEF SimplifyOneArg
    <3>3. QED
      BY <1>6, <2>6, <3>1, <3>2, Zenon DEF g
  <2>8. a = ArgsMatcherList(<<g>>, none)
    BY <1>9, <1>12, <2>5 DEF AlwaysTrue, AlwaysFalse
  <2>9. a.is = "args" /\ a.positive = <<g>> /\ a.negative = none /\ ~IsAlways(a)
    BY <2>8 DEF ArgsMatcherList, IsAlways
  <2>10. SimplifyArgs(a) = a
    <3>1. SimplifyArgs(a) = SimplerArgs([i \in DOMAIN <<g>> |-> SimplifyArg(<<g>>[i])],
                                        [i \in DOMAIN none |-> SimplifyArg(none[i])])
      BY <2>9, Zenon DEF SimplifyArgs
    <3>2. [i \in DOMAIN <<g>> |-> SimplifyArg(<<g>>[i])] = <<g>>
      BY <1>11, <2>7
    <3>3. [i \in DOMAIN none |-> SimplifyArg(none[i])] = none
      OBVIOUS
    <3>4. QED
      BY <1>9, <3>1, <3>2, <3>3, Zenon
  <2>11. \A y : MatchesArg(g, y) <=>
                  \/ y.kind = "object" /\ MatchesObject(o, y.obj)
                  \/ y.kind = "null" /\ MatchesObject(o, MockObject(y.type))
    <3>1. \A y : MatchesArg(g, y) <=> MatchesText(Always(TRUE), y.name) /\ MatchesValue(v, y)
      BY <2>3, <2>5 DEF MatchesArg, MatchesList, MatchesOneArg
    <3>2. CASE o = Always(FALSE)
      BY <1>13, <2>1, <3>1, <3>2
    <3>3. CASE o # Always(FALSE)
      <4>1. v = Wrap("object", o)
        BY <2>1, <3>3
      <4>2. v.is = "object" /\ v.wrapped = o
        BY <4>1, ClassFacts, Zenon
      <4>3. \A y : MatchesValue(v, y) <=>
                  \/ y.kind = "object" /\ MatchesObject(o, y.obj)
                  \/ y.kind = "null" /\ MatchesObject(o, MockObject(y.type))
        BY <4>2 DEF MatchesValue, MatchesList, MatchesOneValue
      <4>4. QED
        BY <1>13, <3>1, <4>3
    <3>4. QED
      BY <3>2, <3>3
  <2>12. \A x : MatchesArgs(a, x) <=> IsWith(o, x)
    <3>1. \A x : MatchesArgs(a, x) <=> \E j \in DOMAIN x : MatchesArg(g, x[j])
      BY <1>2, <1>11, <2>9 DEF MatchesArgs
    <3>2. QED
      BY <2>11, <3>1 DEF IsWith
  <2>13. QED
    BY <1>1, <1>3, <1>15, <2>9, <2>10, <2>12 DEF Canonical, AlwaysTrue, AlwaysFalse, a
<1>16. QED
  BY <1>14, <1>15

(* The .new and .destroyed messages that come with a message.                 *)
LEMMA LifecycleFacts ==
  ASSUME NEW name, NEW obj, NEW x
  PROVE  (\E l \in Lifecycle(x) : MeansText(name, l[1]) /\ MeansObject(obj, l[2]))
           <=> \/ /\ MeansText(name, "new")
                  /\ \E j \in DOMAIN x.args :
                       x.args[j].kind = "object" /\ x.args[j].new /\ MeansObject(obj, x.args[j].obj)
               \/ /\ MeansText(name, "destroyed")
                  /\ \E j \in DOMAIN x.destroyed : MeansObject(obj, x.destroyed[j])
<1> DEFINE new == {j \in DOMAIN x.args : x.args[j].kind = "object" /\ x.args[j].new}
           news == {<<"new", x.args[j].obj>> : j \in new}
           gone == {<<"destroyed", x.destroyed[i]>> : i \in DOMAIN x.destroyed}
<1>1. Lifecycle(x) = news \cup gone
  BY Zenon DEF Lifecycle
<1>2. (\E l \in news : MeansText(name, l[1]) /\ MeansObject(obj, l[2]))
        <=> MeansText(name, "new") /\ \E j \in new : MeansObject(obj, x.args[j].obj)
  <2>1. \A o : <<"new", o>>[1] = "new" /\ <<"new", o>>[2] = o
    OBVIOUS
  <2>2. ASSUME NEW l \in news, MeansText(name, l[1]), MeansObject(obj, l[2])
        PROVE  MeansText(name, "new") /\ \E j \in new : MeansObject(obj, x.args[j].obj)
    <3>1. PICK j \in new : l = <<"new", x.args[j].obj>>
      OBVIOUS
    <3>2. l[1] = "new" /\ l[2] = x.args[j].obj
      BY <2>1, <3>1
    <3>3. QED
      BY <2>2, <3>2
  <2>3. ASSUME NEW j \in new, MeansText(name, "new"), MeansObject(obj, x.args[j].obj)
        PROVE  \E l \in news : MeansText(name, l[1]) /\ MeansObject(obj, l[2])
    <3>1. PICK l \in news : l = <<"new", x.args[j].obj>>
      OBVIOUS
    <3>2. l[1] = "new" /\ l[2] = x.args[j].obj
      BY <2>1, <3>1
    <3>3. QED
      BY <2>3, <3>2
  <2> HIDE DEF new, news
  <2>4. QED
    BY <2>2, <2>3
<1>3. (\E l \in gone : MeansText(name, l[1]) /\ MeansObject(obj, l[2]))
        <=> MeansText(name, "destroyed") /\ \E j \in DOMAIN x.destroyed : MeansObject(obj, x.destroyed[j])
  <2>1. \A o : <<"destroyed", o>>[1] = "destroyed" /\ <<"destroyed", o>>[2] = o
    OBVIOUS
  <2>2. ASSUME NEW l \in gone, MeansText(name, l[1]), MeansObject(obj, l[2])
        PROVE  MeansText(name, "destroyed") /\ \E j \in DOMAIN x.destroyed : MeansObject(obj, x.destroyed[j])
    <3>1. PICK j \in DOMAIN x.destroyed : l = <<"destroyed", x.destroyed[j]>>
      OBVIOUS
    <3>2. l[1] = "destroyed" /\ l[2] = x.destroyed[j]
      BY <2>1, <3>1
    <3>3. QED
      BY <2>2, <3>2
  <2>3. ASSUME NEW j \in DOMAIN x.destroyed, MeansText(name, "destroyed"), MeansObject(obj, x.destroyed[j])
        PROVE  \E l \in gone : MeansText(name, l[1]) /\ MeansObject(obj, l[2])
    <3>1. PICK l \in gone : l = <<"destroyed", x.destroyed[j]>>
      OBVIOUS
    <3>2. l[1] = "destroyed" /\ l[2] = x.destroyed[j]
      BY <2>1, <3>1
    <3>3. QED
      BY <2>3, <3>2
  <2> HIDE DEF gone
  <2>4. QED
    BY <2>2, <2>3
<1>4. (\E j \in new : MeansObject(obj, x.args[j].obj))
        <=> \E j \in DOMAIN x.args :
              x.args[j].kind = "object" /\ x.args[j].new /\ MeansObject(obj, x.args[j].obj)
  OBVIOUS
<1> HIDE DEF news, gone, new
<1>5. QED
  BY <1>1, <1>2, <1>3, <1>4

(* What a text for messages means, and what its matcher simplifies to.        *)
ItemOf(t) == SimplifyItem(PatternMatcher(t))

ItemMeaning(t) ==
  LET r == ItemOf(t)
  IN /\ Canonical(r)
     /\ AlwaysTrue(r) <=> Everything(t)
     /\ AlwaysFalse(r) <=> Nothing(t)
     /\ SimplifyItem(r) = r
     /\ \A x : MatchesItem(r, x) <=> Means(t, x)

ConnOf(t) == Wrap("conn", TextMatcher(t.conn))

(* A simplified pattern that is no list.                                      *)
Flat(r) == r.is # "list" /\ Canonical(r) /\ SimplifyPattern(r) = r

LEMMA EmptyFacts ==
  ASSUME NEW t \in Patterns, t.of = "empty"
  PROVE  ItemMeaning(t) /\ PatternMatcher(t) = Always(TRUE) /\ ItemOf(t) = Always(TRUE)
<1>1. PatternMatcher(t) = Always(TRUE)
  BY DEF PatternMatcher
<1>2. SimplifyItem(Always(TRUE)) = Always(TRUE)
  BY AlwaysFacts DEF SimplifyItem, SimplifyList, SimplifyPattern
<1>3. \A x : MatchesItem(Always(TRUE), x) /\ Means(t, x)
  BY AlwaysFacts DEF MatchesItem, MatchesList, MatchesPattern, Means
<1>4. Everything(t) /\ ~Nothing(t)
  BY DEF Everything, Nothing
<1>5. QED
  BY <1>1, <1>2, <1>3, <1>4, AlwaysFacts DEF ItemMeaning, ItemOf

LEMMA FullFacts ==
  ASSUME NEW t \in Patterns, t.of = "full", Definite(t)
  PROVE  /\ ItemMeaning(t) /\ Flat(ItemOf(t))
         /\ PatternMatcher(t).is # "list" /\ ~IsAlways(PatternMatcher(t))
<1> DEFINE conn == ConnOf(t)
           obj == ObjMatcher(t.obj)
           name == TextMatcher(t.name)
           args == ArgsMatcher(t.args)
           c == SimplifyConn(conn)
           o == SimplifyObject(obj)
           n == SimplifyText(name)
           a == SimplifyArgs(args)
           p == MessagePattern(conn, obj, name, args)
           r == SimplifyPattern(p)
<1>1. /\ t.conn \in ListsAnd(Words) /\ t.obj \in ListsAnd(Objects)
      /\ t.name \in ListsAnd(Words) /\ t.args \in ArgsLists
  BY DEF Patterns, Empty
<1>2. /\ Canonical(c) /\ (AlwaysTrue(c) <=> AnyIn(t.conn)) /\ (AlwaysFalse(c) <=> NoneIn(t.conn))
      /\ SimplifyConn(c) = c /\ \A x : MatchesConn(c, x) <=> MeansText(t.conn, x)
  BY <1>1, ConnFacts, Zenon DEF ConnOf
<1>3. /\ Canonical(o) /\ (AlwaysTrue(o) <=> AnyIn(t.obj)) /\ (AlwaysFalse(o) <=> NoneIn(t.obj))
      /\ SimplifyObject(o) = o /\ \A x : MatchesObject(o, x) <=> MeansObject(t.obj, x)
  BY <1>1, ObjectFacts, Zenon DEF ObjectMeaning
<1>4. /\ Canonical(n) /\ (AlwaysTrue(n) <=> AnyIn(t.name)) /\ (AlwaysFalse(n) <=> NoneIn(t.name))
      /\ SimplifyText(n) = n /\ \A x : MatchesText(n, x) <=> MeansText(t.name, x)
  BY <1>1, TextFacts, Zenon DEF TextMeaning
<1>5. /\ Canonical(a) /\ (AlwaysTrue(a) <=> AnyArgs(t.args)) /\ (AlwaysFalse(a) <=> NoArgs(t.args))
      /\ SimplifyArgs(a) = a /\ \A x : MatchesArgs(a, x) <=> MeansArgs(t.args, x)
  <2>1. ArgsMeaning(t.args)
    BY <1>1, ArgsFacts DEF Definite
  <2>2. QED
    BY <2>1, Zenon DEF ArgsMeaning
<1>6. PatternMatcher(t) = p
  BY DEF PatternMatcher, ConnOf
<1>7. /\ p.match_new <=> MeansText(t.name, "new") /\ MeansArgs(t.args, <<>>)
      /\ p.match_destroyed <=> MeansText(t.name, "destroyed") /\ MeansArgs(t.args, <<>>)
  <2>1. /\ p.match_new <=> MatchesText(name, "new") /\ MatchesArgs(args, <<>>)
        /\ p.match_destroyed <=> MatchesText(name, "destroyed") /\ MatchesArgs(args, <<>>)
    BY PatternRecord, Zenon
  <2>2. /\ MatchesText(name, "new") <=> MeansText(t.name, "new")
        /\ MatchesText(name, "destroyed") <=> MeansText(t.name, "destroyed")
        /\ MatchesArgs(args, <<>>) <=> MeansArgs(t.args, <<>>)
    BY <1>1, PlainText, PlainArgs
  <2>3. QED
    BY <2>1, <2>2, Zenon
<1> HIDE DEF conn, obj, name, args, c, o, n, a, p
<1>8. AlwaysFalse(n) \/ AlwaysFalse(a) => ~p.match_new /\ ~p.match_destroyed
  <2>1. \A x : ~MatchesText(Always(FALSE), x)
    BY AlwaysFacts DEF MatchesText, MatchesList, MatchesLeaf
  <2>2. \A x : ~MatchesArgs(Always(FALSE), x)
    BY AlwaysFacts DEF MatchesArgs
  <2>3. (AlwaysFalse(n) => n = Always(FALSE)) /\ (AlwaysFalse(a) => a = Always(FALSE))
    BY <1>4, <1>5, CanonicalFacts, Zenon
  <2>4. QED
    BY <1>4, <1>5, <1>7, <2>1, <2>2, <2>3
<1>9. /\ p.is # "list" /\ ~IsAlways(p)
      /\ r.is # "list" /\ Canonical(r)
      /\ AlwaysTrue(r) <=> AlwaysTrue(c) /\ AlwaysTrue(o) /\ AlwaysTrue(n) /\ AlwaysTrue(a)
      /\ AlwaysFalse(r) <=> AlwaysFalse(c) \/ AlwaysFalse(o) \/ AlwaysFalse(n) \/ AlwaysFalse(a)
      /\ SimplifyPattern(r) = r
      /\ \A x : MatchesPattern(r, x) <=> MatchesParts(c, o, n, a, p, x)
  BY <1>2, <1>3, <1>4, <1>5, <1>8, PatternSimplified, Zenon DEF c, o, n, a, p
<1> HIDE DEF r
<1>10. ItemOf(t) = r
  BY <1>6, <1>9 DEF ItemOf, SimplifyItem, SimplifyList, r
<1>11. SimplifyItem(r) = r
  BY <1>9 DEF SimplifyItem, SimplifyList
<1>12. (AlwaysTrue(r) <=> Everything(t)) /\ (AlwaysFalse(r) <=> Nothing(t))
  BY <1>2, <1>3, <1>4, <1>5, <1>9 DEF Everything, Nothing
<1>13. ASSUME NEW x
       PROVE  MatchesItem(r, x) <=> Means(t, x)
  <2>1. MatchesItem(r, x) <=> MatchesParts(c, o, n, a, p, x)
    BY <1>9 DEF MatchesItem, MatchesList
  <2> DEFINE new == \E j \in DOMAIN x.args :
                      x.args[j].kind = "object" /\ x.args[j].new /\ MeansObject(t.obj, x.args[j].obj)
             gone == \E j \in DOMAIN x.destroyed : MeansObject(t.obj, x.destroyed[j])
  <2>2. /\ MeansObject(t.obj, x.obj) <=> MatchesObject(o, x.obj)
        /\ new <=> \E j \in DOMAIN x.args :
                     x.args[j].kind = "object" /\ x.args[j].new /\ MatchesObject(o, x.args[j].obj)
        /\ gone <=> \E j \in DOMAIN x.destroyed : MatchesObject(o, x.destroyed[j])
    BY <1>3
  <2>3. (\E l \in Lifecycle(x) : MeansText(t.name, l[1]) /\ MeansObject(t.obj, l[2]))
          <=> (MeansText(t.name, "new") /\ new) \/ (MeansText(t.name, "destroyed") /\ gone)
    BY LifecycleFacts
  <2> HIDE DEF new, gone
  <2>4. MeansFull(t, x) <=>
          \/ MeansObject(t.obj, x.obj) /\ MeansText(t.name, x.name) /\ MeansArgs(t.args, x.args)
          \/ MeansArgs(t.args, <<>>) /\ \E l \in Lifecycle(x) : MeansText(t.name, l[1]) /\ MeansObject(t.obj, l[2])
    BY Zenon DEF MeansFull
  <2>5. MatchesParts(c, o, n, a, p, x) <=>
          /\ MeansText(t.conn, x.conn)
          /\ \/ p.match_new /\ new
             \/ p.match_destroyed /\ gone
             \/ MeansObject(t.obj, x.obj) /\ MeansText(t.name, x.name) /\ MeansArgs(t.args, x.args)
    BY <1>2, <1>4, <1>5, <2>2, Zenon DEF MatchesParts
  <2>6. Means(t, x) <=> MeansText(t.conn, x.conn) /\ MeansFull(t, x)
    BY DEF Means
  <2>7. QED
    BY <1>7, <2>1, <2>3, <2>4, <2>5, <2>6, Zenon
<1>14. QED
  BY <1>6, <1>9, <1>10, <1>11, <1>12, <1>13 DEF ItemMeaning, Flat

(* An object alone becomes two patterns: messages on it and messages with it. *)
OnObject(t) == MessagePattern(ConnOf(t), ObjMatcher(t.obj), Always(TRUE), Always(TRUE))
WithObject(t) ==
  MessagePattern(ConnOf(t), Always(TRUE), Always(TRUE), WithObjectArgs(ObjMatcher(t.obj)))

MeansOn(t, x) ==
  /\ MeansText(t.conn, x.conn)
  /\ \/ MeansObject(t.obj, x.obj)
     \/ \E j \in DOMAIN x.args :
          x.args[j].kind = "object" /\ x.args[j].new /\ MeansObject(t.obj, x.args[j].obj)
     \/ \E j \in DOMAIN x.destroyed : MeansObject(t.obj, x.destroyed[j])

MeansWith(t, x) ==
  /\ MeansText(t.conn, x.conn)
  /\ \/ AnyIn(t.obj)
     \/ \E j \in DOMAIN x.args :
          \/ x.args[j].kind = "object" /\ MeansObject(t.obj, x.args[j].obj)
          \/ x.args[j].kind = "null" /\ MeansObject(t.obj, MockObject(x.args[j].type))

LEMMA TrueFacts ==
  /\ SimplifyObject(Always(TRUE)) = Always(TRUE)
  /\ SimplifyText(Always(TRUE)) = Always(TRUE)
  /\ SimplifyArgs(Always(TRUE)) = Always(TRUE)
  /\ \A x : MatchesObject(Always(TRUE), x) /\ ~MatchesObject(Always(FALSE), x)
  /\ \A x : MatchesText(Always(TRUE), x)
  /\ \A x : MatchesArgs(Always(TRUE), x)
<1>1. SimplifyObject(Always(TRUE)) = Always(TRUE)
  BY AlwaysFacts DEF SimplifyObject, SimplifyList, SimplifyOneObject
<1>2. SimplifyText(Always(TRUE)) = Always(TRUE)
  BY AlwaysFacts DEF SimplifyText, SimplifyList, SimplifyLeaf
<1>3. SimplifyArgs(Always(TRUE)) = Always(TRUE)
  BY AlwaysFacts DEF SimplifyArgs
<1>4. \A x : MatchesObject(Always(TRUE), x) /\ ~MatchesObject(Always(FALSE), x)
  BY AlwaysFacts DEF MatchesObject, MatchesList, MatchesOneObject
<1>5. \A x : MatchesText(Always(TRUE), x)
  BY AlwaysFacts DEF MatchesText, MatchesList, MatchesLeaf
<1>6. \A x : MatchesArgs(Always(TRUE), x)
  BY AlwaysFacts DEF MatchesArgs
<1>7. QED
  BY <1>1, <1>2, <1>3, <1>4, <1>5, <1>6, Zenon

LEMMA OnFacts ==
  ASSUME NEW t \in Patterns, t.of = "naked"
  PROVE  LET p == OnObject(t)
             r == SimplifyPattern(p)
         IN /\ p.is # "list" /\ ~IsAlways(p) /\ Flat(r)
            /\ AlwaysTrue(r) <=> AnyIn(t.conn) /\ AnyIn(t.obj)
            /\ AlwaysFalse(r) <=> NoneIn(t.conn) \/ NoneIn(t.obj)
            /\ \A x : MatchesPattern(r, x) <=> MeansOn(t, x)
<1> DEFINE conn == ConnOf(t)
           obj == ObjMatcher(t.obj)
           c == SimplifyConn(conn)
           o == SimplifyObject(obj)
           p == MessagePattern(conn, obj, Always(TRUE), Always(TRUE))
           r == SimplifyPattern(p)
           any == Always(TRUE)
<1>1. t.conn \in ListsAnd(Words) /\ t.obj \in ListsAnd(Objects)
  BY DEF Patterns, Empty
<1>2. /\ Canonical(c) /\ (AlwaysTrue(c) <=> AnyIn(t.conn)) /\ (AlwaysFalse(c) <=> NoneIn(t.conn))
      /\ SimplifyConn(c) = c /\ \A x : MatchesConn(c, x) <=> MeansText(t.conn, x)
  BY <1>1, ConnFacts, Zenon DEF ConnOf
<1>3. /\ Canonical(o) /\ (AlwaysTrue(o) <=> AnyIn(t.obj)) /\ (AlwaysFalse(o) <=> NoneIn(t.obj))
      /\ SimplifyObject(o) = o /\ \A x : MatchesObject(o, x) <=> MeansObject(t.obj, x)
  BY <1>1, ObjectFacts, Zenon DEF ObjectMeaning
<1>4. p.match_new /\ p.match_destroyed
  <2>1. /\ p.match_new <=> MatchesText(any, "new") /\ MatchesArgs(any, <<>>)
        /\ p.match_destroyed <=> MatchesText(any, "destroyed") /\ MatchesArgs(any, <<>>)
    BY PatternRecord, Zenon
  <2>2. QED
    BY <2>1, TrueFacts, Zenon
<1>5. OnObject(t) = p
  BY Zenon DEF OnObject
<1>6. /\ any = SimplifyText(any) /\ any = SimplifyArgs(any) /\ Canonical(any)
      /\ ~AlwaysFalse(any) /\ AlwaysTrue(any)
  BY TrueFacts, AlwaysFacts, Zenon
<1> HIDE DEF conn, obj, c, o, p, any
<1>7. /\ p.is # "list" /\ ~IsAlways(p)
      /\ r.is # "list" /\ Canonical(r)
      /\ AlwaysTrue(r) <=> AlwaysTrue(c) /\ AlwaysTrue(o) /\ AlwaysTrue(any) /\ AlwaysTrue(any)
      /\ AlwaysFalse(r) <=> AlwaysFalse(c) \/ AlwaysFalse(o) \/ AlwaysFalse(any) \/ AlwaysFalse(any)
      /\ SimplifyPattern(r) = r
      /\ \A x : MatchesPattern(r, x) <=> MatchesParts(c, o, any, any, p, x)
  <2>1. p = MessagePattern(conn, obj, any, any)
    BY Zenon DEF p, any
  <2>2. SimplifyText(any) = any /\ SimplifyArgs(any) = any
    BY <1>6
  <2>3. c = SimplifyConn(conn) /\ o = SimplifyObject(obj)
    BY Zenon DEF c, o
  <2>4. AlwaysFalse(any) \/ AlwaysFalse(any) => ~p.match_new /\ ~p.match_destroyed
    BY <1>6
  <2>5. QED
    BY <1>2, <1>3, <1>6, <2>1, <2>2, <2>3, <2>4, PatternSimplified
<1> HIDE DEF r
<1>8. ASSUME NEW x
      PROVE  MatchesParts(c, o, any, any, p, x) <=> MeansOn(t, x)
  <2>1. MatchesText(any, x.name) /\ MatchesArgs(any, x.args)
    BY TrueFacts, Zenon DEF any
  <2>2. QED
    BY <1>2, <1>3, <1>4, <2>1 DEF MatchesParts, MeansOn
<1>9. QED
  BY <1>2, <1>3, <1>5, <1>6, <1>7, <1>8 DEF Flat, r

LEMMA WithFacts ==
  ASSUME NEW t \in Patterns, t.of = "naked"
  PROVE  LET p == WithObject(t)
             r == SimplifyPattern(p)
         IN /\ p.is # "list" /\ ~IsAlways(p) /\ Flat(r)
            /\ AlwaysTrue(r) <=> AnyIn(t.conn) /\ AnyIn(t.obj)
            /\ AlwaysFalse(r) <=> NoneIn(t.conn)
            /\ \A x : MatchesPattern(r, x) <=> MeansWith(t, x)
<1> DEFINE conn == ConnOf(t)
           obj == ObjMatcher(t.obj)
           with == WithObjectArgs(obj)
           c == SimplifyConn(conn)
           o == SimplifyObject(obj)
           a == SimplifyArgs(with)
           p == MessagePattern(conn, Always(TRUE), Always(TRUE), with)
           r == SimplifyPattern(p)
           any == Always(TRUE)
<1>1. t.conn \in ListsAnd(Words) /\ t.obj \in ListsAnd(Objects)
  BY DEF Patterns, Empty
<1>2. /\ Canonical(c) /\ (AlwaysTrue(c) <=> AnyIn(t.conn)) /\ (AlwaysFalse(c) <=> NoneIn(t.conn))
      /\ SimplifyConn(c) = c /\ \A x : MatchesConn(c, x) <=> MeansText(t.conn, x)
  BY <1>1, ConnFacts, Zenon DEF ConnOf
<1>3. /\ Canonical(o) /\ (AlwaysTrue(o) <=> AnyIn(t.obj)) /\ (AlwaysFalse(o) <=> NoneIn(t.obj))
      /\ SimplifyObject(o) = o /\ \A x : MatchesObject(o, x) <=> MeansObject(t.obj, x)
  BY <1>1, ObjectFacts, Zenon DEF ObjectMeaning
<1>4. /\ Canonical(a) /\ (AlwaysTrue(a) <=> AlwaysTrue(o)) /\ ~AlwaysFalse(a)
      /\ SimplifyArgs(a) = a /\ ~MatchesArgs(with, <<>>)
      /\ \A x : MatchesArgs(a, x) <=> AlwaysTrue(o) \/ IsWith(o, x)
  <2> HIDE DEF obj
  <2>1. Canonical(o) /\ SimplifyObject(o) = o
    BY <1>3
  <2>2. QED
    BY <2>1, ObjectArgFacts, Zenon
<1>5. ~p.match_new /\ ~p.match_destroyed
  <2>1. /\ p.match_new <=> MatchesText(any, "new") /\ MatchesArgs(with, <<>>)
        /\ p.match_destroyed <=> MatchesText(any, "destroyed") /\ MatchesArgs(with, <<>>)
    BY PatternRecord, Zenon
  <2>2. QED
    BY <1>4, <2>1, Zenon
<1>6. WithObject(t) = p
  BY Zenon DEF WithObject
<1>7. /\ any = SimplifyText(any) /\ any = SimplifyObject(any) /\ Canonical(any)
      /\ ~AlwaysFalse(any) /\ AlwaysTrue(any)
  BY TrueFacts, AlwaysFacts, Zenon
<1> HIDE DEF conn, obj, with, c, o, a, p, any
<1>8. /\ p.is # "list" /\ ~IsAlways(p)
      /\ r.is # "list" /\ Canonical(r)
      /\ AlwaysTrue(r) <=> AlwaysTrue(c) /\ AlwaysTrue(any) /\ AlwaysTrue(any) /\ AlwaysTrue(a)
      /\ AlwaysFalse(r) <=> AlwaysFalse(c) \/ AlwaysFalse(any) \/ AlwaysFalse(any) \/ AlwaysFalse(a)
      /\ SimplifyPattern(r) = r
      /\ \A x : MatchesPattern(r, x) <=> MatchesParts(c, any, any, a, p, x)
  <2>1. p = MessagePattern(conn, any, any, with)
    BY Zenon DEF p, any
  <2>2. SimplifyText(any) = any /\ SimplifyObject(any) = any
    BY <1>7
  <2>3. c = SimplifyConn(conn) /\ a = SimplifyArgs(with)
    BY Zenon DEF c, a
  <2>4. AlwaysFalse(any) \/ AlwaysFalse(a) => ~p.match_new /\ ~p.match_destroyed
    BY <1>5
  <2>5. QED
    BY <1>2, <1>4, <1>7, <2>1, <2>2, <2>3, <2>4, PatternSimplified
<1> HIDE DEF r
<1>9. ASSUME NEW x
      PROVE  MatchesParts(c, any, any, a, p, x) <=> MeansWith(t, x)
  <2>1. MatchesText(any, x.name) /\ MatchesObject(any, x.obj)
    BY TrueFacts, Zenon DEF any
  <2>2. MatchesParts(c, any, any, a, p, x) <=> MatchesConn(c, x.conn) /\ MatchesArgs(a, x.args)
    BY <1>5, <2>1, Zenon DEF MatchesParts
  <2>3. IsWith(o, x.args) <=>
          \E j \in DOMAIN x.args :
            \/ x.args[j].kind = "object" /\ MeansObject(t.obj, x.args[j].obj)
            \/ x.args[j].kind = "null" /\ MeansObject(t.obj, MockObject(x.args[j].type))
    BY <1>3 DEF IsWith
  <2>4. QED
    BY <1>2, <1>3, <1>4, <2>2, <2>3, Zenon DEF MeansWith
<1>10. QED
  BY <1>2, <1>3, <1>4, <1>6, <1>7, <1>8, <1>9 DEF Flat, r

(* What simplify makes of a list, case by case.                               *)
LEMMA SimplerListParts ==
  ASSUME NEW E, Always(TRUE) \in E, NEW positive \in Seq(E), NEW negative \in Seq(E),
         \A e \in E : Canonical(e)
  PROVE  LET r == SimplerList(positive, negative)
             pos == SimplerPositive(positive)
             neg == NotNever(negative)
         IN /\ pos \in Seq(E) /\ neg \in Seq(E)
            /\ \/ r = Always(FALSE)
               \/ r \in E /\ pos = <<r>> /\ neg = <<>>
               \/ /\ r.is = "list" /\ r = MatcherList(pos, neg) /\ r.positive = pos /\ r.negative = neg
                  /\ ~(SomeTrue(positive) /\ neg = <<>>)
<1> DEFINE r == SimplerList(positive, negative)
           pos == SimplerPositive(positive)
           neg == NotNever(negative)
<1>1. /\ pos \in Seq(E) /\ neg \in Seq(E)
      /\ SomeTrue(positive) => pos = <<Always(TRUE)>>
  BY SimplerPositiveFacts, SimplerNegativeFacts
<1>2. r = IF pos = <<>> \/ SomeTrue(negative) THEN Always(FALSE)
          ELSE IF Len(pos) = 1 /\ neg = <<>> THEN pos[1] ELSE MatcherList(pos, neg)
  BY SimplerListCases
<1> HIDE DEF r, pos, neg
<1>3. CASE pos # <<>> /\ ~SomeTrue(negative) /\ Len(pos) = 1 /\ neg = <<>>
  <2>1. r = pos[1]
    BY <1>2, <1>3
  <2>2. pos = <<pos[1]>> /\ pos[1] \in E
    BY <1>1, <1>3
  <2>3. QED
    BY <1>1, <1>3, <2>1, <2>2 DEF r, pos, neg
<1>4. CASE pos # <<>> /\ ~SomeTrue(negative) /\ ~(Len(pos) = 1 /\ neg = <<>>)
  <2>1. r = MatcherList(pos, neg)
    BY <1>2, <1>4
  <2>2. r.is = "list" /\ r.positive = pos /\ r.negative = neg
    BY <2>1 DEF MatcherList
  <2>3. ~(SomeTrue(positive) /\ neg = <<>>)
    BY <1>1, <1>4, Len(<<Always(TRUE)>>) = 1
  <2>4. QED
    BY <1>1, <2>1, <2>2, <2>3 DEF r, pos, neg
<1>5. QED
  BY <1>1, <1>2, <1>3, <1>4 DEF r, pos, neg

(* A simplified item that is a list lists simplified patterns, none of which  *)
(* matches everything or nothing.                                             *)
FlatList(r, E) ==
  /\ r.positive \in Seq(E) /\ r.negative = <<>> /\ DOMAIN r.positive # {}
  /\ \A k \in DOMAIN r.positive : ~IsAlways(r.positive[k]) /\ Flat(r.positive[k])
  /\ \A x : MatchesItem(r, x) <=> \E k \in DOMAIN r.positive : MatchesItem(r.positive[k], x)

LEMMA FlatFacts ==
  ASSUME NEW r, Flat(r)
  PROVE  SimplifyItem(r) = r /\ \A x : MatchesItem(r, x) <=> MatchesPattern(r, x)
BY DEF Flat, SimplifyItem, SimplifyList, MatchesItem, MatchesList

LEMMA NakedFacts ==
  ASSUME NEW t \in Patterns, t.of = "naked"
  PROVE  LET m == PatternMatcher(t)
             r == ItemOf(t)
             r1 == SimplifyPattern(OnObject(t))
             r2 == SimplifyPattern(WithObject(t))
         IN /\ m.is = "list" /\ m.positive = <<OnObject(t), WithObject(t)>> /\ m.negative = <<>>
            /\ r = SimplerList(<<r1, r2>>, <<>>)
            /\ ItemMeaning(t)
            /\ r.is = "list" => FlatList(r, {r1, r2, Always(TRUE)})
            /\ Flat(r1) /\ Flat(r2) /\ OnObject(t).is # "list" /\ WithObject(t).is # "list"
            /\ ~IsAlways(OnObject(t)) /\ ~IsAlways(WithObject(t))
            /\ AlwaysTrue(r1) \/ AlwaysTrue(r2) <=> Everything(t)
            /\ AlwaysFalse(r1) /\ AlwaysFalse(r2) <=> Nothing(t)
            /\ \A x : Means(t, x) <=> MatchesItem(r1, x) \/ MatchesItem(r2, x)
<1> DEFINE m == PatternMatcher(t)
           r == ItemOf(t)
           p1 == OnObject(t)
           p2 == WithObject(t)
           r1 == SimplifyPattern(p1)
           r2 == SimplifyPattern(p2)
           raw == <<p1, p2>>
           both == <<r1, r2>>
           none == <<>>
           E == {r1, r2, Always(TRUE)}
<1>1. /\ p1.is # "list" /\ ~IsAlways(p1) /\ Flat(r1)
      /\ AlwaysTrue(r1) <=> AnyIn(t.conn) /\ AnyIn(t.obj)
      /\ AlwaysFalse(r1) <=> NoneIn(t.conn) \/ NoneIn(t.obj)
      /\ \A x : MatchesPattern(r1, x) <=> MeansOn(t, x)
  BY OnFacts, Zenon
<1>2. /\ p2.is # "list" /\ ~IsAlways(p2) /\ Flat(r2)
      /\ AlwaysTrue(r2) <=> AnyIn(t.conn) /\ AnyIn(t.obj)
      /\ AlwaysFalse(r2) <=> NoneIn(t.conn)
      /\ \A x : MatchesPattern(r2, x) <=> MeansWith(t, x)
  BY WithFacts, Zenon
<1>3. m = MatcherList(raw, none)
  BY DEF PatternMatcher, OnObject, WithObject, WithObjectArgs, ConnOf
<1> HIDE DEF p1, p2, r1, r2
<1>4. /\ DOMAIN raw = {1, 2} /\ raw[1] = p1 /\ raw[2] = p2 /\ raw \in Seq({p1, p2})
      /\ DOMAIN both = {1, 2} /\ both[1] = r1 /\ both[2] = r2 /\ both \in Seq(E)
      /\ none \in Seq(E) /\ DOMAIN none = {} /\ Always(TRUE) \in E /\ Len(raw) = 2 /\ Len(both) = 2
  OBVIOUS
<1>5. \A e \in E : Flat(e) /\ Canonical(e)
  <2>1. Flat(Always(TRUE))
    BY AlwaysFacts DEF Flat, SimplifyPattern
  <2>2. QED
    BY <1>1, <1>2, <2>1 DEF Flat
<1> HIDE DEF raw, both, none, E, m
<1>6. m.is = "list" /\ m.positive = raw /\ m.negative = none
  BY <1>3 DEF MatcherList
<1>7. r = SimplerList(both, none)
  <2>1. SimplifyItem(m) = SimplerList([i \in DOMAIN raw |-> SimplifyPattern(raw[i])],
                                      [i \in DOMAIN none |-> SimplifyPattern(none[i])])
    BY <1>6, Zenon DEF SimplifyItem, SimplifyList
  <2>2. [i \in DOMAIN raw |-> SimplifyPattern(raw[i])] = both
    <3> DEFINE f == [i \in DOMAIN raw |-> SimplifyPattern(raw[i])]
    <3>1. DOMAIN f = DOMAIN both /\ f[1] = both[1] /\ f[2] = both[2]
      BY <1>4 DEF r1, r2
    <3>2. f \in Seq(E) /\ Len(f) = 2
      <4>1. \A i \in DOMAIN raw : f[i] \in E
        BY <1>4, <3>1 DEF E
      <4>2. QED
        BY <1>4, <4>1, MapType
    <3> HIDE DEF f
    <3>3. f = both
      BY <1>4, <3>1, <3>2
    <3>4. QED
      BY <3>3 DEF f
  <2>3. [i \in DOMAIN none |-> SimplifyPattern(none[i])] = none
    BY DEF none
  <2>4. QED
    BY <2>1, <2>2, <2>3, Zenon DEF ItemOf, m
<1> HIDE DEF r
<1>8. /\ Canonical(r)
      /\ AlwaysTrue(r) <=> SomeTrue(both) /\ AllFalse(none)
      /\ AlwaysFalse(r) <=> SomeTrue(none) \/ AllFalse(both)
      /\ r = Always(FALSE) \/ r \in E \/ (r.is = "list" /\ SimpleList(r, E))
      /\ \A A : Always(TRUE) \in A /\ Always(FALSE) \notin A =>
           \/ r = Always(FALSE) /\ ~Accepts(both, none, A)
           \/ r \in E /\ (Accepts(both, none, A) <=> r \in A)
           \/ r.is = "list" /\ (Accepts(both, none, A) <=> Accepts(r.positive, r.negative, A))
  BY <1>4, <1>5, <1>7, SimplerListFacts
<1>9. /\ AllFalse(none) /\ ~SomeTrue(none)
      /\ SomeTrue(both) <=> AlwaysTrue(r1) \/ AlwaysTrue(r2)
      /\ AllFalse(both) <=> AlwaysFalse(r1) /\ AlwaysFalse(r2)
  BY <1>4 DEF AllFalse, SomeTrue
<1>10. (AlwaysTrue(r) <=> Everything(t)) /\ (AlwaysFalse(r) <=> Nothing(t))
  BY <1>1, <1>2, <1>8, <1>9 DEF Everything, Nothing
<1>11. /\ SimplifyPattern(Always(FALSE)) = Always(FALSE)
       /\ \A x : MatchesPattern(Always(TRUE), x) /\ ~MatchesPattern(Always(FALSE), x)
  BY AlwaysFacts DEF SimplifyPattern, MatchesPattern
<1>12. Flat(Always(FALSE))
  BY <1>11, AlwaysFacts DEF Flat
<1>13. r.is # "list" => Flat(r)
  BY <1>5, <1>8, <1>12
<1>14. r.is = "list" => FlatList(r, E)
  <2>1. SUFFICES ASSUME r.is = "list" PROVE FlatList(r, E)
    OBVIOUS
  <2> DEFINE pos == SimplerPositive(both)
             neg == NotNever(none)
  <2>2. NotNever(none) = <<>>
    <3>1. none \in Seq(E) /\ \A n \in DOMAIN none : ~AlwaysFalse(none[n])
      BY <1>4
    <3>2. NotNever(none) = none
      BY <3>1, NotNeverFacts, Zenon
    <3>3. QED
      BY <3>2 DEF none
  <2>3. /\ pos \in Seq(E)
        /\ pos = <<>> <=> AllFalse(both)
        /\ SomeTrue(pos) => SomeTrue(both)
        /\ \A k \in DOMAIN pos : ~AlwaysFalse(pos[k])
    BY <1>4, <1>5, SimplerPositiveFacts
  <2>4. /\ r.is = "list" /\ r = MatcherList(pos, neg) /\ r.positive = pos /\ r.negative = neg
        /\ ~(SomeTrue(both) /\ neg = <<>>)
    <3>1. r # Always(FALSE) /\ r \notin E
      BY <1>5, <2>1, AlwaysFacts DEF Flat
    <3>2. \/ r = Always(FALSE)
          \/ r \in E /\ pos = <<r>> /\ neg = <<>>
          \/ /\ r.is = "list" /\ r = MatcherList(pos, neg) /\ r.positive = pos /\ r.negative = neg
             /\ ~(SomeTrue(both) /\ neg = <<>>)
      <4>1. \A e \in E : Canonical(e)
        BY <1>5
      <4> DEFINE q == SimplerList(both, none)
      <4>2. \/ q = Always(FALSE)
            \/ q \in E /\ pos = <<q>> /\ neg = <<>>
            \/ /\ q.is = "list" /\ q = MatcherList(pos, neg) /\ q.positive = pos /\ q.negative = neg
               /\ ~(SomeTrue(both) /\ neg = <<>>)
        <5>1. Always(TRUE) \in E /\ both \in Seq(E) /\ none \in Seq(E)
          BY <1>4
        <5>2. QED
          BY <4>1, <5>1, SimplerListParts, Zenon
      <4>3. q = r
        BY <1>7, Zenon
      <4> HIDE DEF q, pos, neg
      <4>4. QED
        BY <4>2, <4>3
    <3> HIDE DEF pos, neg
    <3>3. QED
      BY <3>1, <3>2
  <2> HIDE DEF pos, neg
  <2>5. ~SomeTrue(pos) /\ neg = <<>>
    BY <2>2, <2>3, <2>4 DEF neg
  <2>6. \A k \in DOMAIN pos : Flat(pos[k]) /\ ~IsAlways(pos[k])
    <3>1. \A k \in DOMAIN pos : pos[k] \in E /\ ~AlwaysTrue(pos[k]) /\ ~AlwaysFalse(pos[k])
      BY <2>3, <2>5, SequenceFacts DEF SomeTrue
    <3>2. QED
      BY <1>5, <3>1, CanonicalFacts
  <2>7. ASSUME NEW x
        PROVE  MatchesItem(r, x) <=> \E k \in DOMAIN pos : MatchesItem(pos[k], x)
    <3>1. MatchesItem(r, x) <=> /\ \E k \in DOMAIN pos : MatchesPattern(pos[k], x)
                                /\ \A k \in DOMAIN neg : ~MatchesPattern(neg[k], x)
      BY <2>4, Zenon DEF MatchesItem, MatchesList
    <3>2. DOMAIN neg = {}
      BY <2>5
    <3>3. \A k \in DOMAIN pos : MatchesItem(pos[k], x) <=> MatchesPattern(pos[k], x)
      BY <2>6, FlatFacts
    <3>4. QED
      BY <3>1, <3>2, <3>3
  <2>8. DOMAIN pos # {}
    <3>1. ~AllFalse(both)
      BY <1>8, <2>1 DEF AlwaysFalse, IsAlways
    <3>2. QED
      BY <2>3, <3>1, SequenceFacts
  <2>9. QED
    BY <2>3, <2>4, <2>5, <2>6, <2>7, <2>8 DEF FlatList
<1>15. SimplifyItem(r) = r
  <2>1. CASE r.is # "list"
    BY <1>13, <2>1, FlatFacts
  <2>2. CASE r.is = "list"
    <3>1. SimpleList(r, E)
      <4>1. r # Always(FALSE) /\ r \notin E
        BY <1>5, <2>2, AlwaysFacts DEF Flat
      <4>2. QED
        BY <1>8, <4>1
    <3> DEFINE p == r.positive
               n == r.negative
    <3>2. p \in Seq(E) /\ n \in Seq(E) /\ SimplerList(p, n) = r
      BY <3>1 DEF SimpleList
    <3>3. SimplifyItem(r) = SimplerList([i \in DOMAIN p |-> SimplifyPattern(p[i])],
                                        [i \in DOMAIN n |-> SimplifyPattern(n[i])])
      BY <2>2, Zenon DEF SimplifyItem, SimplifyList
    <3> HIDE DEF p, n
    <3>4. \A e \in E : SimplifyPattern(e) = e
      BY <1>5 DEF Flat
    <3>5. [i \in DOMAIN p |-> SimplifyPattern(p[i])] = p
      BY <3>2, <3>4
    <3>6. [i \in DOMAIN n |-> SimplifyPattern(n[i])] = n
      BY <3>2, <3>4
    <3>7. QED
      BY <3>2, <3>3, <3>5, <3>6, Zenon
  <2>3. QED
    BY <2>1, <2>2
<1>16. ASSUME NEW x
       PROVE  Means(t, x) <=> MeansOn(t, x) \/ MeansWith(t, x)
  <2>1. Means(t, x) <=> MeansText(t.conn, x.conn) /\ MeansNaked(t, x)
    BY DEF Means
  <2>2. AnyIn(t.obj) => MeansObject(t.obj, x.obj)
    <3> DEFINE o == SimplifyObject(ObjMatcher(t.obj))
    <3>1. t.obj \in ListsAnd(Objects)
      BY DEF Patterns, Empty
    <3>2. /\ Canonical(o) /\ (AlwaysTrue(o) <=> AnyIn(t.obj))
          /\ MatchesObject(o, x.obj) <=> MeansObject(t.obj, x.obj)
      BY <3>1, ObjectFacts, Zenon DEF ObjectMeaning
    <3> HIDE DEF o
    <3>3. AlwaysTrue(o) => o = Always(TRUE)
      BY <3>2, CanonicalFacts
    <3>4. QED
      BY <3>2, <3>3, TrueFacts
  <2>3. QED
    BY <2>1, <2>2 DEF MeansNaked, MeansOn, MeansWith
<1>17. ASSUME NEW x
       PROVE  MatchesItem(r, x) <=> Means(t, x)
  <2>1. Means(t, x) <=> MeansOn(t, x) \/ MeansWith(t, x)
    BY <1>16
  <2> DEFINE A == {e \in E : MatchesPattern(e, x)}
  <2>2. Always(TRUE) \in A /\ Always(FALSE) \notin A
    BY <1>4, <1>11
  <2>3. \A e \in E : e \in A <=> MatchesPattern(e, x)
    OBVIOUS
  <2> HIDE DEF A
  <2>4. Accepts(both, none, A) <=> Means(t, x)
    <3>1. Accepts(both, none, A) <=> r1 \in A \/ r2 \in A
      BY <1>4 DEF Accepts
    <3>2. r1 \in E /\ r2 \in E
      BY DEF E
    <3>3. QED
      BY <1>1, <1>2, <2>1, <2>3, <3>1, <3>2
  <2>5. CASE r = Always(FALSE) /\ ~Accepts(both, none, A)
    BY <1>11, <1>12, <2>4, <2>5, FlatFacts
  <2>6. CASE r \in E /\ (Accepts(both, none, A) <=> r \in A)
    BY <1>5, <2>3, <2>4, <2>6, FlatFacts
  <2>7. CASE r.is = "list" /\ (Accepts(both, none, A) <=> Accepts(r.positive, r.negative, A))
    <3> DEFINE p == r.positive
    <3>1. /\ p \in Seq(E) /\ r.negative = <<>> /\ \A k \in DOMAIN p : Flat(p[k])
          /\ MatchesItem(r, x) <=> \E k \in DOMAIN p : MatchesItem(p[k], x)
      BY <1>14, <2>7 DEF FlatList
    <3>2. DOMAIN r.negative = {}
      BY <3>1
    <3> HIDE DEF p
    <3>3. \A k \in DOMAIN p : MatchesItem(p[k], x) <=> p[k] \in A
      BY <2>3, <3>1, SequenceFacts, FlatFacts
    <3>4. Accepts(r.positive, r.negative, A) <=> \E k \in DOMAIN p : p[k] \in A
      BY <3>2 DEF Accepts, p
    <3>5. QED
      BY <2>4, <2>7, <3>1, <3>3, <3>4
  <2>8. QED
    BY <1>8, <2>2, <2>5, <2>6, <2>7, Zenon
<1>18. ItemMeaning(t)
  BY <1>8, <1>10, <1>15, <1>17, Zenon DEF ItemMeaning, r
<1>19. \A x : Means(t, x) <=> MatchesItem(r1, x) \/ MatchesItem(r2, x)
  BY <1>1, <1>2, <1>16, FlatFacts
<1>20. /\ AlwaysTrue(r1) \/ AlwaysTrue(r2) <=> Everything(t)
       /\ AlwaysFalse(r1) /\ AlwaysFalse(r2) <=> Nothing(t)
  BY <1>1, <1>2 DEF Everything, Nothing
<1>21. QED
  BY <1>1, <1>2, <1>6, <1>7, <1>14, <1>18, <1>19, <1>20, Zenon
     DEF raw, both, none, E, r1, r2, p1, p2, m, r

------------------------------------------------------------------------------
(* Filters *)

Sound == {t \in Patterns : Definite(t)}
Naked == {t \in Patterns : t.of = "naked"}

(* The matchers that a simplified list of patterns may hold, and those that a *)
(* parsed one may.                                                            *)
Items ==
  {Always(TRUE)} \cup {ItemOf(t) : t \in Sound}
  \cup {SimplifyPattern(OnObject(t)) : t \in Naked} \cup {SimplifyPattern(WithObject(t)) : t \in Naked}
Raw == {PatternMatcher(t) : t \in Sound} \cup {OnObject(t) : t \in Naked} \cup {WithObject(t) : t \in Naked}

In(s) == {s[i] : i \in DOMAIN s}

LEMMA ItemFacts ==
  ASSUME NEW t \in Sound
  PROVE  /\ ItemMeaning(t) /\ ItemOf(t) \in Items
         /\ AlwaysTrue(PatternMatcher(t)) <=> t = Empty
         /\ IsAlways(PatternMatcher(t)) => t = Empty
         /\ t = Empty => PatternMatcher(t) = Always(TRUE) /\ ItemOf(t) = Always(TRUE)
<1>1. t \in Patterns /\ Definite(t)
  BY DEF Sound
<1>2. ItemOf(t) \in Items
  BY DEF Items
<1>3. /\ t.of \in {"empty", "naked", "full"}
      /\ t.of = "empty" <=> t = Empty
  BY <1>1 DEF Patterns, Empty
<1>4. CASE t.of = "empty"
  BY <1>1, <1>2, <1>3, <1>4, EmptyFacts, AlwaysFacts
<1>5. CASE t.of = "naked"
  <2>1. ItemMeaning(t) /\ PatternMatcher(t).is = "list"
    BY <1>1, <1>5, NakedFacts, Zenon
  <2>2. QED
    BY <1>2, <1>3, <1>5, <2>1 DEF AlwaysTrue, IsAlways
<1>6. CASE t.of = "full"
  <2>1. ItemMeaning(t) /\ ~IsAlways(PatternMatcher(t))
    BY <1>1, <1>6, FullFacts, Zenon
  <2>2. QED
    BY <1>2, <1>3, <1>6, <2>1 DEF AlwaysTrue
<1>7. QED
  BY <1>3, <1>4, <1>5, <1>6

LEMMA MeaningFacts ==
  ASSUME NEW t \in Sound
  PROVE  /\ Everything(t) => \A x : Means(t, x)
         /\ Nothing(t) => \A x : ~Means(t, x)
         /\ ~(Everything(t) /\ Nothing(t))
<1> DEFINE r == ItemOf(t)
<1>1. /\ Canonical(r) /\ (AlwaysTrue(r) <=> Everything(t)) /\ (AlwaysFalse(r) <=> Nothing(t))
      /\ \A x : MatchesItem(r, x) <=> Means(t, x)
  BY ItemFacts, Zenon DEF ItemMeaning
<1> HIDE DEF r
<1>2. \A x : MatchesItem(Always(TRUE), x) /\ ~MatchesItem(Always(FALSE), x)
  BY AlwaysFacts DEF MatchesItem, MatchesList, MatchesPattern
<1>3. QED
  BY <1>1, <1>2, CanonicalFacts

LEMMA ItemsFacts ==
  ASSUME NEW r \in Items
  PROVE  /\ Canonical(r) /\ SimplifyItem(r) = r
         /\ r.is = "list" => FlatList(r, Items)
<1>1. Always(TRUE) \in Items /\ \A t \in Naked : /\ SimplifyPattern(OnObject(t)) \in Items
                                                 /\ SimplifyPattern(WithObject(t)) \in Items
  BY DEF Items
<1>2. CASE r = Always(TRUE)
  <2>1. Flat(r)
    BY <1>2, AlwaysFacts DEF Flat, SimplifyPattern
  <2>2. QED
    BY <2>1, FlatFacts DEF Flat
<1>3. CASE \E t \in Sound : r = ItemOf(t)
  <2>1. PICK t \in Sound : r = ItemOf(t)
    BY <1>3
  <2>2. t \in Patterns /\ Definite(t) /\ t.of \in {"empty", "naked", "full"}
    BY DEF Sound, Patterns, Empty
  <2>3. Canonical(r) /\ SimplifyItem(r) = r
    BY <2>1, ItemFacts DEF ItemMeaning
  <2>4. r.is = "list" => FlatList(r, Items)
    <3>1. CASE t.of = "empty"
      BY <2>1, <2>2, <3>1, EmptyFacts, AlwaysFacts
    <3>2. CASE t.of = "full"
      BY <2>1, <2>2, <3>2, FullFacts DEF Flat
    <3>3. CASE t.of = "naked"
      <4> DEFINE E == {SimplifyPattern(OnObject(t)), SimplifyPattern(WithObject(t)), Always(TRUE)}
      <4>1. r.is = "list" => FlatList(r, E)
        BY <2>1, <2>2, <3>3, NakedFacts, Zenon
      <4>2. E \subseteq Items
        BY <1>1, <2>2, <3>3 DEF Naked
      <4> HIDE DEF E
      <4>3. r.positive \in Seq(E) => r.positive \in Seq(Items)
        BY <4>2
      <4>4. QED
        BY <4>1, <4>3 DEF FlatList
    <3>4. QED
      BY <2>2, <3>1, <3>2, <3>3
  <2>5. QED
    BY <2>3, <2>4
<1>4. CASE \E t \in Naked : r = SimplifyPattern(OnObject(t)) \/ r = SimplifyPattern(WithObject(t))
  <2>1. PICK t \in Naked : r = SimplifyPattern(OnObject(t)) \/ r = SimplifyPattern(WithObject(t))
    BY <1>4
  <2>2. Flat(SimplifyPattern(OnObject(t))) /\ Flat(SimplifyPattern(WithObject(t)))
    BY NakedFacts DEF Naked
  <2>3. Flat(r)
    BY <2>1, <2>2
  <2>4. QED
    BY <2>3, FlatFacts DEF Flat
<1>5. QED
  BY <1>2, <1>3, <1>4 DEF Items

LEMMA ConstantItems ==
  /\ Always(TRUE) \in Items
  /\ SimplifyItem(Always(TRUE)) = Always(TRUE)
  /\ \A x : MatchesItem(Always(TRUE), x) /\ ~MatchesItem(Always(FALSE), x)
<1>1. Always(TRUE) \in Items
  BY DEF Items
<1>2. SimplifyItem(Always(TRUE)) = Always(TRUE)
  BY AlwaysFacts DEF SimplifyItem, SimplifyList, SimplifyPattern
<1>3. \A x : MatchesItem(Always(TRUE), x) /\ ~MatchesItem(Always(FALSE), x)
  BY AlwaysFacts DEF MatchesItem, MatchesList, MatchesPattern
<1>4. QED
  BY <1>1, <1>2, <1>3

(* The items of sequences as sets.                                            *)
LEMMA InFacts ==
  ASSUME NEW E, NEW s \in Seq(E)
  PROVE  /\ In(s) \subseteq E
         /\ s \in Seq(In(s))
         /\ s = <<>> <=> In(s) = {}
         /\ SomeTrue(s) <=> \E e \in In(s) : AlwaysTrue(e)
         /\ AllFalse(s) <=> \A e \in In(s) : AlwaysFalse(e)
<1>1. (s = <<>> <=> DOMAIN s = {}) /\ \A i \in DOMAIN s : s[i] \in E
  BY SequenceFacts
<1>2. In(s) \subseteq E /\ (In(s) = {} <=> DOMAIN s = {})
  BY <1>1 DEF In
<1>3. s \in Seq(In(s))
  <2>1. DOMAIN s = 1..Len(s) /\ Len(s) \in Nat /\ s = [i \in 1..Len(s) |-> s[i]]
    OBVIOUS
  <2>2. \A i \in 1..Len(s) : s[i] \in In(s)
    BY <2>1 DEF In
  <2>3. QED
    BY <2>1, <2>2
<1>4. SomeTrue(s) <=> \E e \in In(s) : AlwaysTrue(e)
  BY DEF SomeTrue, In
<1>5. AllFalse(s) <=> \A e \in In(s) : AlwaysFalse(e)
  BY DEF AllFalse, In
<1>6. QED
  BY <1>1, <1>2, <1>3, <1>4, <1>5

LEMMA InSelected ==
  ASSUME NEW E, NEW s \in Seq(E)
  PROVE  /\ In(NotNever(s)) = {e \in In(s) : ~AlwaysFalse(e)}
         /\ NotAnything(s) \in Seq(E)
         /\ In(NotAnything(s)) = {e \in In(s) : ~AlwaysTrue(e)}
<1>1. In(NotNever(s)) = {e \in In(s) : ~AlwaysFalse(e)}
  <2> DEFINE ms == NotNever(s)
  <2>1. /\ \A k \in DOMAIN ms : ~AlwaysFalse(ms[k]) /\ \E n \in DOMAIN s : s[n] = ms[k]
        /\ \A n \in DOMAIN s : ~AlwaysFalse(s[n]) => \E k \in DOMAIN ms : ms[k] = s[n]
    BY NotNeverFacts
  <2> HIDE DEF ms
  <2>2. QED
    BY <2>1 DEF In, ms
<1> DEFINE P == {i \in DOMAIN s : ~AlwaysTrue(s[i])}
<1>2. NotAnything(s) = Selected(s, P)
  BY Zenon DEF NotAnything
<1>3. \A n : n \in P <=> n \in DOMAIN s /\ ~AlwaysTrue(s[n])
  OBVIOUS
<1> HIDE DEF P
<1> DEFINE ms == Selected(s, P)
<1>4. /\ ms \in Seq(E)
      /\ \A k \in DOMAIN ms : \E n \in DOMAIN s : n \in P /\ s[n] = ms[k]
      /\ \A n \in DOMAIN s : n \in P => \E k \in DOMAIN ms : ms[k] = s[n]
  BY SelectedElements, SelectedType
<1> HIDE DEF ms
<1>5. In(ms) = {e \in In(s) : ~AlwaysTrue(e)}
  BY <1>3, <1>4 DEF In
<1>6. QED
  BY <1>1, <1>2, <1>4, <1>5 DEF ms

LEMMA InJoined ==
  ASSUME NEW E, NEW s \in Seq(E), NEW t \in Seq(E)
  PROVE  s \o t \in Seq(E) /\ In(s \o t) = In(s) \cup In(t)
<1> DEFINE u == s \o t
<1>1. /\ u \in Seq(E) /\ Len(u) = Len(s) + Len(t) /\ Len(s) \in Nat /\ Len(t) \in Nat
      /\ \A i \in 1..Len(s) : u[i] = s[i]
      /\ \A i \in 1..Len(t) : u[Len(s) + i] = t[i]
      /\ \A i \in 1..Len(u) : u[i] = IF i <= Len(s) THEN s[i] ELSE t[i - Len(s)]
  OBVIOUS
<1>2. DOMAIN u = 1..Len(u) /\ DOMAIN s = 1..Len(s) /\ DOMAIN t = 1..Len(t)
  OBVIOUS
<1> HIDE DEF u
<1>3. ASSUME NEW e \in In(u) PROVE e \in In(s) \cup In(t)
  <2>1. PICK i \in 1..Len(u) : e = u[i]
    BY <1>2 DEF In
  <2>2. CASE i <= Len(s)
    <3>1. i \in 1..Len(s) /\ e = s[i]
      BY <1>1, <2>1, <2>2
    <3>2. QED
      BY <1>2, <3>1 DEF In
  <2>3. CASE ~(i <= Len(s))
    <3>1. i - Len(s) \in 1..Len(t) /\ e = t[i - Len(s)]
      BY <1>1, <2>1, <2>3
    <3>2. QED
      BY <1>2, <3>1 DEF In
  <2>4. QED
    BY <2>2, <2>3
<1>4. ASSUME NEW e \in In(s) PROVE e \in In(u)
  <2>1. PICK i \in 1..Len(s) : e = s[i]
    BY <1>2 DEF In
  <2>2. i \in 1..Len(u) /\ e = u[i]
    BY <1>1, <2>1
  <2>3. QED
    BY <1>2, <2>2 DEF In
<1>5. ASSUME NEW e \in In(t) PROVE e \in In(u)
  <2>1. PICK i \in 1..Len(t) : e = t[i]
    BY <1>2 DEF In
  <2>2. Len(s) + i \in 1..Len(u) /\ e = u[Len(s) + i]
    BY <1>1, <2>1
  <2>3. QED
    BY <1>2, <2>2 DEF In
<1>6. QED
  BY <1>1, <1>3, <1>4, <1>5 DEF u

(* Filters are sets of patterns, none of the wanted ones everything.          *)
Filters == {f \in [only : SUBSET Sound, but : SUBSET Sound] : \A p \in f.only : ~Everything(p)}

(* Matchers of what is shown (X) and of what is not (Y) say what filter f     *)
(* says: they match the same messages, and what comes down to everything or   *)
(* nothing does so on both sides.                                             *)
Says(X, Y, f) ==
  /\ \A x : (\E e \in X : MatchesItem(e, x)) <=> f.only = {} \/ \E p \in f.only : Means(p, x)
  /\ \A x : (\E e \in Y : MatchesItem(e, x)) <=> \E n \in f.but : Means(n, x)
  /\ (\E e \in X : AlwaysTrue(e)) <=> f.only = {}
  /\ (\A e \in X : AlwaysFalse(e)) <=> f.only # {} /\ \A p \in f.only : Nothing(p)
  /\ (\E e \in Y : AlwaysTrue(e)) <=> \E n \in f.but : Everything(n)
  /\ (\A e \in Y : AlwaysFalse(e)) <=> f.but = {}

(* The display matcher that stands for a filter: one that always or never     *)
(* matches only for a trivial filter, and otherwise one whose two lists say   *)
(* what the filter says.                                                      *)
Shown(d, f) ==
  \/ d = Always(TRUE) /\ f = NoFilter
  \/ d = Always(FALSE) /\ Trivial(f) /\ f # NoFilter
  \/ /\ ~IsAlways(d) /\ ~Trivial(f)
     /\ AsList(d).positive \in Seq(Items) /\ AsList(d).negative \in Seq(Items)
     /\ Says(In(AsList(d).positive), In(AsList(d).negative), f)
     /\ f.only = {} => In(AsList(d).positive) = {Always(TRUE)}
     /\ \A x : Matches(d, x) <=> /\ \E e \in In(AsList(d).positive) : MatchesItem(e, x)
                                 /\ \A e \in In(AsList(d).negative) : ~MatchesItem(e, x)

LEMMA AsListFacts ==
  ASSUME NEW d
  PROVE  /\ d.is # "list" => AsList(d).positive = <<d>> /\ AsList(d).negative = <<>>
         /\ d.is = "list" => AsList(d) = d
BY DEF AsList, MatcherList

LEMMA OneFacts ==
  ASSUME NEW E, NEW e \in E
  PROVE  /\ <<e>> \in Seq(E) /\ In(<<e>>) = {e} /\ DOMAIN <<e>> = {1} /\ <<e>>[1] = e
         /\ <<>> \in Seq(E) /\ In(<<>>) = {}
<1>1. <<e>> \in Seq(E) /\ DOMAIN <<e>> = {1} /\ <<e>>[1] = e
  OBVIOUS
<1>2. <<>> \in Seq(E) /\ DOMAIN <<>> = {}
  OBVIOUS
<1>3. In(<<e>>) = {e}
  BY <1>1 DEF In
<1>4. In(<<>>) = {}
  BY <1>2 DEF In
<1>5. QED
  BY <1>1, <1>2, <1>3, <1>4

(* A matcher that matches as its two lists do.                                *)
LEMMA MatchesAsList ==
  ASSUME NEW d, NEW x
  PROVE  Matches(d, x) <=> /\ \E e \in In(AsList(d).positive) : MatchesItem(e, x)
                           /\ \A e \in In(AsList(d).negative) : ~MatchesItem(e, x)
<1>1. CASE d.is = "list"
  <2>1. AsList(d) = d
    BY <1>1, AsListFacts
  <2> DEFINE p == d.positive
             n == d.negative
  <2>2. Matches(d, x) <=> /\ \E i \in DOMAIN p : MatchesItem(p[i], x)
                          /\ \A i \in DOMAIN n : ~MatchesItem(n[i], x)
    BY <1>1, Zenon DEF Matches, MatchesList
  <2>3. (\E e \in In(p) : MatchesItem(e, x)) <=> \E i \in DOMAIN p : MatchesItem(p[i], x)
    BY DEF In
  <2>4. (\A e \in In(n) : ~MatchesItem(e, x)) <=> \A i \in DOMAIN n : ~MatchesItem(n[i], x)
    BY DEF In
  <2>5. QED
    BY <2>1, <2>2, <2>3, <2>4, Zenon
<1>2. CASE d.is # "list"
  <2>1. In(AsList(d).positive) = {d} /\ In(AsList(d).negative) = {}
    BY <1>2, AsListFacts, OneFacts
  <2>2. Matches(d, x) <=> MatchesItem(d, x)
    BY <1>2 DEF Matches, MatchesList
  <2>3. QED
    BY <2>1, <2>2
<1>3. QED
  BY <1>1, <1>2

LEMMA SimplifiedShown ==
  ASSUME NEW P \in Seq(Items), NEW N \in Seq(Items), NEW f \in Filters, Says(In(P), In(N), f)
  PROVE  Shown(SimplerList(P, N), f)
<1> DEFINE d == SimplerList(P, N)
           pos == SimplerPositive(P)
           neg == NotNever(N)
           l == AsList(d)
<1>1. Always(TRUE) \in Items /\ \A e \in Items : Canonical(e)
  BY ConstantItems, ItemsFacts
<1>2. /\ In(P) \subseteq Items /\ In(N) \subseteq Items
      /\ SomeTrue(P) <=> \E e \in In(P) : AlwaysTrue(e)
      /\ AllFalse(P) <=> \A e \in In(P) : AlwaysFalse(e)
      /\ SomeTrue(N) <=> \E e \in In(N) : AlwaysTrue(e)
      /\ AllFalse(N) <=> \A e \in In(N) : AlwaysFalse(e)
  BY InFacts
<1>3. /\ Canonical(d)
      /\ AlwaysTrue(d) <=> SomeTrue(P) /\ AllFalse(N)
      /\ AlwaysFalse(d) <=> SomeTrue(N) \/ AllFalse(P)
  <2>1. LET r == SimplerList(P, N)
        IN /\ Canonical(r)
           /\ AlwaysTrue(r) <=> SomeTrue(P) /\ AllFalse(N)
           /\ AlwaysFalse(r) <=> SomeTrue(N) \/ AllFalse(P)
    BY <1>1, SimplerListFacts
  <2>2. QED
    BY <2>1, Zenon
<1>4. /\ pos \in Seq(Items) /\ neg \in Seq(Items)
      /\ \/ d = Always(FALSE)
         \/ d \in Items /\ pos = <<d>> /\ neg = <<>>
         \/ /\ d.is = "list" /\ d = MatcherList(pos, neg) /\ d.positive = pos /\ d.negative = neg
            /\ ~(SomeTrue(P) /\ neg = <<>>)
  BY <1>1, SimplerListParts, Zenon
<1>5. In(pos) = IF SomeTrue(P) THEN {Always(TRUE)} ELSE {e \in In(P) : ~AlwaysFalse(e)}
  <2>1. CASE SomeTrue(P)
    <3>1. pos = <<Always(TRUE)>>
      BY <1>1, <2>1, SimplerPositiveFacts
    <3> HIDE DEF pos
    <3>2. In(<<Always(TRUE)>>) = {Always(TRUE)}
      BY OneFacts
    <3>3. QED
      BY <2>1, <3>1, <3>2
  <2>2. CASE ~SomeTrue(P)
    <3>1. pos = NotNever(P)
      BY <2>2, Zenon DEF SimplerPositive
    <3> HIDE DEF pos
    <3>2. QED
      BY <2>2, <3>1, InSelected
  <2>3. QED
    BY <2>1, <2>2
<1>6. In(neg) = {e \in In(N) : ~AlwaysFalse(e)}
  BY InSelected
<1> HIDE DEF d, pos, neg
<1>7. f = [only |-> f.only, but |-> f.but] /\ (f = NoFilter <=> f.only = {} /\ f.but = {})
  <2>1. f = [only |-> f.only, but |-> f.but]
    BY DEF Filters
  <2>2. f = NoFilter => f.only = {} /\ f.but = {}
    BY DEF NoFilter
  <2>3. f.only = {} /\ f.but = {} => f = NoFilter
    BY <2>1 DEF NoFilter
  <2>4. QED
    BY <2>1, <2>2, <2>3
<1>8. /\ AlwaysTrue(d) <=> f = NoFilter
      /\ AlwaysFalse(d) <=> \/ \E n \in f.but : Everything(n)
                            \/ f.only # {} /\ \A p \in f.only : Nothing(p)
  BY <1>2, <1>3, <1>7 DEF Says
<1>9. CASE AlwaysTrue(d)
  BY <1>3, <1>8, <1>9, CanonicalFacts DEF Shown, d
<1>10. CASE AlwaysFalse(d)
  <2>1. d = Always(FALSE)
    BY <1>3, <1>10, CanonicalFacts
  <2>2. Trivial(f)
    BY <1>8, <1>10 DEF Trivial
  <2>3. f # NoFilter
    BY <1>8, <2>1, AlwaysFacts
  <2>4. QED
    BY <2>1, <2>2, <2>3 DEF Shown, d
<1>11. CASE ~AlwaysTrue(d) /\ ~AlwaysFalse(d)
  <2>1. ~IsAlways(d) /\ ~Trivial(f)
    BY <1>8, <1>11 DEF IsAlways, AlwaysTrue, AlwaysFalse, Trivial
  <2>2. ~AllFalse(P) /\ ~SomeTrue(N)
    BY <1>3, <1>11
  <2>3. \A e \in Items : AlwaysFalse(e) => \A x : ~MatchesItem(e, x)
    BY <1>1, CanonicalFacts, ConstantItems
  <2>4. \A e \in Items : AlwaysTrue(e) => e = Always(TRUE)
    BY <1>1, CanonicalFacts
  <2>5. \A x : (\E e \in In(pos) : MatchesItem(e, x)) <=> \E e \in In(P) : MatchesItem(e, x)
    <3>1. CASE SomeTrue(P)
      <4>1. Always(TRUE) \in In(P)
        BY <1>2, <2>4, <3>1
      <4>2. In(pos) = {Always(TRUE)}
        BY <1>5, <3>1
      <4>3. QED
        BY <4>1, <4>2, ConstantItems
    <3>2. CASE ~SomeTrue(P)
      BY <1>2, <1>5, <2>3, <3>2
    <3>3. QED
      BY <3>1, <3>2
  <2>6. \A x : (\E e \in In(neg) : MatchesItem(e, x)) <=> \E e \in In(N) : MatchesItem(e, x)
    BY <1>2, <1>6, <2>3
  <2>7. /\ (\E e \in In(pos) : AlwaysTrue(e)) <=> SomeTrue(P)
        /\ (\A e \in In(pos) : AlwaysFalse(e)) <=> AllFalse(P)
    <3>1. CASE SomeTrue(P)
      <4>1. In(pos) = {Always(TRUE)}
        BY <1>5, <3>1
      <4>2. QED
        BY <2>2, <3>1, <4>1, AlwaysFacts
    <3>2. CASE ~SomeTrue(P)
      BY <1>2, <1>5, <3>2
    <3>3. QED
      BY <3>1, <3>2
  <2>8. /\ (\E e \in In(neg) : AlwaysTrue(e)) <=> SomeTrue(N)
        /\ (\A e \in In(neg) : AlwaysFalse(e)) <=> AllFalse(N)
    <3>1. (\E e \in In(neg) : AlwaysTrue(e)) <=> SomeTrue(N)
      BY <1>2, <1>6, <1>1, CanonicalFacts
    <3>2. (\A e \in In(neg) : AlwaysFalse(e)) <=> AllFalse(N)
      BY <1>2, <1>6
    <3>3. QED
      BY <3>1, <3>2
  <2>9. Says(In(pos), In(neg), f)
    BY <1>2, <2>5, <2>6, <2>7, <2>8 DEF Says
  <2>10. f.only = {} => In(pos) = {Always(TRUE)}
    BY <1>2, <1>5 DEF Says
  <2>11. SUFFICES /\ l.positive \in Seq(Items) /\ l.negative \in Seq(Items)
                  /\ Says(In(l.positive), In(l.negative), f)
                  /\ f.only = {} => In(l.positive) = {Always(TRUE)}
    BY <2>1, MatchesAsList DEF Shown, d
  <2>12. CASE d.is = "list" /\ d.positive = pos /\ d.negative = neg
    <3>1. l = d
      BY <2>12, AsListFacts
    <3>2. QED
      BY <1>4, <2>9, <2>10, <2>12, <3>1
  <2>13. CASE d \in Items /\ pos = <<d>> /\ neg = <<>> /\ d.is # "list"
    <3>1. l.positive = pos /\ l.negative = neg
      BY <2>13, AsListFacts
    <3>2. QED
      BY <1>4, <2>9, <2>10, <3>1
  <2>14. CASE d \in Items /\ pos = <<d>> /\ neg = <<>> /\ d.is = "list"
    <3> DEFINE q == d.positive
    <3>1. /\ l = d /\ q \in Seq(Items) /\ d.negative = <<>> /\ DOMAIN q # {}
          /\ \A k \in DOMAIN q : ~IsAlways(q[k])
          /\ \A x : MatchesItem(d, x) <=> \E k \in DOMAIN q : MatchesItem(q[k], x)
      BY <2>14, AsListFacts, ItemsFacts DEF FlatList
    <3>2. In(pos) = {d} /\ In(neg) = {} /\ <<>> \in Seq(Items)
      BY <2>14, OneFacts
    <3> HIDE DEF q
    <3>3. /\ In(q) # {} /\ \A e \in In(q) : ~AlwaysTrue(e) /\ ~AlwaysFalse(e)
          /\ \A x : MatchesItem(d, x) <=> \E e \in In(q) : MatchesItem(e, x)
      BY <3>1 DEF In, AlwaysTrue, AlwaysFalse
    <3>4. f.only # {}
      BY <1>11, <2>9, <3>2 DEF Says
    <3>5. Says(In(q), {}, f)
      BY <1>11, <2>9, <3>2, <3>3 DEF Says
    <3>6. QED
      BY <2>14, <3>1, <3>2, <3>4, <3>5 DEF q
  <2>15. QED
    BY <1>4, <1>11, <2>12, <2>13, <2>14, AlwaysFacts
<1>12. QED
  BY <1>9, <1>10, <1>11

(* What TextsAssumption says of a text.                                       *)
GoodText(t) ==
  /\ t \in ListsOf(Patterns)
  /\ t.pos # <<Empty>> \/ t.neg # <<>>
  /\ \A i, j \in DOMAIN t.pos : t.pos[i] = Empty => t.pos[j] = Empty
  /\ \A i \in DOMAIN t.pos : Definite(t.pos[i])
  /\ \A i \in DOMAIN t.neg : Definite(t.neg[i])

LEMMA TextParts ==
  ASSUME NEW t, GoodText(t)
  PROVE  /\ t.of = "list" /\ t.pos \in Seq(Sound) /\ t.neg \in Seq(Sound)
         /\ t.pos # <<>> /\ DOMAIN t.pos # {} /\ In(t.pos) # {}
         /\ In(t.pos) \subseteq Sound /\ In(t.neg) \subseteq Sound
         /\ Empty \in In(t.pos) => In(t.pos) = {Empty}
         /\ \A p \in Sound : p.of = "empty" <=> p = Empty
<1>1. t.of = "list" /\ t.pos \in Seq(Patterns) /\ t.pos # <<>> /\ t.neg \in Seq(Patterns)
  BY DEF GoodText, ListsOf
<1>2. (\A i \in DOMAIN t.pos : t.pos[i] \in Sound) /\ (\A i \in DOMAIN t.neg : t.neg[i] \in Sound)
  BY <1>1, SequenceFacts DEF GoodText, Sound
<1>3. t.pos \in Seq(Sound) /\ t.neg \in Seq(Sound)
  <2>1. DOMAIN t.pos = 1..Len(t.pos) /\ Len(t.pos) \in Nat /\ t.pos = [i \in 1..Len(t.pos) |-> t.pos[i]]
    BY <1>1
  <2>2. DOMAIN t.neg = 1..Len(t.neg) /\ Len(t.neg) \in Nat /\ t.neg = [i \in 1..Len(t.neg) |-> t.neg[i]]
    BY <1>1
  <2>3. t.pos \in Seq(Sound)
    BY <1>2, <2>1
  <2>4. t.neg \in Seq(Sound)
    BY <1>2, <2>2
  <2>5. QED
    BY <2>3, <2>4
<1>4. DOMAIN t.pos # {} /\ In(t.pos) # {}
  <2>1. DOMAIN t.pos # {}
    BY <1>1, SequenceFacts
  <2>2. QED
    BY <2>1 DEF In
<1>5. In(t.pos) \subseteq Sound /\ In(t.neg) \subseteq Sound
  BY <1>2 DEF In
<1>6. Empty \in In(t.pos) => In(t.pos) = {Empty}
  BY DEF GoodText, In
<1>7. \A p \in Sound : p.of = "empty" <=> p = Empty
  BY DEF Sound, Patterns, Empty
<1>8. QED
  BY <1>1, <1>3, <1>4, <1>5, <1>6, <1>7

(* Matchers X and Y match what the two sides of a text mean.                  *)
Reads(X, Y, t) ==
  /\ X \subseteq Items /\ Y \subseteq Items /\ X # {}
  /\ \A x : (\E e \in X : MatchesItem(e, x)) <=> \E p \in In(t.pos) : Means(p, x)
  /\ \A x : (\E e \in Y : MatchesItem(e, x)) <=> \E n \in In(t.neg) : Means(n, x)
  /\ (\E e \in X : AlwaysTrue(e)) <=> \E p \in In(t.pos) : Everything(p)
  /\ (\A e \in X : AlwaysFalse(e)) <=> \A p \in In(t.pos) : Nothing(p)
  /\ (\E e \in Y : AlwaysTrue(e)) <=> \E n \in In(t.neg) : Everything(n)
  /\ (\A e \in Y : AlwaysFalse(e)) <=> \A n \in In(t.neg) : Nothing(n)

LEMMA ItemsRead ==
  ASSUME NEW t, GoodText(t)
  PROVE  Reads({ItemOf(p) : p \in In(t.pos)}, {ItemOf(n) : n \in In(t.neg)}, t)
<1> DEFINE X == {ItemOf(p) : p \in In(t.pos)}
           Y == {ItemOf(n) : n \in In(t.neg)}
<1>1. In(t.pos) # {} /\ In(t.pos) \subseteq Sound /\ In(t.neg) \subseteq Sound
  BY TextParts
<1>2. \A p \in Sound : /\ ItemOf(p) \in Items
                       /\ AlwaysTrue(ItemOf(p)) <=> Everything(p)
                       /\ AlwaysFalse(ItemOf(p)) <=> Nothing(p)
  BY ItemFacts DEF ItemMeaning
<1>3. \A p \in Sound : \A x : MatchesItem(ItemOf(p), x) <=> Means(p, x)
  BY ItemFacts DEF ItemMeaning
<1>4. /\ \A p \in In(t.pos) : ItemOf(p) \in X
      /\ \A e \in X : \E p \in In(t.pos) : e = ItemOf(p)
      /\ \A n \in In(t.neg) : ItemOf(n) \in Y
      /\ \A e \in Y : \E n \in In(t.neg) : e = ItemOf(n)
  OBVIOUS
<1> HIDE DEF X, Y
<1>5. X \subseteq Items /\ Y \subseteq Items /\ X # {}
  BY <1>1, <1>2, <1>4
<1>6. /\ \A x : (\E e \in X : MatchesItem(e, x)) <=> \E p \in In(t.pos) : Means(p, x)
      /\ \A x : (\E e \in Y : MatchesItem(e, x)) <=> \E n \in In(t.neg) : Means(n, x)
  BY <1>1, <1>3, <1>4
<1>7. /\ (\E e \in X : AlwaysTrue(e)) <=> \E p \in In(t.pos) : Everything(p)
      /\ (\A e \in X : AlwaysFalse(e)) <=> \A p \in In(t.pos) : Nothing(p)
  BY <1>1, <1>2, <1>4
<1>8. /\ (\E e \in Y : AlwaysTrue(e)) <=> \E n \in In(t.neg) : Everything(n)
      /\ (\A e \in Y : AlwaysFalse(e)) <=> \A n \in In(t.neg) : Nothing(n)
  BY <1>1, <1>2, <1>4
<1>9. QED
  BY <1>5, <1>6, <1>7, <1>8 DEF Reads, X, Y

LEMMA ExtendedFacts ==
  ASSUME NEW f \in Filters, NEW t, GoodText(t)
  PROVE  LET g == Extended(f, t)
             old == IF Trivial(f) THEN NoFilter ELSE f
             new == IF Empty \in In(t.pos) THEN {} ELSE In(t.pos)
             only == old.only \cup new
         IN /\ g \in Filters
            /\ g.but = old.but \cup {n \in In(t.neg) : ~Nothing(n)}
            /\ g.only = IF \E p \in only : Everything(p) THEN {} ELSE only
            /\ NoFilter.only = {} /\ NoFilter.but = {} /\ NoFilter \in Filters
<1> DEFINE old == IF Trivial(f) THEN NoFilter ELSE f
           new == IF Empty \in In(t.pos) THEN {} ELSE In(t.pos)
           only == old.only \cup new
           but == old.but \cup {n \in In(t.neg) : ~Nothing(n)}
           g == [only |-> IF \E p \in only : Everything(p) THEN {} ELSE only, but |-> but]
<1>1. /\ In(t.pos) \subseteq Sound /\ In(t.neg) \subseteq Sound
      /\ Empty \in In(t.pos) => In(t.pos) = {Empty}
      /\ \A p \in Sound : p.of = "empty" <=> p = Empty
  BY TextParts
<1>2. new = {p \in In(t.pos) : p.of # "empty"}
  BY <1>1
<1>3. Extended(f, t) = g
  <2>1. Extended(f, t) =
          LET o == IF Trivial(f) THEN NoFilter ELSE f
              pos == In(t.pos)
              neg == In(t.neg)
              on == o.only \cup {p \in pos : p.of # "empty"}
          IN [only |-> IF \E p \in on : Everything(p) THEN {} ELSE on,
              but |-> o.but \cup {n \in neg : ~Nothing(n)}]
    BY Zenon DEF Extended, In
  <2> HIDE DEF new
  <2>2. QED
    BY <1>2, <2>1, Zenon
<1>4. NoFilter.only = {} /\ NoFilter.but = {} /\ NoFilter \in Filters
  BY DEF NoFilter, Filters
<1>5. f.only \subseteq Sound /\ f.but \subseteq Sound
  BY DEF Filters
<1>6. only \subseteq Sound /\ but \subseteq Sound
  <2>1. old.only \subseteq Sound /\ old.but \subseteq Sound
    BY <1>4, <1>5
  <2> HIDE DEF old
  <2>2. QED
    BY <1>1, <2>1
<1> HIDE DEF only, but
<1>7. g.only = (IF \E p \in only : Everything(p) THEN {} ELSE only) /\ g.but = but
  OBVIOUS
<1>8. g \in Filters
  <2>1. g \in [only : SUBSET Sound, but : SUBSET Sound]
    BY <1>6
  <2>2. \A p \in g.only : ~Everything(p)
    BY <1>7
  <2> HIDE DEF g
  <2>3. QED
    BY <2>1, <2>2 DEF Filters
<1>9. QED
  BY <1>3, <1>4, <1>7, <1>8, Zenon DEF only, but

LEMMA EmptyMeans ==
  Everything(Empty) /\ ~Nothing(Empty) /\ \A x : Means(Empty, x)
BY DEF Everything, Nothing, Means, Empty

(* What the parsed lists say when there is no filter to join them to.         *)
LEMMA FreshSays ==
  ASSUME NEW f \in Filters, Trivial(f), NEW t, GoodText(t), NEW X, NEW Y, Reads(X, Y, t)
  PROVE  Says(X, Y, Extended(f, t))
<1> DEFINE g == Extended(f, t)
           new == IF Empty \in In(t.pos) THEN {} ELSE In(t.pos)
<1>1. /\ In(t.pos) # {} /\ In(t.pos) \subseteq Sound /\ In(t.neg) \subseteq Sound
      /\ Empty \in In(t.pos) => In(t.pos) = {Empty}
  BY TextParts
<1>2. /\ g.but = {n \in In(t.neg) : ~Nothing(n)}
      /\ g.only = IF \E p \in new : Everything(p) THEN {} ELSE new
  <2> DEFINE old == IF Trivial(f) THEN NoFilter ELSE f
             only == old.only \cup new
  <2>1. /\ g.but = old.but \cup {n \in In(t.neg) : ~Nothing(n)}
        /\ g.only = IF \E p \in only : Everything(p) THEN {} ELSE only
        /\ NoFilter.only = {} /\ NoFilter.but = {}
    BY ExtendedFacts, Zenon
  <2>2. old = NoFilter
    OBVIOUS
  <2> HIDE DEF g, new, old
  <2>3. only = new /\ old.but = {}
    BY <2>1, <2>2
  <2> HIDE DEF only
  <2>4. QED
    BY <2>1, <2>3
<1> HIDE DEF g
<1>3. \A p \in Sound : /\ Everything(p) => \A x : Means(p, x)
                       /\ Nothing(p) => \A x : ~Means(p, x)
                       /\ ~(Everything(p) /\ Nothing(p))
  BY MeaningFacts
<1>4. g.only = {} <=> \E p \in In(t.pos) : Everything(p)
  BY <1>1, <1>2, EmptyMeans
<1>5. g.only # {} => g.only = In(t.pos)
  BY <1>1, <1>2
<1>6. \A x : (\E e \in X : MatchesItem(e, x)) <=> g.only = {} \/ \E p \in g.only : Means(p, x)
  BY <1>1, <1>3, <1>4, <1>5 DEF Reads
<1>7. \A x : (\E e \in Y : MatchesItem(e, x)) <=> \E n \in g.but : Means(n, x)
  BY <1>1, <1>2, <1>3 DEF Reads
<1>8. (\E e \in X : AlwaysTrue(e)) <=> g.only = {}
  BY <1>4 DEF Reads
<1>9. (\A e \in X : AlwaysFalse(e)) <=> g.only # {} /\ \A p \in g.only : Nothing(p)
  BY <1>1, <1>3, <1>4, <1>5 DEF Reads
<1>10. /\ (\E e \in Y : AlwaysTrue(e)) <=> \E n \in g.but : Everything(n)
       /\ (\A e \in Y : AlwaysFalse(e)) <=> g.but = {}
  BY <1>1, <1>2, <1>3 DEF Reads
<1>11. QED
  BY <1>6, <1>7, <1>8, <1>9, <1>10 DEF Says, g

(* What they say together with those of before.                               *)
JoinedWanted(X, old, f, t) ==
  LET U == (IF Empty \in In(t.pos) THEN {} ELSE X) \cup (IF f.only = {} THEN {} ELSE old)
  IN IF U = {} THEN {Always(TRUE)} ELSE U

LEMMA JoinedSays ==
  ASSUME NEW f \in Filters, ~Trivial(f), NEW t, GoodText(t), NEW X, NEW Y, Reads(X, Y, t),
         NEW X0, NEW Y0, Says(X0, Y0, f)
  PROVE  Says(JoinedWanted(X, X0, f, t), Y \cup Y0, Extended(f, t))
<1> DEFINE g == Extended(f, t)
           new == IF Empty \in In(t.pos) THEN {} ELSE In(t.pos)
           only == f.only \cup new
           U == (IF Empty \in In(t.pos) THEN {} ELSE X) \cup (IF f.only = {} THEN {} ELSE X0)
           W == IF U = {} THEN {Always(TRUE)} ELSE U
<1>1. /\ In(t.pos) # {} /\ In(t.pos) \subseteq Sound /\ In(t.neg) \subseteq Sound
      /\ Empty \in In(t.pos) => In(t.pos) = {Empty}
  BY TextParts
<1>2. /\ g.but = f.but \cup {n \in In(t.neg) : ~Nothing(n)}
      /\ g.only = IF \E p \in only : Everything(p) THEN {} ELSE only
  BY ExtendedFacts
<1> HIDE DEF g
<1>3. \A p \in Sound : /\ Everything(p) => \A x : Means(p, x)
                       /\ Nothing(p) => \A x : ~Means(p, x)
                       /\ ~(Everything(p) /\ Nothing(p))
  BY MeaningFacts
<1>4. /\ f.only \subseteq Sound /\ f.but \subseteq Sound /\ \A p \in f.only : ~Everything(p)
      /\ f = [only |-> f.only, but |-> f.but]
  BY DEF Filters
<1>5. ~(f.only # {} /\ \A p \in f.only : Nothing(p)) /\ ~\E n \in f.but : Everything(n)
  BY DEF Trivial
<1>6. f.only # {} => X0 # {}
  BY <1>5 DEF Says
<1>7. /\ \A x : (\E e \in U : MatchesItem(e, x)) <=> \E p \in only : Means(p, x)
      /\ (\E e \in U : AlwaysTrue(e)) <=> \E p \in only : Everything(p)
      /\ (\A e \in U : AlwaysFalse(e)) <=> \A p \in only : Nothing(p)
      /\ U = {} <=> only = {}
  <2>1. /\ \A x : (\E e \in IF Empty \in In(t.pos) THEN {} ELSE X : MatchesItem(e, x))
                    <=> \E p \in new : Means(p, x)
        /\ (\E e \in IF Empty \in In(t.pos) THEN {} ELSE X : AlwaysTrue(e)) <=> \E p \in new : Everything(p)
        /\ (\A e \in IF Empty \in In(t.pos) THEN {} ELSE X : AlwaysFalse(e)) <=> \A p \in new : Nothing(p)
        /\ (IF Empty \in In(t.pos) THEN {} ELSE X) = {} <=> new = {}
    BY <1>1 DEF Reads
  <2>2. /\ \A x : (\E e \in IF f.only = {} THEN {} ELSE X0 : MatchesItem(e, x))
                    <=> \E p \in f.only : Means(p, x)
        /\ (\E e \in IF f.only = {} THEN {} ELSE X0 : AlwaysTrue(e)) <=> \E p \in f.only : Everything(p)
        /\ (\A e \in IF f.only = {} THEN {} ELSE X0 : AlwaysFalse(e)) <=> \A p \in f.only : Nothing(p)
        /\ (IF f.only = {} THEN {} ELSE X0) = {} <=> f.only = {}
    BY <1>4, <1>6 DEF Says
  <2> DEFINE A == IF Empty \in In(t.pos) THEN {} ELSE X
             B == IF f.only = {} THEN {} ELSE X0
  <2>3. U = A \cup B /\ only = f.only \cup new
    OBVIOUS
  <2> HIDE DEF A, B, U, only, new
  <2>4. /\ \A x : (\E e \in A : MatchesItem(e, x)) <=> \E p \in new : Means(p, x)
        /\ (\E e \in A : AlwaysTrue(e)) <=> \E p \in new : Everything(p)
        /\ (\A e \in A : AlwaysFalse(e)) <=> \A p \in new : Nothing(p)
        /\ A = {} <=> new = {}
    BY <2>1, Zenon DEF A
  <2>5. /\ \A x : (\E e \in B : MatchesItem(e, x)) <=> \E p \in f.only : Means(p, x)
        /\ (\E e \in B : AlwaysTrue(e)) <=> \E p \in f.only : Everything(p)
        /\ (\A e \in B : AlwaysFalse(e)) <=> \A p \in f.only : Nothing(p)
        /\ B = {} <=> f.only = {}
    BY <2>2, Zenon DEF B
  <2>6. \A x : (\E e \in U : MatchesItem(e, x)) <=> \E p \in only : Means(p, x)
    BY <2>3, <2>4, <2>5
  <2>7. /\ (\E e \in U : AlwaysTrue(e)) <=> \E p \in only : Everything(p)
        /\ (\A e \in U : AlwaysFalse(e)) <=> \A p \in only : Nothing(p)
        /\ U = {} <=> only = {}
    BY <2>3, <2>4, <2>5
  <2>8. QED
    BY <2>6, <2>7
<1>8. only \subseteq Sound
  BY <1>1, <1>4
<1> HIDE DEF U, only, new
<1>9. \A x : (\E e \in W : MatchesItem(e, x)) <=> g.only = {} \/ \E p \in g.only : Means(p, x)
  <2>1. CASE only = {}
    BY <1>2, <1>7, <2>1, ConstantItems
  <2>2. CASE only # {} /\ \E p \in only : Everything(p)
    BY <1>2, <1>3, <1>7, <1>8, <2>2
  <2>3. CASE only # {} /\ ~\E p \in only : Everything(p)
    BY <1>2, <1>7, <2>3
  <2>4. QED
    BY <2>1, <2>2, <2>3
<1>10. (\E e \in W : AlwaysTrue(e)) <=> g.only = {}
  <2>1. CASE only = {}
    BY <1>2, <1>7, <2>1, AlwaysFacts
  <2>2. CASE only # {}
    BY <1>2, <1>7, <2>2
  <2>3. QED
    BY <2>1, <2>2
<1>11. (\A e \in W : AlwaysFalse(e)) <=> g.only # {} /\ \A p \in g.only : Nothing(p)
  <2>1. CASE only = {}
    BY <1>2, <1>7, <2>1, AlwaysFacts
  <2>2. CASE only # {}
    BY <1>2, <1>3, <1>7, <1>8, <2>2
  <2>3. QED
    BY <2>1, <2>2
<1>12. \A x : (\E e \in Y \cup Y0 : MatchesItem(e, x)) <=> \E n \in g.but : Means(n, x)
  <2>1. \A x : (\E n \in {k \in In(t.neg) : ~Nothing(k)} : Means(n, x)) <=> \E n \in In(t.neg) : Means(n, x)
    BY <1>1, <1>3
  <2>2. \A x : (\E e \in Y : MatchesItem(e, x)) <=> \E n \in {k \in In(t.neg) : ~Nothing(k)} : Means(n, x)
    BY <2>1 DEF Reads
  <2>3. \A x : (\E e \in Y0 : MatchesItem(e, x)) <=> \E n \in f.but : Means(n, x)
    BY DEF Says
  <2>4. QED
    BY <1>2, <2>2, <2>3
<1>13. (\E e \in Y \cup Y0 : AlwaysTrue(e)) <=> \E n \in g.but : Everything(n)
  BY <1>1, <1>2, <1>3 DEF Reads, Says
<1>14. (\A e \in Y \cup Y0 : AlwaysFalse(e)) <=> g.but = {}
  BY <1>1, <1>2, <1>3 DEF Reads, Says
<1>15. QED
  BY <1>9, <1>10, <1>11, <1>12, <1>13, <1>14, Zenon DEF Says, JoinedWanted, U, g

(* The two lists of a parsed text, and what it simplifies to alone.           *)
LEMMA RawFacts ==
  ASSUME NEW q \in Raw
  PROVE  SimplifyItem(q) \in Items
<1>1. CASE \E t \in Sound : q = PatternMatcher(t)
  BY <1>1 DEF Items, ItemOf
<1>2. CASE \E t \in Naked : q = OnObject(t) \/ q = WithObject(t)
  <2>1. PICK t \in Naked : q = OnObject(t) \/ q = WithObject(t)
    BY <1>2
  <2>2. OnObject(t).is # "list" /\ WithObject(t).is # "list"
    BY NakedFacts DEF Naked
  <2>3. SimplifyItem(q) = SimplifyPattern(q)
    BY <2>1, <2>2 DEF SimplifyItem, SimplifyList
  <2>4. QED
    BY <2>1, <2>3 DEF Items
<1>3. QED
  BY <1>1, <1>2 DEF Raw

LEMMA MapIn ==
  ASSUME NEW E, NEW s \in Seq(E), \A e \in E : SimplifyItem(e) \in Items
  PROVE  LET f == [i \in DOMAIN s |-> SimplifyItem(s[i])]
         IN f \in Seq(Items) /\ In(f) = {SimplifyItem(e) : e \in In(s)}
<1> DEFINE f == [i \in DOMAIN s |-> SimplifyItem(s[i])]
<1>1. \A i \in DOMAIN s : f[i] \in Items
  BY SequenceFacts
<1>2. f \in Seq(Items)
  BY <1>1, MapType
<1>3. In(f) = {SimplifyItem(e) : e \in In(s)}
  BY DEF In
<1>4. QED
  BY <1>2, <1>3

PosOf(t) == AsList(Parse(t)).positive
NegOf(t) == AsList(Parse(t)).negative

ParsedWell(t) ==
  /\ ~IsAlways(Parse(t))
  /\ PosOf(t) \in Seq(Raw) /\ NegOf(t) \in Seq(Raw)
  /\ Reads({SimplifyItem(q) : q \in In(PosOf(t))}, {SimplifyItem(q) : q \in In(NegOf(t))}, t)
  /\ \A q \in In(PosOf(t)) : AlwaysTrue(q) <=> Empty \in In(t.pos)
  /\ \E P, N \in Seq(Items) : Simplify(Parse(t)) = SimplerList(P, N) /\ Reads(In(P), In(N), t)

LEMMA ParsedFacts ==
  ASSUME NEW t, GoodText(t)
  PROVE  ParsedWell(t)
<1> DEFINE p == Parse(t)
           mp == [i \in DOMAIN t.pos |-> PatternMatcher(t.pos[i])]
           mn == [i \in DOMAIN t.neg |-> PatternMatcher(t.neg[i])]
           sp == [i \in DOMAIN mp |-> SimplifyItem(mp[i])]
           sn == [i \in DOMAIN mn |-> SimplifyItem(mn[i])]
           X == {ItemOf(u) : u \in In(t.pos)}
           Y == {ItemOf(n) : n \in In(t.neg)}
<1>1. /\ t.of = "list" /\ t.pos \in Seq(Sound) /\ t.neg \in Seq(Sound)
      /\ t.pos # <<>> /\ DOMAIN t.pos # {} /\ In(t.pos) # {}
      /\ In(t.pos) \subseteq Sound /\ In(t.neg) \subseteq Sound
      /\ Empty \in In(t.pos) => In(t.pos) = {Empty}
  BY TextParts
<1>2. Reads(X, Y, t)
  BY ItemsRead
<1>3. \A u \in Sound : PatternMatcher(u) \in Raw
  BY DEF Raw
<1>4. (\A i \in DOMAIN t.pos : t.pos[i] \in Sound) /\ (\A i \in DOMAIN t.neg : t.neg[i] \in Sound)
  BY <1>1, SequenceFacts
<1>5. mp \in Seq(Raw) /\ Len(mp) = Len(t.pos)
  BY <1>1, <1>3, <1>4, MapType
<1>6. mn \in Seq(Raw) /\ Len(mn) = Len(t.neg)
  BY <1>1, <1>3, <1>4, MapType
<1>7. p = ListOf(mp, mn)
  BY <1>1, Zenon DEF Parse, ParseList
<1>8. In(mp) = {PatternMatcher(u) : u \in In(t.pos)} /\ In(mn) = {PatternMatcher(u) : u \in In(t.neg)}
  BY DEF In
<1>9. /\ DOMAIN mp = DOMAIN t.pos /\ DOMAIN mn = DOMAIN t.neg
      /\ \A i \in DOMAIN t.pos : mp[i] = PatternMatcher(t.pos[i])
  OBVIOUS
<1> HIDE DEF p, mp, mn, X, Y
<1>10. mp # <<>> /\ (mn = <<>> <=> t.neg = <<>>)
  BY <1>1, <1>5, <1>6, SequenceFacts
<1>11. \A q \in Raw : SimplifyItem(q) \in Items
  BY RawFacts
<1>12. /\ sp \in Seq(Items) /\ sn \in Seq(Items)
       /\ In(sp) = {SimplifyItem(q) : q \in In(mp)} /\ In(sn) = {SimplifyItem(q) : q \in In(mn)}
  BY <1>5, <1>6, <1>11, MapIn
<1> HIDE DEF sp, sn
<1>13. {SimplifyItem(q) : q \in In(mp)} = X /\ {SimplifyItem(q) : q \in In(mn)} = Y
  BY <1>8 DEF X, Y, ItemOf
<1>14. \A q \in In(mp) : AlwaysTrue(q) <=> Empty \in In(t.pos)
  <2>1. \A u \in In(t.pos) : AlwaysTrue(PatternMatcher(u)) <=> u = Empty
    BY <1>1, ItemFacts
  <2>2. QED
    BY <1>1, <1>8, <2>1
<1>15. CASE mn = <<>> /\ mp = <<mp[1]>> /\ DOMAIN mp = {1} /\ p = mp[1]
  <2> DEFINE u == t.pos[1]
  <2>1. /\ u \in Sound /\ p = PatternMatcher(u) /\ In(t.pos) = {u}
        /\ t.neg = <<>> /\ In(t.neg) = {} /\ u # Empty
    <3>1. u \in Sound /\ p = PatternMatcher(u) /\ In(t.pos) = {u}
      BY <1>4, <1>9, <1>15 DEF In
    <3>2. t.neg = <<>>
      BY <1>10, <1>15
    <3>3. In(t.neg) = {}
      BY <3>2, OneFacts
    <3>4. t.pos # <<Empty>>
      BY <3>2 DEF GoodText
    <3>5. t.pos = <<u>>
      <4>1. DOMAIN t.pos = {1} /\ Len(t.pos) = 1
        BY <1>1, <1>5, <1>9, <1>15
      <4>2. QED
        BY <1>1, <4>1
    <3>6. QED
      BY <3>1, <3>2, <3>3, <3>4, <3>5
  <2> HIDE DEF u
  <2>2. ~IsAlways(p)
    BY <2>1, ItemFacts
  <2>3. X = {ItemOf(u)} /\ Y = {}
    BY <2>1 DEF X, Y
  <2>4. u \in Patterns /\ Definite(u) /\ u.of \in {"naked", "full"}
    BY <2>1 DEF Sound, Patterns, Empty
  <2>5. Simplify(p) = ItemOf(u)
    <3>1. CASE u.of = "full"
      <4>1. p.is # "list"
        BY <2>1, <2>4, <3>1, FullFacts
      <4>2. QED
        BY <2>1, <4>1 DEF Simplify, SimplifyList, ItemOf
    <3>2. CASE u.of = "naked"
      <4> DEFINE p1 == OnObject(u)
                 p2 == WithObject(u)
                 raw == <<p1, p2>>
                 none == <<>>
                 r1 == SimplifyPattern(p1)
                 r2 == SimplifyPattern(p2)
      <4>1. /\ p.is = "list" /\ p.positive = raw /\ p.negative = none
            /\ ItemOf(u) = SimplerList(<<r1, r2>>, none)
            /\ p1.is # "list" /\ p2.is # "list"
        BY <2>1, <2>4, <3>2, NakedFacts, Zenon
      <4>2. Simplify(p) = SimplerList([i \in DOMAIN raw |-> SimplifyItem(raw[i])],
                                      [i \in DOMAIN none |-> SimplifyItem(none[i])])
        BY <4>1, Zenon DEF Simplify, SimplifyList
      <4> HIDE DEF p1, p2
      <4>3. SimplifyItem(p1) = r1 /\ SimplifyItem(p2) = r2
        BY <4>1 DEF SimplifyItem, SimplifyList
      <4>4. [i \in DOMAIN raw |-> SimplifyItem(raw[i])] = <<r1, r2>>
        <5> DEFINE f == [i \in DOMAIN raw |-> SimplifyItem(raw[i])]
        <5>1. raw \in Seq({p1, p2}) /\ DOMAIN raw = {1, 2} /\ raw[1] = p1 /\ raw[2] = p2 /\ Len(raw) = 2
          OBVIOUS
        <5>2. f[1] = r1 /\ f[2] = r2 /\ f \in Seq({r1, r2}) /\ Len(f) = 2
          <6>1. f[1] = r1 /\ f[2] = r2
            BY <4>3, <5>1
          <6>2. \A i \in DOMAIN raw : f[i] \in {r1, r2}
            BY <5>1, <6>1
          <6> HIDE DEF r1, r2, raw
          <6>3. f \in Seq({r1, r2}) /\ Len(f) = 2
            BY <5>1, <6>2, MapType
          <6>4. QED
            BY <6>1, <6>3
        <5> HIDE DEF f, r1, r2
        <5>3. f = <<r1, r2>>
          BY <5>2
        <5>4. QED
          BY <5>3 DEF f
      <4>5. [i \in DOMAIN none |-> SimplifyItem(none[i])] = none
        OBVIOUS
      <4>6. QED
        BY <4>1, <4>2, <4>4, <4>5, Zenon
    <3>3. QED
      BY <2>4, <3>1, <3>2
  <2>6. \E P, N \in Seq(Items) : Simplify(p) = SimplerList(P, N) /\ Reads(In(P), In(N), t)
    <3> DEFINE e == ItemOf(u)
    <3>1. e \in Items /\ Canonical(e)
      BY <2>1, ItemFacts DEF ItemMeaning
    <3> HIDE DEF e
    <3>2. SimplerList(<<e>>, <<>>) = e
      BY <3>1, SingleList
    <3>3. <<e>> \in Seq(Items) /\ In(<<e>>) = {e} /\ <<>> \in Seq(Items) /\ In(<<>>) = {}
      BY <3>1, OneFacts
    <3>4. Reads(In(<<e>>), In(<<>>), t)
      BY <1>2, <2>3, <3>3, Zenon DEF e
    <3>5. Simplify(p) = SimplerList(<<e>>, <<>>)
      BY <2>5, <3>2, Zenon DEF e
    <3>6. QED
      BY <3>3, <3>4, <3>5
  <2>7. /\ PosOf(t) \in Seq(Raw) /\ NegOf(t) \in Seq(Raw)
        /\ Reads({SimplifyItem(q) : q \in In(PosOf(t))}, {SimplifyItem(q) : q \in In(NegOf(t))}, t)
        /\ \A q \in In(PosOf(t)) : AlwaysTrue(q) <=> Empty \in In(t.pos)
    <3>1. CASE p.is # "list"
      <4>1. PosOf(t) = mp /\ NegOf(t) = mn
        BY <1>15, <3>1, AsListFacts DEF PosOf, NegOf, p
      <4>2. QED
        BY <1>2, <1>5, <1>6, <1>13, <1>14, <4>1, Zenon
    <3>2. CASE p.is = "list"
      <4> DEFINE p1 == OnObject(u)
                 p2 == WithObject(u)
                 r1 == SimplifyPattern(p1)
                 r2 == SimplifyPattern(p2)
                 S == {r1, r2}
      <4>1. u.of = "naked"
        BY <2>1, <2>4, <3>2, FullFacts
      <4>2. /\ p.positive = <<p1, p2>> /\ p.negative = <<>>
            /\ p1.is # "list" /\ p2.is # "list" /\ ~IsAlways(p1) /\ ~IsAlways(p2)
            /\ AlwaysTrue(r1) \/ AlwaysTrue(r2) <=> Everything(u)
            /\ AlwaysFalse(r1) /\ AlwaysFalse(r2) <=> Nothing(u)
            /\ \A x : Means(u, x) <=> MatchesItem(r1, x) \/ MatchesItem(r2, x)
        BY <2>1, <2>4, <4>1, NakedFacts, Zenon
      <4>3. p1 \in Raw /\ p2 \in Raw /\ r1 \in Items /\ r2 \in Items
        BY <2>4, <4>1 DEF Raw, Items, Naked
      <4> HIDE DEF p1, p2
      <4>4. SimplifyItem(p1) = r1 /\ SimplifyItem(p2) = r2
        BY <4>2 DEF SimplifyItem, SimplifyList
      <4>5. PosOf(t) = <<p1, p2>> /\ NegOf(t) = <<>>
        BY <3>2, <4>2, AsListFacts DEF PosOf, NegOf, p
      <4>6. /\ <<p1, p2>> \in Seq(Raw) /\ <<>> \in Seq(Raw)
            /\ In(<<p1, p2>>) = {p1, p2} /\ In(<<>>) = {}
        <5>1. <<p1, p2>> \in Seq(Raw) /\ DOMAIN <<p1, p2>> = {1, 2} /\ <<p1, p2>>[1] = p1 /\ <<p1, p2>>[2] = p2
          BY <4>3
        <5>2. <<>> \in Seq(Raw) /\ In(<<>>) = {}
          BY <4>3, OneFacts
        <5>3. QED
          BY <5>1, <5>2 DEF In
      <4>7. {SimplifyItem(q) : q \in In(PosOf(t))} = S /\ {SimplifyItem(q) : q \in In(NegOf(t))} = {}
        BY <4>4, <4>5, <4>6
      <4>8. S \subseteq Items /\ S # {} /\ \A e : e \in S <=> e = r1 \/ e = r2
        BY <4>3
      <4> HIDE DEF r1, r2, S
      <4>9. \A x : (\E e \in S : MatchesItem(e, x)) <=> \E b \in In(t.pos) : Means(b, x)
        BY <2>1, <4>2, <4>8
      <4>10. /\ (\E e \in S : AlwaysTrue(e)) <=> \E b \in In(t.pos) : Everything(b)
             /\ (\A e \in S : AlwaysFalse(e)) <=> \A b \in In(t.pos) : Nothing(b)
        BY <2>1, <4>2, <4>8
      <4>11. Reads(S, {}, t)
        BY <2>1, <4>8, <4>9, <4>10 DEF Reads
      <4>12. \A q \in In(PosOf(t)) : AlwaysTrue(q) <=> Empty \in In(t.pos)
        BY <2>1, <4>2, <4>5, <4>6 DEF AlwaysTrue
      <4>13. QED
        BY <4>5, <4>6, <4>7, <4>11, <4>12
    <3>3. QED
      BY <3>1, <3>2
  <2>8. QED
    BY <2>2, <2>6, <2>7, Zenon DEF ParsedWell, p
<1>16. CASE p = MatcherList(mp, mn)
  <2>1. p.is = "list" /\ p.positive = mp /\ p.negative = mn
    BY <1>16 DEF MatcherList
  <2>2. PosOf(t) = mp /\ NegOf(t) = mn
    BY <2>1, AsListFacts DEF PosOf, NegOf, p
  <2>3. Simplify(p) = SimplerList(sp, sn)
    BY <2>1, Zenon DEF Simplify, SimplifyList, sp, sn
  <2>4. ~IsAlways(p)
    BY <2>1 DEF IsAlways
  <2>5. Reads(In(sp), In(sn), t)
    BY <1>2, <1>12, <1>13, Zenon
  <2>6. \E P, N \in Seq(Items) : Simplify(p) = SimplerList(P, N) /\ Reads(In(P), In(N), t)
    BY <1>12, <2>3, <2>5
  <2>7. QED
    BY <1>2, <1>5, <1>6, <1>13, <1>14, <2>2, <2>4, <2>6, Zenon DEF ParsedWell, p
<1>17. QED
  BY <1>5, <1>7, <1>10, <1>15, <1>16, ListOfCases

------------------------------------------------------------------------------
(* Filter commands *)

(* A filter command, whatever was shown before it.                            *)
LEMMA JoinShown ==
  ASSUME NEW d, NEW f \in Filters, Shown(d, f), NEW t, GoodText(t)
  PROVE  /\ Extended(f, t) \in Filters
         /\ Shown(Simplify(Join(Parse(t), d)), Extended(f, t))
<1> DEFINE p == Parse(t)
           g == Extended(f, t)
           pos == PosOf(t)
           neg == NegOf(t)
           oldPos == AsList(d).positive
           oldNeg == AsList(d).negative
           X == {SimplifyItem(q) : q \in In(pos)}
           Y == {SimplifyItem(q) : q \in In(neg)}
<1>1. /\ ~IsAlways(p) /\ pos \in Seq(Raw) /\ neg \in Seq(Raw) /\ Reads(X, Y, t)
      /\ \A q \in In(pos) : AlwaysTrue(q) <=> Empty \in In(t.pos)
      /\ \E P, N \in Seq(Items) : Simplify(p) = SimplerList(P, N) /\ Reads(In(P), In(N), t)
  <2>1. ParsedWell(t)
    BY ParsedFacts
  <2>2. QED
    BY <2>1, Zenon DEF ParsedWell
<1>2. g \in Filters
  BY ExtendedFacts, Zenon
<1> HIDE DEF p, g, pos, neg
<1>3. CASE IsAlways(d)
  <2>1. Trivial(f)
    BY <1>3 DEF Shown, Trivial
  <2>2. Join(p, d) = p
    BY <1>3 DEF Join
  <2>3. PICK P \in Seq(Items), N \in Seq(Items) :
          Simplify(p) = SimplerList(P, N) /\ Reads(In(P), In(N), t)
    BY <1>1
  <2>4. Says(In(P), In(N), g)
    BY <2>1, <2>3, FreshSays, Zenon DEF g
  <2>5. Shown(SimplerList(P, N), g)
    BY <1>2, <2>4, SimplifiedShown
  <2>6. Simplify(Join(p, d)) = SimplerList(P, N)
    BY <2>2, <2>3
  <2>7. QED
    BY <1>2, <2>5, <2>6, Zenon DEF p, g
<1>4. CASE ~IsAlways(d)
  <2> DEFINE E == Raw \cup Items
             all == pos \o oldPos
             wanted == NotAnything(all)
             W == IF wanted = <<>> THEN <<Always(TRUE)>> ELSE wanted
             V == neg \o oldNeg
             sw == [i \in DOMAIN W |-> SimplifyItem(W[i])]
             sv == [i \in DOMAIN V |-> SimplifyItem(V[i])]
             X0 == In(oldPos)
             Y0 == In(oldNeg)
             U == (IF Empty \in In(t.pos) THEN {} ELSE X) \cup (IF f.only = {} THEN {} ELSE X0)
  <2>1. /\ ~Trivial(f) /\ oldPos \in Seq(Items) /\ oldNeg \in Seq(Items)
        /\ Says(X0, Y0, f) /\ (f.only = {} => X0 = {Always(TRUE)})
    <3>1. ~(d = Always(TRUE)) /\ ~(d = Always(FALSE))
      BY <1>4, AlwaysFacts
    <3>2. QED
      BY <3>1, Zenon DEF Shown
  <2>2. Join(p, d) = MatcherList(W, V)
    BY <1>1, <1>4, Zenon DEF Join, PosOf, NegOf, pos, neg, p
  <2> HIDE DEF oldPos, oldNeg
  <2>3. \A e \in E : SimplifyItem(e) \in Items
    BY RawFacts, ItemsFacts
  <2>4. pos \in Seq(E) /\ neg \in Seq(E) /\ oldPos \in Seq(E) /\ oldNeg \in Seq(E)
    <3>1. Raw \subseteq E /\ Items \subseteq E
      OBVIOUS
    <3> HIDE DEF E
    <3>2. \A s : s \in Seq(Raw) \/ s \in Seq(Items) => s \in Seq(E)
      BY <3>1
    <3>3. QED
      BY <1>1, <2>1, <3>2
  <2>5. Always(TRUE) \in E /\ Always(TRUE) \in Items /\ SimplifyItem(Always(TRUE)) = Always(TRUE)
    BY ConstantItems
  <2>6. \A e \in Items : SimplifyItem(e) = e
    BY ItemsFacts
  <2> HIDE DEF E
  <2>7. /\ all \in Seq(E) /\ In(all) = In(pos) \cup X0
        /\ V \in Seq(E) /\ In(V) = In(neg) \cup Y0
    BY <2>4, InJoined
  <2> HIDE DEF all, V
  <2>8. wanted \in Seq(E) /\ In(wanted) = {e \in In(all) : ~AlwaysTrue(e)}
    BY <2>7, InSelected
  <2> HIDE DEF wanted
  <2>9. W \in Seq(E) /\ In(W) = IF In(wanted) = {} THEN {Always(TRUE)} ELSE In(wanted)
    <3>1. wanted = <<>> <=> In(wanted) = {}
      BY <2>8, InFacts
    <3>2. <<Always(TRUE)>> \in Seq(E) /\ In(<<Always(TRUE)>>) = {Always(TRUE)}
      BY <2>5, OneFacts
    <3>3. QED
      BY <2>8, <3>1, <3>2
  <2> HIDE DEF W
  <2>10. /\ sw \in Seq(Items) /\ In(sw) = {SimplifyItem(e) : e \in In(W)}
         /\ sv \in Seq(Items) /\ In(sv) = {SimplifyItem(e) : e \in In(V)}
    BY <2>3, <2>7, <2>9, MapIn
  <2>11. Simplify(MatcherList(W, V)) = SimplerList(sw, sv)
    <3> DEFINE l == MatcherList(W, V)
    <3>1. l.is = "list" /\ l.positive = W /\ l.negative = V
      BY DEF MatcherList
    <3> HIDE DEF l
    <3>2. Simplify(l) = SimplerList(sw, sv)
      BY <3>1, Zenon DEF Simplify, SimplifyList
    <3>3. QED
      BY <3>2 DEF l
  <2> HIDE DEF sw, sv
  <2>12. X0 \subseteq Items /\ Y0 \subseteq Items
    BY <2>1, InFacts
  <2>13. In(sv) = Y \cup Y0
    <3>1. {SimplifyItem(e) : e \in In(V)} = Y \cup {SimplifyItem(e) : e \in Y0}
      BY <2>7
    <3>2. {SimplifyItem(e) : e \in Y0} = Y0
      BY <2>6, <2>12
    <3>3. QED
      BY <2>10, <3>1, <3>2
  <2>14. {SimplifyItem(e) : e \in In(wanted)} = U
    <3> DEFINE A == {q \in In(pos) : ~AlwaysTrue(q)}
               B == {e \in X0 : ~AlwaysTrue(e)}
    <3>1. In(wanted) = A \cup B
      BY <2>7, <2>8
    <3>2. A = IF Empty \in In(t.pos) THEN {} ELSE In(pos)
      BY <1>1
    <3>3. B = IF f.only = {} THEN {} ELSE X0
      <4>1. CASE f.only = {}
        BY <2>1, <4>1, AlwaysFacts
      <4>2. CASE f.only # {}
        <5>1. ~\E e \in X0 : AlwaysTrue(e)
          BY <2>1, <4>2, Zenon DEF Says
        <5>2. QED
          BY <4>2, <5>1
      <4>3. QED
        BY <4>1, <4>2
    <3>4. \A e \in B : SimplifyItem(e) = e
      BY <2>6, <2>12
    <3> HIDE DEF A, B, X0
    <3>5. {SimplifyItem(e) : e \in In(wanted)} = {SimplifyItem(e) : e \in A} \cup B
      BY <3>1, <3>4
    <3>6. {SimplifyItem(e) : e \in A} = IF Empty \in In(t.pos) THEN {} ELSE X
      BY <3>2
    <3>7. QED
      BY <3>3, <3>5, <3>6
  <2>15. In(sw) = JoinedWanted(X, X0, f, t)
    <3>1. JoinedWanted(X, X0, f, t) = IF U = {} THEN {Always(TRUE)} ELSE U
      BY Zenon DEF JoinedWanted
    <3> HIDE DEF U, X0, X
    <3>2. In(wanted) = {} <=> U = {}
      BY <2>14
    <3>3. CASE U = {}
      BY <2>5, <2>9, <2>10, <3>1, <3>2, <3>3
    <3>4. CASE U # {}
      BY <2>9, <2>10, <2>14, <3>1, <3>2, <3>4
    <3>5. QED
      BY <3>3, <3>4
  <2>16. Says(In(sw), In(sv), g)
    <3> HIDE DEF X, Y, X0, Y0
    <3>1. Says(JoinedWanted(X, X0, f, t), Y \cup Y0, Extended(f, t))
      BY <1>1, <2>1, JoinedSays
    <3>2. QED
      BY <2>13, <2>15, <3>1, Zenon DEF g
  <2>17. Shown(SimplerList(sw, sv), g)
    BY <1>2, <2>10, <2>16, SimplifiedShown
  <2>18. Simplify(Join(p, d)) = SimplerList(sw, sv)
    BY <2>2, <2>11, Zenon
  <2>19. QED
    BY <1>2, <2>17, <2>18, Zenon DEF p, g
<1>5. QED
  BY <1>3, <1>4

(* What the texts ask for, one after the other.                               *)
Given == Texts \cup {[of |-> "invalid"]}

AskedOf(texts) ==
  LET F[n \in 0..Len(texts)] ==
        IF n = 0 THEN NoFilter
        ELSE IF texts[n].of = "invalid" THEN F[n-1] ELSE Extended(F[n-1], texts[n])
  IN F

LEMMA AskedIs == Asked = AskedOf(asked)
BY Zenon DEF Asked, AskedOf

LEMMA GivenFacts ==
  ASSUME NEW t \in Given
  PROVE  /\ t.of = "invalid" <=> t = [of |-> "invalid"]
         /\ t.of # "invalid" => t \in Texts
         /\ t \in Texts => GoodText(t) /\ t.of = "list"
<1>1. t \in Texts => GoodText(t)
  BY TextsAssumption, Zenon DEF GoodText
<1>2. GoodText(t) => t.of = "list"
  BY TextParts
<1>3. QED
  BY <1>1, <1>2 DEF Given

(* AskedOf is what its definition says, and each of its values a filter.      *)
LEMMA AskedStep ==
  ASSUME NEW s \in Seq(Given)
  PROVE  /\ AskedOf(s)[0] = NoFilter
         /\ AskedOf(s) \in [0..Len(s) -> Filters]
         /\ \A n \in 1..Len(s) :
              AskedOf(s)[n] = IF s[n].of = "invalid" THEN AskedOf(s)[n - 1]
                              ELSE Extended(AskedOf(s)[n - 1], s[n])
<1> DEFINE N == Len(s)
           S == Filters
           start == NoFilter
           step == [n \in 1..N |-> [f \in S |-> IF s[n].of = "invalid" THEN f ELSE Extended(f, s[n])]]
           Def(h) == [n \in 0..N |->
                        IF n = 0 THEN NoFilter
                        ELSE IF s[n].of = "invalid" THEN h[n - 1] ELSE Extended(h[n - 1], s[n])]
<1>1. N \in Nat /\ start \in S
  BY DEF NoFilter, Filters
<1>2. ASSUME NEW n \in 1..N, NEW f \in S
      PROVE  (IF s[n].of = "invalid" THEN f ELSE Extended(f, s[n])) \in S
  <2>1. s[n] \in Given
    OBVIOUS
  <2>2. CASE s[n].of = "invalid"
    BY <1>2, <2>2
  <2>3. CASE s[n].of # "invalid"
    <3>1. GoodText(s[n])
      BY <2>1, <2>3, GivenFacts
    <3>2. Extended(f, s[n]) \in S
      BY <3>1, ExtendedFacts, Zenon
    <3>3. QED
      BY <2>3, <3>2
  <2>4. QED
    BY <2>2, <2>3
<1>3. step \in [1..N -> [S -> S]]
  BY <1>2
<1>4. \A n \in 1..N, f \in S : step[n][f] = IF s[n].of = "invalid" THEN f ELSE Extended(f, s[n])
  OBVIOUS
<1> HIDE DEF step, S, start, N
<1>5. PICK f \in [0..N -> S] : f[0] = start /\ \A n \in 1..N : f[n] = step[n][f[n - 1]]
  <2>1. \E h : IsStepwise(h, N, S, start, step)
    BY <1>1, <1>3, Stepwise
  <2>2. QED
    BY <2>1 DEF IsStepwise
<1>6. ASSUME NEW n \in 1..N
      PROVE  f[n] = IF s[n].of = "invalid" THEN f[n - 1] ELSE Extended(f[n - 1], s[n])
  <2>1. n - 1 \in 0..N /\ f[n - 1] \in S
    BY <1>1
  <2>2. QED
    BY <1>4, <1>5, <2>1
<1>7. f = Def(f)
  <2>1. ASSUME NEW n \in 0..N
        PROVE  f[n] = Def(f)[n]
    <3>1. CASE n = 0
      BY <1>5, <3>1 DEF start
    <3>2. CASE n # 0
      <4>1. n \in 1..N
        BY <1>1, <3>2
      <4>2. QED
        BY <1>6, <3>2, <4>1
    <3>3. QED
      BY <3>1, <3>2
  <2>2. f = [n \in 0..N |-> f[n]]
    BY <1>5
  <2>3. QED
    BY <2>1, <2>2
<1> DEFINE g == AskedOf(s)
<1>8. g = CHOOSE h : h = Def(h)
  BY Zenon DEF AskedOf, N
<1> HIDE DEF g
<1>9. g = Def(g)
  <2> HIDE DEF Def
  <2>1. QED
    BY <1>7, <1>8, Zenon
<1>10. /\ g[0] = NoFilter
       /\ \A n \in 1..N : g[n] = IF s[n].of = "invalid" THEN g[n - 1] ELSE Extended(g[n - 1], s[n])
       /\ DOMAIN g = 0..N
  <2> DEFINE d == Def(g)
  <2>1. /\ d[0] = NoFilter
        /\ \A n \in 1..N : d[n] = IF s[n].of = "invalid" THEN g[n - 1] ELSE Extended(g[n - 1], s[n])
        /\ DOMAIN d = 0..N
    BY <1>1
  <2> HIDE DEF d
  <2>2. g = d
    BY <1>9 DEF d
  <2>3. QED
    BY <2>1, <2>2
<1>11. g \in [0..N -> S]
  <2> DEFINE T == {n \in Nat : n <= N => g[n] \in S}
  <2>1. 0 \in T
    BY <1>1, <1>10 DEF start
  <2>2. ASSUME NEW n \in Nat, n \in T
        PROVE  n + 1 \in T
    <3>1. SUFFICES ASSUME n + 1 <= N
                   PROVE  g[n + 1] \in S
      OBVIOUS
    <3>2. n + 1 \in 1..N /\ (n + 1) - 1 = n /\ g[n] \in S
      BY <1>1, <2>2, <3>1
    <3>3. g[n + 1] = IF s[n + 1].of = "invalid" THEN g[n] ELSE Extended(g[n], s[n + 1])
      BY <1>10, <3>2
    <3>4. QED
      BY <1>2, <3>2, <3>3, Zenon
  <2>3. Nat \subseteq T
    BY <2>1, <2>2, Induction
  <2>4. \A n \in 0..N : g[n] \in S
    BY <1>1, <2>3
  <2>5. g = [n \in 0..N |-> g[n]]
    <3> DEFINE d == Def(g)
    <3>1. d = [n \in 0..N |-> d[n]]
      OBVIOUS
    <3> HIDE DEF d
    <3>2. g = d
      BY <1>9 DEF d
    <3>3. QED
      BY <3>1, <3>2
  <2>6. QED
    BY <2>4, <2>5
<1>12. QED
  BY <1>10, <1>11 DEF g, N, S

(* One more text leaves what was asked before.                                *)
LEMMA AskedAppend ==
  ASSUME NEW s \in Seq(Given), NEW t \in Given
  PROVE  /\ Len(Append(s, t)) = Len(s) + 1
         /\ AskedOf(Append(s, t))[Len(s) + 1] =
              IF t.of = "invalid" THEN AskedOf(s)[Len(s)] ELSE Extended(AskedOf(s)[Len(s)], t)
<1> DEFINE N == Len(s)
           u == Append(s, t)
           g == AskedOf(s)
           h == AskedOf(u)
           T == {n \in Nat : n <= N => h[n] = g[n]}
<1>1. u \in Seq(Given) /\ N \in Nat /\ Len(u) = N + 1 /\ u[N + 1] = t /\ \A n \in 1..N : u[n] = s[n]
  OBVIOUS
<1>2. g[0] = NoFilter /\ \A n \in 1..N : g[n] = IF s[n].of = "invalid" THEN g[n - 1] ELSE Extended(g[n - 1], s[n])
  BY AskedStep
<1> HIDE DEF u
<1>3. h[0] = NoFilter /\ \A n \in 1..Len(u) : h[n] = IF u[n].of = "invalid" THEN h[n - 1] ELSE Extended(h[n - 1], u[n])
  BY <1>1, AskedStep
<1> HIDE DEF g, h, N
<1>4. 0 \in T
  BY <1>2, <1>3
<1>5. ASSUME NEW n \in Nat, n \in T
      PROVE  n + 1 \in T
  <2>1. SUFFICES ASSUME n + 1 <= N
                 PROVE  h[n + 1] = g[n + 1]
    OBVIOUS
  <2>2. n + 1 \in 1..N /\ n + 1 \in 1..Len(u) /\ (n + 1) - 1 = n /\ h[n] = g[n]
    BY <1>1, <1>5, <2>1
  <2>3. u[n + 1] = s[n + 1]
    BY <1>1, <2>2
  <2>4. /\ h[n + 1] = IF u[n + 1].of = "invalid" THEN h[n] ELSE Extended(h[n], u[n + 1])
        /\ g[n + 1] = IF s[n + 1].of = "invalid" THEN g[n] ELSE Extended(g[n], s[n + 1])
    BY <1>2, <1>3, <2>2
  <2>5. QED
    BY <2>2, <2>3, <2>4, Zenon
<1>6. h[N] = g[N]
  <2>1. Nat \subseteq T
    BY <1>4, <1>5, Induction
  <2>2. QED
    BY <1>1, <2>1
<1>7. N + 1 \in 1..Len(u) /\ (N + 1) - 1 = N
  BY <1>1
<1>8. h[N + 1] = IF u[N + 1].of = "invalid" THEN h[N] ELSE Extended(h[N], u[N + 1])
  BY <1>3, <1>7
<1>9. h[N + 1] = IF t.of = "invalid" THEN g[N] ELSE Extended(g[N], t)
  BY <1>1, <1>6, <1>8, Zenon
<1>10. QED
  BY <1>1, <1>9, Zenon DEF g, h, N, u

------------------------------------------------------------------------------
(* The specification *)

(* What is shown stands for the filter asked for, at every step.              *)
FilterInv ==
  /\ asked \in Seq(Given)
  /\ AskedOf(asked)[Len(asked)] \in Filters
  /\ Shown(display_matcher, AskedOf(asked)[Len(asked)])

LEMMA NothingAsked ==
  /\ <<>> \in Seq(Given) /\ Len(<<>>) = 0 /\ AskedOf(<<>>)[0] = NoFilter
  /\ NoFilter \in Filters /\ Shown(Always(TRUE), NoFilter)
<1>1. <<>> \in Seq(Given) /\ Len(<<>>) = 0
  OBVIOUS
<1>2. AskedOf(<<>>)[0] = NoFilter
  BY <1>1, AskedStep
<1>3. NoFilter \in Filters /\ Shown(Always(TRUE), NoFilter)
  BY DEF NoFilter, Filters, Shown
<1>4. QED
  BY <1>1, <1>2, <1>3

LEMMA InitHolds == FilterInit => FilterInv
<1> SUFFICES ASSUME FilterInit PROVE FilterInv
  OBVIOUS
<1>1. CASE display_matcher = Always(TRUE) /\ asked = <<>>
  BY <1>1, NothingAsked DEF FilterInv
<1>2. CASE \E t \in Texts : display_matcher = Simplify(Parse(t)) /\ asked = <<t>>
  <2>1. PICK t \in Texts : display_matcher = Simplify(Parse(t)) /\ asked = <<t>>
    BY <1>2
  <2>2. t \in Given /\ GoodText(t) /\ t.of # "invalid"
    BY GivenFacts DEF Given
  <2>3. Join(Parse(t), Always(TRUE)) = Parse(t)
    BY AlwaysFacts DEF Join
  <2>4. Extended(NoFilter, t) \in Filters /\ Shown(Simplify(Parse(t)), Extended(NoFilter, t))
    <3>1. Shown(Simplify(Join(Parse(t), Always(TRUE))), Extended(NoFilter, t))
      BY <2>2, NothingAsked, JoinShown
    <3>2. Extended(NoFilter, t) \in Filters
      BY <2>2, NothingAsked, JoinShown
    <3>3. QED
      BY <2>3, <3>1, <3>2, Zenon
  <2>5. asked \in Seq(Given) /\ Len(asked) = 1 /\ asked = Append(<<>>, t)
    BY <2>1, <2>2
  <2>6. AskedOf(asked)[1] = Extended(NoFilter, t)
    <3> DEFINE none == <<>>
    <3>1. none \in Seq(Given) /\ Len(none) = 0 /\ AskedOf(none)[Len(none)] = NoFilter /\ Len(none) + 1 = 1
      BY NothingAsked
    <3>2. asked = Append(none, t)
      BY <2>5
    <3> HIDE DEF none
    <3>3. AskedOf(Append(none, t))[Len(none) + 1] =
            IF t.of = "invalid" THEN AskedOf(none)[Len(none)] ELSE Extended(AskedOf(none)[Len(none)], t)
      BY <2>2, <3>1, AskedAppend
    <3>4. QED
      BY <2>2, <3>1, <3>2, <3>3
  <2>7. QED
    BY <2>1, <2>4, <2>5, <2>6 DEF FilterInv
<1>3. QED
  BY <1>1, <1>2 DEF FilterInit

LEMMA NextKeeps == FilterInv /\ [FilterNext]_filterVars => FilterInv'
<1> SUFFICES ASSUME FilterInv, [FilterNext]_filterVars PROVE FilterInv'
  OBVIOUS
<1> DEFINE f == AskedOf(asked)[Len(asked)]
<1>1. asked \in Seq(Given) /\ f \in Filters /\ Shown(display_matcher, f)
  BY DEF FilterInv
<1>2. CASE FilterFails
  <2> DEFINE t == [of |-> "invalid"]
  <2>1. t \in Given /\ t.of = "invalid" /\ asked' = Append(asked, t) /\ display_matcher' = display_matcher
    BY <1>2 DEF FilterFails, Given
  <2> HIDE DEF t
  <2>2. asked' \in Seq(Given)
    BY <1>1, <2>1
  <2>3. AskedOf(asked')[Len(asked')] = f
    BY <1>1, <2>1, AskedAppend
  <2>4. QED
    BY <1>1, <2>1, <2>2, <2>3, Zenon DEF FilterInv
<1>3. ASSUME NEW t \in Texts, FilterCommand(t) PROVE FilterInv'
  <2>1. /\ t \in Given /\ GoodText(t) /\ t.of # "invalid" /\ asked' = Append(asked, t)
        /\ display_matcher' = Simplify(Join(Parse(t), display_matcher))
    BY <1>3, GivenFacts DEF FilterCommand, Given
  <2>2. asked' \in Seq(Given)
    BY <1>1, <2>1
  <2>3. AskedOf(asked')[Len(asked')] = Extended(f, t)
    BY <1>1, <2>1, AskedAppend
  <2> HIDE DEF f
  <2>4. Extended(f, t) \in Filters /\ Shown(Simplify(Join(Parse(t), display_matcher)), Extended(f, t))
    BY <1>1, <2>1, JoinShown
  <2>5. QED
    BY <2>1, <2>2, <2>3, <2>4, Zenon DEF FilterInv
<1>4. CASE UNCHANGED filterVars
  BY <1>1, <1>4 DEF filterVars, FilterInv
<1>5. QED
  BY <1>2, <1>3, <1>4 DEF FilterNext

LEMMA ShownMatches ==
  ASSUME NEW d, NEW f \in Filters, Shown(d, f), NEW x
  PROVE  Matches(d, x) <=> /\ f.only = {} \/ \E p \in f.only : Means(p, x)
                           /\ \A n \in f.but : ~Means(n, x)
<1>1. \A r : IsAlways(Always(r)) /\ Always(r).is = "always" /\ Always(r).result = r
  BY DEF Always, IsAlways
<1>2. \A r : Matches(Always(r), x) = r
  BY <1>1 DEF Matches, MatchesList, MatchesItem, MatchesPattern
<1>3. f.only \subseteq Sound /\ f.but \subseteq Sound
  BY DEF Filters
<1>4. CASE d = Always(TRUE) /\ f = NoFilter
  BY <1>2, <1>4 DEF NoFilter
<1>5. CASE d = Always(FALSE) /\ Trivial(f) /\ f # NoFilter
  <2>1. ~Matches(d, x)
    BY <1>2, <1>5
  <2>2. CASE \E n \in f.but : Everything(n)
    <3>1. \E n \in f.but : Means(n, x)
      BY <1>3, <2>2, MeaningFacts
    <3>2. QED
      BY <2>1, <3>1
  <2>3. CASE f.only # {} /\ \A p \in f.only : Nothing(p)
    <3>1. ~\E p \in f.only : Means(p, x)
      BY <1>3, <2>3, MeaningFacts
    <3>2. QED
      BY <2>1, <2>3, <3>1
  <2>4. QED
    BY <1>5, <2>2, <2>3 DEF Trivial
<1>6. CASE /\ ~IsAlways(d) /\ ~Trivial(f)
           /\ Says(In(AsList(d).positive), In(AsList(d).negative), f)
  <2> DEFINE X == In(AsList(d).positive)
             Y == In(AsList(d).negative)
  <2>1. Matches(d, x) <=> (\E e \in X : MatchesItem(e, x)) /\ \A e \in Y : ~MatchesItem(e, x)
    BY MatchesAsList
  <2>2. /\ (\E e \in X : MatchesItem(e, x)) <=> f.only = {} \/ \E p \in f.only : Means(p, x)
        /\ (\E e \in Y : MatchesItem(e, x)) <=> \E n \in f.but : Means(n, x)
    BY <1>6, Zenon DEF Says
  <2> HIDE DEF X, Y
  <2>3. QED
    BY <2>1, <2>2
<1>7. QED
  BY <1>4, <1>5, <1>6, Zenon DEF Shown

LEMMA InvShows == FilterInv => ShowsWhatWasAsked
<1> SUFFICES ASSUME FilterInv PROVE ShowsWhatWasAsked
  OBVIOUS
<1> DEFINE f == AskedOf(asked)[Len(asked)]
<1>1. f \in Filters /\ Shown(display_matcher, f)
  BY DEF FilterInv
<1>2. ASSUME NEW m
      PROVE  Wanted(m) <=> /\ f.only = {} \/ \E p \in f.only : Means(p, m)
                           /\ \A n \in f.but : ~Means(n, m)
  BY AskedIs, Zenon DEF Wanted
<1> HIDE DEF f
<1>3. QED
  BY <1>1, <1>2, ShownMatches DEF ShowsWhatWasAsked

(* Whatever the user typed, one command after the other, the messages shown   *)
(* are those that the commands together ask for: parse, simplify and join of  *)
(* core/matcher.py keep the meaning that matchers.md gives.                   *)
THEOREM FilterShowsWhatWasAsked == FilterSpec => []ShowsWhatWasAsked
<1>1. FilterInit => FilterInv
  BY InitHolds
<1>2. FilterInv /\ [FilterNext]_filterVars => FilterInv'
  BY NextKeeps
<1>3. FilterInv => ShowsWhatWasAsked
  BY InvShows
<1>4. QED
  BY <1>1, <1>2, <1>3, PTL DEF FilterSpec

(* One text alone: what it is parsed to and simplified matches what           *)
(* matchers.md says that the text means.                                      *)
THEOREM MatcherMeansItsText ==
  ASSUME NEW t, GoodText(t), NEW x
  PROVE  Matches(Simplify(Parse(t)), x) <=> MeansList(t, x, Means)
<1> DEFINE d == Simplify(Parse(t))
           f == Extended(NoFilter, t)
<1>1. PICK P \in Seq(Items), N \in Seq(Items) : d = SimplerList(P, N) /\ Reads(In(P), In(N), t)
  BY ParsedFacts, Zenon DEF ParsedWell
<1>2. NoFilter \in Filters /\ Trivial(NoFilter)
  BY NothingAsked DEF Trivial
<1>3. f \in Filters
  BY <1>2, ExtendedFacts, Zenon
<1> HIDE DEF d, f
<1>4. Says(In(P), In(N), f)
  BY <1>1, <1>2, FreshSays, Zenon DEF f
<1>5. Shown(d, f)
  BY <1>1, <1>3, <1>4, SimplifiedShown
<1>6. Matches(d, x) <=> /\ f.only = {} \/ \E p \in f.only : Means(p, x)
                        /\ \A n \in f.but : ~Means(n, x)
  BY <1>3, <1>5, ShownMatches
<1>7. /\ (f.only = {} \/ \E p \in f.only : Means(p, x)) <=> \E p \in In(t.pos) : Means(p, x)
      /\ (\E n \in f.but : Means(n, x)) <=> \E n \in In(t.neg) : Means(n, x)
  <2>1. /\ (\E e \in In(P) : MatchesItem(e, x)) <=> f.only = {} \/ \E p \in f.only : Means(p, x)
        /\ (\E e \in In(N) : MatchesItem(e, x)) <=> \E n \in f.but : Means(n, x)
    BY <1>4, Zenon DEF Says
  <2>2. /\ (\E e \in In(P) : MatchesItem(e, x)) <=> \E p \in In(t.pos) : Means(p, x)
        /\ (\E e \in In(N) : MatchesItem(e, x)) <=> \E n \in In(t.neg) : Means(n, x)
    BY <1>1, Zenon DEF Reads
  <2>3. QED
    BY <2>1, <2>2
<1>8. MeansList(t, x, Means) <=> /\ \E i \in DOMAIN t.pos : Means(t.pos[i], x)
                                 /\ \A i \in DOMAIN t.neg : ~Means(t.neg[i], x)
  BY TextParts, Zenon DEF MeansList
<1>9. /\ (\E p \in In(t.pos) : Means(p, x)) <=> \E i \in DOMAIN t.pos : Means(t.pos[i], x)
      /\ (\E n \in In(t.neg) : Means(n, x)) <=> \E i \in DOMAIN t.neg : Means(t.neg[i], x)
  BY DEF In
<1>10. QED
  BY <1>6, <1>7, <1>8, <1>9, Zenon DEF d
==============================================================================
