-------------------------------- MODULE Shell --------------------------------
(***************************************************************************)
(* The command line of the shell (shell/acsh.c, shell/parser.c): one       *)
(* action per key that console_handle_key reacts to and that a keyboard    *)
(* driver sends, the history, and the splitting of a line at "&&".         *)
(*                                                                         *)
(* input_buffer is the string up to its NUL; input_pos counts from 0.      *)
(* What the commands do is not modelled, only which ones are called.       *)
(***************************************************************************)
EXTENDS Integers, SequencesExt

CONSTANTS
  Keys,               \* printable characters that are typed; SPACE and AMP among them
  MAX_INPUT_LEN, MAX_HISTORY, MAX_CHAINED_CMDS,
  MAX_NAME,           \* 63: what fits in cmd_name
  TAB,                \* 4: spaces a tab stands for
  Garbage,            \* what a command array that was never written may hold
  MaxEntered,         \* bound: no key once this many lines were entered
  MaxTyped            \* bound: characters in the lines entered and the one on the screen

SPACE == " "
AMP == "&"

ASSUME ShellAssumption ==
  /\ MAX_INPUT_LEN \in Nat /\ MAX_INPUT_LEN > 1 /\ MAX_HISTORY \in Nat \ {0}
  /\ MAX_CHAINED_CMDS \in Nat \ {0} /\ MAX_NAME \in Nat \ {0} /\ TAB \in Nat /\ MaxEntered \in Nat /\ MaxTyped \in Nat

VARIABLES
  input_buffer, input_pos,
  command_history,     \* [0 .. history_count - 1], from 1 here
  history_pos,         \* -1, or an index from 0
  entered,             \* auxiliary: every line entered so far
  ran                  \* auxiliary: the commands that the last line called

shellVars == <<input_buffer, input_pos, command_history, history_pos, entered, ran>>

history_count == Len(command_history)
FirstFew(s, n) == SubSeq(s, 1, IF n < Len(s) THEN n ELSE Len(s))
Typing == Len(entered) < MaxEntered

ShellInit ==
  /\ input_buffer = <<>> /\ input_pos = 0
  /\ command_history = <<>> /\ history_pos = -1
  /\ entered = <<>> /\ ran = <<>>

-----------------------------------------------------------------------------
(* Mutant: the oldest entry stays, the second oldest goes. *)
add_to_history_keeps_first(command) ==
  IF history_count > 0 /\ Last(command_history) = command THEN command_history
  ELSE IF history_count < MAX_HISTORY THEN Append(command_history, command)
  ELSE [i \in 1 .. MAX_HISTORY |-> IF i = MAX_HISTORY THEN command
                                   ELSE IF i = 1 THEN command_history[1] ELSE command_history[i + 1]]

add_to_history(command) ==
  IF history_count > 0 /\ Last(command_history) = command THEN command_history
  ELSE IF history_count < MAX_HISTORY THEN Append(command_history, command)
  ELSE [i \in 1 .. MAX_HISTORY |-> IF i = MAX_HISTORY THEN command ELSE command_history[i + 1]]

ChainAt(line, p) == p < Len(line) /\ line[p] = AMP /\ line[p + 1] = AMP

(* The first position from p on that is not a space, or the one of the NUL. *)
SkipSpaces(line, p) ==
  CHOOSE q \in p .. Len(line) + 1 : /\ \A r \in p .. q - 1 : line[r] = SPACE
                                    /\ q <= Len(line) => line[q] # SPACE

(* The first position from p on where "&&" starts, or the one of the NUL.   *)
CopyUntil(line, p) ==
  CHOOSE q \in p .. Len(line) + 1 : /\ \A r \in p .. q - 1 : ~ChainAt(line, r)
                                    /\ q <= Len(line) => ChainAt(line, q)

(* Mutant: one character behind "&&" is skipped as well. *)
ResumeLate(q) == q + 3

Resume(q) == q + 2

(* A round of the loop of parse_and_execute_chained that fills commands[].  *)
(* When the line ends with "&&" one more entry is counted that was never    *)
(* written: its array is only cut at the length of the command before, even *)
(* if that entry is one past the last.                                      *)
ChainRound(st, line, garbage) ==
  LET start == SkipSpaces(line, st.p)
      end == CopyUntil(line, start)
      cmd == SubSeq(line, start, end - 1)
      filled == Append(st.commands, cmd)
  IN  IF st.p > Len(line) THEN st
      ELSE IF end > Len(line) THEN [p |-> end, commands |-> filled]
      ELSE [p |-> Resume(end),
            commands |-> IF end + 2 > Len(line) THEN Append(filled, FirstFew(garbage, Len(cmd))) ELSE filled]
Filling(line, garbage) ==
  LET after[n \in 0 .. MAX_CHAINED_CMDS] ==
        IF n = 0 THEN [p |-> 1, commands |-> <<>>] ELSE ChainRound(after[n - 1], line, garbage)
  IN  after
Commands(line, garbage) == Filling(line, garbage)[MAX_CHAINED_CMDS].commands

TrimEnd(cmd) == SubSeq(cmd, 1, LET ink == {i \in DOMAIN cmd : cmd[i] # SPACE}
                               IN  IF ink = {} THEN 0 ELSE CHOOSE i \in ink : \A j \in ink : j <= i)

(* console_execute: the name it looks up and the arguments it passes. *)
Call(line) ==
  LET start == SkipSpaces(line, 1)
      end == CHOOSE q \in start .. Len(line) + 1 : /\ \A r \in start .. q - 1 : line[r] # SPACE
                                                   /\ q <= Len(line) => line[q] = SPACE
  IN  [name |-> FirstFew(SubSeq(line, start, end - 1), MAX_NAME),
       args |-> SubSeq(line, SkipSpaces(line, end), Len(line))]

HasWord(line) == \E i \in DOMAIN line : line[i] # SPACE

(* The commands that are called: those with a word, in order. *)
Nth(S, n) == CHOOSE i \in S : Cardinality({j \in S : j <= i}) = n
CallsOf(commands) ==
  LET some == {i \in DOMAIN commands : HasWord(commands[i])}
  IN  [k \in 1 .. Cardinality(some) |-> Call(commands[Nth(some, k)])]

HasChain(line) == \E i \in DOMAIN line : ChainAt(line, i)

(* Enter: the text before the cursor is the line, the rest is dropped. *)
Enter(garbage) ==
  LET line == SubSeq(input_buffer, 1, input_pos) IN
  /\ Typing
  /\ IF input_pos = 0 THEN UNCHANGED shellVars
     ELSE /\ command_history' = add_to_history(line) /\ history_pos' = -1
          /\ entered' = Append(entered, line)
          /\ ran' = IF HasChain(line)
                    THEN CallsOf([i \in DOMAIN Commands(line, garbage) |-> TrimEnd(Commands(line, garbage)[i])])
                    ELSE CallsOf(<<line>>)
          /\ input_buffer' = <<>> /\ input_pos' = 0

-----------------------------------------------------------------------------
EditsLine(text, pos) ==
  /\ Typing /\ Len(FlattenSeq(entered)) + Len(text) <= MaxTyped
  /\ input_buffer' = text /\ input_pos' = pos
  /\ UNCHANGED <<command_history, entered, ran>>

CtrlC == EditsLine(<<>>, 0) /\ UNCHANGED history_pos

Backspace ==
  /\ input_pos > 0
  /\ EditsLine(RemoveAt(input_buffer, input_pos), input_pos - 1) /\ UNCHANGED history_pos

Room == MAX_INPUT_LEN - 1 - Len(input_buffer)

Tab ==
  LET n == IF TAB < Room THEN TAB ELSE Room IN
  /\ EditsLine(SubSeq(input_buffer, 1, input_pos) \o [i \in 1 .. n |-> SPACE]
                 \o SubSeq(input_buffer, input_pos + 1, Len(input_buffer)), input_pos + n)
  /\ UNCHANGED history_pos

Type(c) ==
  /\ history_pos' = -1
  /\ IF Room > 0 THEN EditsLine(InsertAt(input_buffer, input_pos + 1, c), input_pos + 1)
     ELSE EditsLine(input_buffer, input_pos)

Recall(p) == EditsLine(command_history[p + 1], Len(command_history[p + 1])) /\ history_pos' = p

(* The oldest entry first; leaving the line being typed cuts it at the      *)
(* cursor.                                                                  *)
Up ==
  IF history_pos < history_count - 1 THEN Recall(history_pos + 1)
  ELSE /\ EditsLine(IF history_pos = -1 THEN SubSeq(input_buffer, 1, input_pos) ELSE input_buffer, input_pos)
       /\ UNCHANGED history_pos

Down ==
  /\ history_pos >= 0
  /\ IF history_pos > 0 THEN Recall(history_pos - 1) ELSE EditsLine(<<>>, 0) /\ history_pos' = -1

Left == input_pos > 0 /\ EditsLine(input_buffer, input_pos - 1) /\ UNCHANGED history_pos
Right == input_pos < Len(input_buffer) /\ EditsLine(input_buffer, input_pos + 1) /\ UNCHANGED history_pos

ShellNext ==
  \/ \E garbage \in Garbage : Enter(garbage)
  \/ CtrlC \/ Backspace \/ Tab \/ Up \/ Down \/ Left \/ Right
  \/ \E c \in Keys : Type(c)

ShellSpec == ShellInit /\ [][ShellNext]_shellVars

-----------------------------------------------------------------------------
(* The line and its NUL fit in the array, the cursor is never behind the    *)
(* NUL, and history_pos is an entry of the history.                         *)
LineFits ==
  /\ Len(input_buffer) < MAX_INPUT_LEN /\ input_pos \in 0 .. Len(input_buffer)
  /\ history_pos \in -1 .. history_count - 1

(* The lines entered, without those equal to the one before. *)
Firsts(lines) == {i \in DOMAIN lines : i = 1 \/ lines[i] # lines[i - 1]}
Distinct(lines) == [k \in 1 .. Cardinality(Firsts(lines)) |-> lines[Nth(Firsts(lines), k)]]

LatestOf(lines, n) == SubSeq(lines, IF Len(lines) > n THEN Len(lines) - n + 1 ELSE 1, Len(lines))

(* The history is what was entered last, in order, however often it ran     *)
(* full and whatever was recalled, edited and entered again: no entry is    *)
(* lost before its time, repeated or changed by browsing.                   *)
HistoryRecent == command_history = LatestOf(Distinct(entered), MAX_HISTORY)

(* Both together, in whatever order lines are typed, recalled, edited and   *)
(* entered at the limits of the line and of the history                     *)
(* (console_handle_key, add_to_history).                                    *)
LinesKept == LineFits /\ HistoryRecent

(* "&&" splits a line where an even number of ampersands stands before it   *)
(* in its run.                                                              *)
Cuts(line) ==
  {i \in DOMAIN line : /\ ChainAt(line, i)
                       /\ \E k \in 0 .. i - 1 : /\ k % 2 = 0 /\ \A j \in i - k .. i : line[j] = AMP
                                                /\ i - k > 1 => line[i - k - 1] # AMP}
Part(line, k) ==
  LET cuts == Cuts(line)
      first == IF k = 1 THEN 1 ELSE Nth(cuts, k - 1) + 2
  IN  SubSeq(line, first, IF k > Cardinality(cuts) THEN Len(line) ELSE Nth(cuts, k) - 1)

(* Entering a line that does not end with "&&" calls the commands between   *)
(* its "&&", each once and in order, with their names and arguments: the    *)
(* first MAX_CHAINED_CMDS of them, empty ones counted but not called.       *)
RunsParts ==
  entered # <<>> =>
    LET line == Last(entered)
        n == Cardinality(Cuts(line)) + 1
        parts == [k \in 1 .. (IF n < MAX_CHAINED_CMDS THEN n ELSE MAX_CHAINED_CMDS) |-> Part(line, k)]
    IN  Len(line) - 1 \notin Cuts(line) =>
          ran = IF n = 1 THEN CallsOf(<<line>>) ELSE CallsOf([k \in DOMAIN parts |-> TrimEnd(parts[k])])

(* What the keys preserve: the line and the history's are lines that fit,   *)
(* and the lines entered are numbered without gaps and end with the newest. *)
Lines == {line \in Seq(Keys \cup {SPACE}) : Len(line) < MAX_INPUT_LEN}
Numbered(S) == \A n \in 1 .. Cardinality(S) : \E i \in S : Cardinality({j \in S : j <= i}) = n
ShellInv ==
  /\ input_buffer \in Lines /\ input_pos \in 0 .. Len(input_buffer)
  /\ command_history \in Seq(Lines) /\ entered \in Seq(Lines)
  /\ history_pos \in -1 .. Len(command_history) - 1
  /\ HistoryRecent /\ Numbered(Firsts(entered))
  /\ entered # <<>> => Distinct(entered) # <<>> /\ Last(Distinct(entered)) = Last(entered)
=============================================================================
