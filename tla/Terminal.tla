------------------------------ MODULE Terminal ------------------------------
(***************************************************************************)
(* The terminal of src/apps/terminal/main.c: the grid of characters with   *)
(* its cursor, the input line edited in it, and the command history.       *)
(* Keys are those that pass the test of the event's type (main.c:241).     *)
(* Colours and pixels are left out.  handle_delete, the left and right     *)
(* arrows, home, end and get_completions have no body in the repository    *)
(* and are modelled from their names and uses; a command other than        *)
(* "clear" and "help" prints nothing here.  A behaviour ends when a line   *)
(* has outgrown its buffer: strlen then runs on into the fields behind it. *)
(***************************************************************************)
EXTENDS Integers, Sequences, SequencesExt

CONSTANTS
    Rows, Cols,     \* terminal->rows and ->cols, from the window and the font
    MaxInputLength, MaxHistory,
    ByteValues,     \* values of a byte, 256
    PromptLengths,  \* lengths of the prompts, which name the working directory
    Chars,          \* characters that are typed
    Blank, Mark,    \* a space; a character of the prompt or of printed text
    Clear, Help,    \* the commands "clear" and "help", as typed
    HelpLines       \* lines that show_help prints

ASSUME TerminalAssumption ==
    /\ Rows \in Nat \ {0} /\ Cols \in Nat \ {0}
    /\ MaxInputLength \in Nat \ {0} /\ MaxHistory \in Nat \ {0}
    /\ PromptLengths \subseteq Nat /\ PromptLengths # {} /\ HelpLines \in Nat
    /\ Blank \notin Chars /\ Mark \notin Chars /\ Blank # Mark

ASSUME ByteAssumption == ByteValues \in Nat \ {0}

VARIABLES
    screen,         \* buffer (rows * cols of it), cursor_x and cursor_y
    promptLength,
    input,          \* input_buffer
    inputPos,       \* input_pos
    history, historyPos

terminalVars == <<screen, promptLength, input, inputPos, history, historyPos>>

Cells == (0 .. Rows - 1) \X (0 .. Cols - 1)

Screens == [cell : [Cells -> Chars \cup {Blank, Mark}], x : Nat, y : 0 .. Rows - 1]

BlankScreen == [cell |-> [c \in Cells |-> Blank], x |-> 0, y |-> 0]

-----------------------------------------------------------------------------
(* Printing.                                                               *)

\* scroll_up
ScrollUp(s) == [s EXCEPT !.cell =
    [c \in Cells |-> IF c[1] < Rows - 1 THEN s.cell[<<c[1] + 1, c[2]>>] ELSE Blank]]

\* newline
NewLine(s) ==
    IF s.y + 1 >= Rows THEN [ScrollUp(s) EXCEPT !.x = 0, !.y = Rows - 1]
    ELSE [s EXCEPT !.x = 0, !.y = @ + 1]

\* put_char
PutChar(s, c) ==
    LET t == IF s.x >= Cols THEN NewLine(s) ELSE s
    IN  [t EXCEPT !.cell[<<t.y, t.x>>] = c, !.x = @ + 1]

\* print_text
PrintText(s, text) ==
    LET printed[n \in 0 .. Len(text)] ==
            IF n = 0 THEN s ELSE PutChar(printed[n - 1], text[n])
    IN  printed[Len(text)]

Marks(n) == [i \in 1 .. n |-> Mark]

\* print_line
PrintLine(s, n) == NewLine(PrintText(s, Marks(n)))

\* print_line, called for each of a list of texts that fit in a row
PrintLines(s, lines) ==
    LET printed[n \in 0 .. Len(lines)] ==
            IF n = 0 THEN s ELSE PrintLine(printed[n - 1], lines[n])
    IN  printed[Len(lines)]

\* display_prompt
DisplayPrompt(s, length) == PrintText(s, Marks(length))

\* (Mutant of ClearedLine: what was there is written over, not cleared.)
NotClearedLine(s, from) == s

\* Lines 391-397: blanks from the prompt to the end of the cursor's row
ClearedLine(s, from) == [s EXCEPT !.cell =
    [c \in Cells |-> IF c[1] = s.y /\ c[2] >= from THEN Blank ELSE s.cell[c]]]

\* redraw_input_line
RedrawInputLine(s, length, text, pos) ==
    [PrintText([ClearedLine(s, length) EXCEPT !.x = length], text) EXCEPT !.x = length + pos]

-----------------------------------------------------------------------------
(* Keys.                                                                   *)

\* The input becomes text, with the cursor at pos, and is drawn again.
Edited(text, pos) ==
    /\ input' = text
    /\ inputPos' = pos
    /\ screen' = RedrawInputLine(screen, promptLength, text, pos)
    /\ UNCHANGED promptLength

\* The terminating zero of the line is within input_buffer.
Terminated == Len(input) < MaxInputLength

\* A character in front of the end of a full line.  memmove fills the buffer and writes the
\* terminating zero over the low byte of input_pos, which follows it (terminal.h:54-55); the
\* character goes where input_pos says now, or to the cursor in a build that kept it.
InsertOverrunning(c) ==
    LET moved == InsertAt(input, inputPos + 1, input[inputPos + 1])
    IN  \E pos \in {inputPos, inputPos - (inputPos % ByteValues)} :
            Edited([moved EXCEPT ![pos + 1] = c], pos + 1)

\* handle_character_input, which looks at the cursor and not at the length of the line
HandleCharacterInput(c) ==
    /\ inputPos < MaxInputLength - 1
    /\ IF Len(input) < MaxInputLength - 1
       THEN Edited(InsertAt(input, inputPos + 1, c), inputPos + 1)
       ELSE InsertOverrunning(c)
    /\ UNCHANGED <<history, historyPos>>

\* handle_backspace
HandleBackspace ==
    /\ inputPos > 0
    /\ Edited(RemoveAt(input, inputPos), inputPos - 1)
    /\ UNCHANGED <<history, historyPos>>

\* handle_left_arrow, handle_right_arrow, handle_home, handle_end
HandleCursorKey(pos) ==
    /\ inputPos' = pos
    /\ screen' = [screen EXCEPT !.x = promptLength + pos]
    /\ UNCHANGED <<promptLength, input, history, historyPos>>

\* handle_up_arrow
HandleUpArrow ==
    /\ historyPos > 0
    /\ historyPos' = historyPos - 1
    /\ LET line == history[historyPos] IN Edited(line, Len(line))
    /\ UNCHANGED history

\* handle_down_arrow: the next line, or behind the last one an empty line
HandleDownArrow ==
    /\ historyPos < Len(history)
    /\ historyPos' = historyPos + 1
    /\ LET line == IF historyPos = Len(history) - 1 THEN <<>> ELSE history[historyPos + 2]
       IN  Edited(line, Len(line))
    /\ UNCHANGED history

\* handle_tab: a single completion, shorter than the buffer (line 370), replaces the
\* input; several are listed.
HandleTab ==
    \/ \E c \in Chars :
         /\ Len(input) < MaxInputLength - 1
         /\ Edited(Append(input, c), Len(input) + 1)
         /\ UNCHANGED <<history, historyPos>>
    \/ \E length \in PromptLengths :
         LET listed == DisplayPrompt(PrintLines(NewLine(screen), <<1, 1>>), length)
         IN  /\ screen' = RedrawInputLine(listed, length, input, inputPos)
             /\ promptLength' = length
             /\ UNCHANGED <<input, inputPos, history, historyPos>>

\* Lines 460-463
Repeats(lines, line) == lines # <<>> /\ Last(lines) = line

\* (Mutant of Remembered: a full history gives up its newest line instead of its oldest.)
RememberedOverLast(lines, line) ==
    IF Repeats(lines, line) THEN lines
    ELSE IF Len(lines) < MaxHistory THEN Append(lines, line)
    ELSE [lines EXCEPT ![MaxHistory] = line]

\* add_to_history
Remembered(lines, line) ==
    IF Repeats(lines, line) THEN lines
    ELSE IF Len(lines) < MaxHistory THEN Append(lines, line)
    ELSE Append(Tail(lines), line)

\* execute_command, for what it does to the screen
Executed(s, line) ==
    IF line = Clear THEN BlankScreen
    ELSE IF line = Help THEN PrintLines(s, [i \in 1 .. HelpLines |-> 1])
    ELSE s

\* handle_enter.  history_pos moves only when the line is added.
HandleEnter(length) ==
    /\ history' = IF input = <<>> THEN history ELSE Remembered(history, input)
    /\ historyPos' = IF input = <<>> \/ Repeats(history, input)
                     THEN historyPos ELSE Len(history')
    /\ screen' = DisplayPrompt(Executed(NewLine(screen), input), length)
    /\ promptLength' = length
    /\ input' = <<>>
    /\ inputPos' = 0

-----------------------------------------------------------------------------
\* main, with display_welcome
TerminalInit ==
    /\ promptLength \in PromptLengths
    /\ screen = DisplayPrompt(PrintLines(BlankScreen, <<1, 1, 0>>), promptLength)
    /\ input = <<>>
    /\ inputPos = 0
    /\ history = <<>>
    /\ historyPos = 0

\* handle_terminal_keyboard_event
TerminalNext ==
    /\ Terminated
    /\ \/ \E c \in Chars : HandleCharacterInput(c)
       \/ HandleBackspace
       \/ \E pos \in 0 .. Len(input) : HandleCursorKey(pos)
       \/ HandleUpArrow
       \/ HandleDownArrow
       \/ HandleTab
       \/ \E length \in PromptLengths : HandleEnter(length)

TerminalSpec == TerminalInit /\ [][TerminalNext]_terminalVars

-----------------------------------------------------------------------------
InputLines == {line \in Seq(Chars) : Len(line) <= MaxInputLength - 1}

TerminalTypeOK ==
    /\ screen \in Screens
    /\ promptLength \in PromptLengths
    /\ input \in Seq(Chars) /\ Len(input) <= MaxInputLength
    /\ inputPos \in 0 .. Len(input)
    /\ history \in Seq(InputLines \ {<<>>}) /\ Len(history) <= MaxHistory
    /\ historyPos \in 0 .. Len(history)

\* What you see is what Enter will run: whenever prompt and input fit in one row, the
\* cursor's row shows the input behind the columns of the prompt, blanks behind the input,
\* and the cursor at the place where the next character goes, as long as the line has not
\* outgrown its buffer.  (redraw_input_line after every way to change the line, scrolling,
\* `clear` and earlier lines that wrapped.)
InputShown ==
    Terminated /\ promptLength + Len(input) <= Cols =>
        /\ screen.x = promptLength + inputPos
        /\ \A x \in promptLength .. Cols - 1 :
              screen.cell[<<screen.y, x>>] =
                  IF x < promptLength + Len(input) THEN input[x - promptLength + 1] ELSE Blank

\* A typed character comes in front of those the cursor is on, which all stay: "Insert
\* character at cursor position" (line 316).
InsertsAtCursor ==
    [][\A c \in Chars : HandleCharacterInput(c) =>
           input' = InsertAt(input, inputPos + 1, c) /\ inputPos' = inputPos + 1]_terminalVars

\* "Don't add duplicate consecutive commands" (main.c:459), also when the oldest
\* line is given up to make room.
HistoryHasNoRepeats ==
    \A i \in 1 .. Len(history) - 1 : history[i] # history[i + 1]
=============================================================================
