---------------------------- MODULE CommandLine ----------------------------
(***************************************************************************)
(* parse_command_line of the shell (src/cli/shell.c), for every line that  *)
(* can be typed token by token.  A trailing "&" is handed over apart.      *)
(* Pipes that the command_t has no room for are written over the fields    *)
(* behind pipe_positions (shell.h:22-37, with pointers of 8 bytes).        *)
(***************************************************************************)
EXTENDS Integers, Sequences, FiniteSets, SequencesExt

CONSTANTS
    MaxArgs,    \* MAX_ARGS
    MaxPipes,   \* MAX_PIPES
    Tokens,     \* the tokens of a line: words, "|" and redirections
    MaxTokens,  \* bound on the tokens of a line
    None,       \* NULL
    Garbage     \* a pointer that was written over

Redirections == {"<", ">", ">>"}

ASSUME LineAssumption ==
    MaxArgs \in Nat \ {0} /\ MaxTokens \in Nat /\ None \notin Tokens \cup Redirections

ASSUME PipesAssumption == MaxPipes \in Nat

VARIABLE typed  \* the tokens typed so far

NoCommand == [argv |-> <<>>, pipes |-> <<>>, input |-> None, output |-> None,
              append |-> FALSE, background |-> FALSE]

\* What a redirection does with the token after it, whatever that is
Redirect(cmd, op, target) ==
    IF op = "<" THEN [cmd EXCEPT !.input = target]
    ELSE [cmd EXCEPT !.output = target, !.append = (op = ">>")]

\* A pointer half of which has become n: still NULL, or no pointer to any word.
Overwritten(pointer, n) == IF pointer = None /\ n = 0 THEN None ELSE Garbage

\* pipe_positions[pipe_count++] = argc, whatever is at that place: behind the array are four
\* bytes of padding, the halves of the two pointers, and the two flags.
WithPipe(cmd) ==
    LET argc  == Len(cmd.argv)
        piped == [cmd EXCEPT !.pipes = Append(@, argc)]
        over  == Len(cmd.pipes) - MaxPipes
    IN  CASE over \in {1, 2} -> [piped EXCEPT !.input = Overwritten(@, argc)]
          [] over \in {3, 4} -> [piped EXCEPT !.output = Overwritten(@, argc)]
          [] over = 5        -> [piped EXCEPT !.append = (argc # 0), !.background = FALSE]
          [] OTHER           -> piped

\* (Mutant of ParseToken: the flag of an earlier ">>" stays.)
ParseTokenKeepingAppend(parse, token) ==
    LET cmd == parse.cmd IN
    IF parse.pending # None
    THEN [cmd |-> IF parse.pending = ">" THEN [cmd EXCEPT !.output = token]
                  ELSE Redirect(cmd, parse.pending, token), pending |-> None]
    ELSE IF Len(cmd.argv) >= MaxArgs - 1 THEN parse
    ELSE IF token \in Redirections THEN [parse EXCEPT !.pending = token]
    ELSE IF token = "|" THEN [parse EXCEPT !.cmd = WithPipe(cmd)]
    ELSE [parse EXCEPT !.cmd.argv = Append(@, token)]

\* One token; `pending` is the redirection that waits for its file.
ParseToken(parse, token) ==
    LET cmd == parse.cmd IN
    IF parse.pending # None
    THEN [cmd |-> Redirect(cmd, parse.pending, token), pending |-> None]
    ELSE IF Len(cmd.argv) >= MaxArgs - 1 THEN parse
    ELSE IF token \in Redirections THEN [parse EXCEPT !.pending = token]
    ELSE IF token = "|" THEN [parse EXCEPT !.cmd = WithPipe(cmd)]
    ELSE [parse EXCEPT !.cmd.argv = Append(@, token)]

ParseCommandLine(tokens, background) ==
    LET parsed[k \in 0 .. Len(tokens)] ==
            IF k = 0
            THEN [cmd |-> [NoCommand EXCEPT !.background = background], pending |-> None]
            ELSE ParseToken(parsed[k - 1], tokens[k])
    IN  parsed[Len(tokens)].cmd

TypedInit == typed = <<>>

TypeToken == Len(typed) < MaxTokens /\ \E token \in Tokens : typed' = Append(typed, token)

TypedSpec == TypedInit /\ [][TypeToken]_typed

-----------------------------------------------------------------------------
\* A redirection in a line is "<", ">" or ">>" that is not the file of another one:
\* one with an even number of such tokens directly before it.
IsRedirection(tokens, k) ==
    /\ tokens[k] \in Redirections
    /\ \E n \in 0 .. (k - 1) :
          /\ n % 2 = 0
          /\ \A i \in (k - n) .. (k - 1) : tokens[i] \in Redirections
          /\ k - n - 1 > 0 => tokens[k - n - 1] \notin Redirections

\* The word that redirections of one kind leave: that of the last one with a file
LastFile(tokens, kinds) ==
    LET at == {k \in 1 .. (Len(tokens) - 1) : IsRedirection(tokens, k) /\ tokens[k] \in kinds}
    IN  IF at = {} THEN <<None, None>>
        ELSE LET k == CHOOSE k \in at : \A i \in at : i <= k IN <<tokens[k], tokens[k + 1]>>

\* The tokens that are not part of a redirection: words and pipes.
Free(tokens) ==
    {k \in DOMAIN tokens :
        ~IsRedirection(tokens, k) /\ (k > 1 => ~IsRedirection(tokens, k - 1))}
Words(tokens) == {k \in Free(tokens) : tokens[k] # "|"}
Bars(tokens)  == Free(tokens) \ Words(tokens)

\* A line means what it says, whatever mix of words, pipes and redirections it is: the
\* arguments are the words in their order, each pipe stands where it was between them,
\* and the last redirection of a kind decides, together with its own append flag.
\* Not claimed of a line with as many words as argv holds, whose end is ignored, or with
\* more pipes than pipe_positions.
ParsedAsWritten ==
    LET cmd    == ParseCommandLine(typed, FALSE)
        words  == Words(typed)
        bars   == Bars(typed)
        output == LastFile(typed, {">", ">>"})
    IN  Cardinality(words) < MaxArgs - 1 /\ Cardinality(bars) <= MaxPipes =>
            /\ Len(cmd.argv) = Cardinality(words)
            /\ \A k \in words :
                  cmd.argv[Cardinality({i \in words : i <= k})] = typed[k]
            /\ Len(cmd.pipes) = Cardinality(bars)
            /\ \A k \in bars :
                  cmd.pipes[Cardinality({i \in bars : i <= k})] =
                      Cardinality({i \in words : i < k})
            /\ cmd.input = LastFile(typed, {"<"})[2]
            /\ cmd.output = output[2]
            /\ cmd.append = (output[1] = ">>")
=============================================================================
