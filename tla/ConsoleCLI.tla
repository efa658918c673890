----------------------------- MODULE ConsoleCLI -----------------------------
(***************************************************************************)
(* extensions/configuration/cli/console_cli.cpp: the line a user edits     *)
(* (get_input), its echo, the words it is cut into (handle_input) and the  *)
(* commands that store settings.                                           *)
(*                                                                         *)
(* A key is a token: the name of a command is one, and serves as a letter  *)
(* elsewhere.  The store that the commands write to is EEPROMSettings;     *)
(* here a write succeeds and verifies, or it does not.  Commands that an   *)
(* application adds to the table are left out.                             *)
(***************************************************************************)
EXTENDS Integers, Sequences, FiniteSets, SequencesExt

CONSTANTS
    INBUF_SIZE, MAX_CMD_ARG,
    WIFI_SSID_MAX_LEN, WIFI_PWD_MAX_LEN,
    SSIDZoneSize, PwdZoneSize,      \* of the zones they are stored in
    KeyDigits,          \* 64: the digits of a key given to enable_secure
    Keyboards           \* sets of characters, one of which a behaviour uses

ASSUME ConsoleAssumption ==
    /\ INBUF_SIZE \in Nat \ {0} /\ MAX_CMD_ARG \in Nat \ {0}
    /\ WIFI_SSID_MAX_LEN <= SSIDZoneSize /\ WIFI_PWD_MAX_LEN <= PwdZoneSize

\* The commands, and isPrivacy of each.
cmds == [n \in {"help", "version", "exit", "scan", "set_wifissid", "set_wifipwd",
                "enable_secure"} |-> n = "set_wifipwd"]
HexDigits == {"1", "3", "a"}

VARIABLES
    keyboard,
    inbuf,              \* its first bp characters
    terminal,           \* what it shows after the prompt
    ran                 \* what the line handled last did, until the next key

consoleVars == <<keyboard, inbuf, terminal, ran>>

NoLine == [words |-> <<>>, wrote |-> <<>>, said |-> {}]

ConsoleInit ==
    /\ keyboard \in Keyboards
    /\ inbuf = <<>> /\ terminal = <<>> /\ ran = NoLine

-----------------------------------------------------------------------------
(* Editing a line.                                                         *)

\* The characters in front of the first space name a private command.
is_privacy_cmd(line) ==
    \E j \in DOMAIN line :
        /\ line[j] = " " /\ \A k \in 1 .. j - 1 : line[k] # " "
        /\ j = 2 /\ line[1] \in DOMAIN cmds /\ cmds[line[1]]

\* A character is stored and shown; a line that fills the buffer is dropped.
Typed(ch) ==
    /\ IF Len(inbuf) + 1 >= INBUF_SIZE
       THEN inbuf' = <<>> /\ terminal' = <<>>
       ELSE /\ inbuf' = Append(inbuf, ch)
            /\ terminal' = Append(terminal, IF is_privacy_cmd(inbuf) THEN "*" ELSE ch)
    /\ ran' = NoLine /\ UNCHANGED keyboard

\* get_input, one character; a tab is a space, other control characters are
\* skipped.
get_input == \E ch \in keyboard : Typed(ch)
Delete ==
    /\ inbuf # <<>>
    /\ inbuf' = Front(inbuf) /\ terminal' = Front(terminal)
    /\ ran' = NoLine /\ UNCHANGED keyboard

-----------------------------------------------------------------------------
(* handle_input: one pass over the line, which is cut and shortened in     *)
(* place.                                                                  *)

Start(line) == [buf |-> line, i |-> 1, inArg |-> FALSE, inQuote |-> FALSE, argv |-> <<>>,
                done |-> FALSE, ret |-> 0]
CharAt(s, i) == IF i \in DOMAIN s.buf THEN s.buf[i] ELSE "nul"
Escaped(s) == s.i > 1 /\ CharAt(s, s.i - 1) = "backslash" /\ s.inArg

\* The memcpy over the backslash (its regions overlap; it copies upwards), and --i.
Unescaped(s) == [s EXCEPT !.buf = RemoveAt(s.buf, s.i - 1), !.i = @ - 1]
EndsArg(s) == [s EXCEPT !.inArg = FALSE, !.inQuote = FALSE, !.buf[s.i] = "nul"]
SyntaxError(s) == [s EXCEPT !.done = TRUE, !.ret = 1]

Quote(s) ==
    CASE Escaped(s) -> Unescaped(s)
      [] ~Escaped(s) /\ s.inQuote /\ s.inArg -> EndsArg(s)
      [] ~Escaped(s) /\ s.inQuote /\ ~s.inArg -> SyntaxError(s)
      [] ~Escaped(s) /\ ~s.inQuote /\ ~s.inArg ->
            [s EXCEPT !.inArg = TRUE, !.inQuote = TRUE, !.argv = Append(@, s.i + 1)]
      [] OTHER -> s

\* Mutation: a space is looked at before the backslash in front of it.
Blank_NotEscaped(s) == IF ~s.inQuote /\ s.inArg THEN EndsArg(s) ELSE s

Blank(s) ==
    IF Escaped(s) THEN Unescaped(s)
    ELSE IF ~s.inQuote /\ s.inArg THEN EndsArg(s) ELSE s

Turn(s) ==
    CASE CharAt(s, s.i) = "nul" -> IF s.inQuote THEN SyntaxError(s) ELSE [s EXCEPT !.done = TRUE]
      [] CharAt(s, s.i) = "quote" -> Quote(s)
      [] CharAt(s, s.i) = " " -> Blank(s)
      [] OTHER -> IF s.inArg THEN s ELSE [s EXCEPT !.inArg = TRUE, !.argv = Append(@, s.i)]

\* The loop's condition: it ends with the word that is one too many, which it
\* has counted, and leaves it uncut.
Loop(s, k) ==
    IF s.done THEN s
    ELSE LET t == Turn(s)
         IN  IF t.done THEN t
             ELSE [t EXCEPT !.i = @ + 1, !.done = Len(t.argv) > MAX_CMD_ARG,
                            !.ret = IF Len(t.argv) > MAX_CMD_ARG /\ t.inQuote THEN 1 ELSE 0]
Scanned(line) == FoldLeft(Loop, Start(line), [k \in 1 .. Len(line) + 1 |-> k])

\* A word ends at the next cut.
Word(buf, from) ==
    LET ends == {k \in from .. Len(buf) : buf[k] = "nul"}
    IN  IF ends = {} THEN SubSeq(buf, from, Len(buf))
        ELSE SubSeq(buf, from, (CHOOSE k \in ends : \A l \in ends : k <= l) - 1)
Words(s) == [k \in DOMAIN s.argv |-> Word(s.buf, s.argv[k])]

-----------------------------------------------------------------------------
(* The commands: what each may have written, and what it says.             *)

Says(message) == {[wrote |-> <<>>, said |-> {message}]}
write_eeprom(word, zone, size) ==
    IF Len(word) + 1 > size THEN Says("failed")
    ELSE Says("failed") \union {[wrote |-> <<zone, word>>, said |-> {m}] : m \in {"success", "failed"}}

wifi_ssid_command(argv) ==
    IF Len(argv) = 1 THEN Says("usage")
    ELSE IF Len(argv[2]) + 1 > WIFI_SSID_MAX_LEN THEN Says("invalid")
    ELSE write_eeprom(argv[2], "ssid", SSIDZoneSize)

\* A password that is too long is said to be invalid, and written all the same
\* if the zone has room for it.
wifi_pwd_Command(argv) ==
    LET pwd == IF Len(argv) = 1 THEN <<>> ELSE argv[2]
        warning == IF Len(pwd) + 1 > WIFI_PWD_MAX_LEN THEN {"invalid"} ELSE {}
    IN  {[o EXCEPT !.said = @ \union warning] : o \in write_eeprom(pwd, "pwd", PwdZoneSize)}

\* A level, or one character, whichever it is, and a key for level 2.
enable_secure_command(argv) ==
    LET level == IF Len(argv) = 2 THEN argv[2] ELSE <<"2">>
        accepted == /\ Len(argv) > 1 /\ Len(argv[2]) = 1
                    /\ \/ Len(argv) = 2 /\ argv[2][1] \in {"1", "3"}
                       \/ /\ Len(argv) = 3 /\ Len(argv[3]) = KeyDigits
                          /\ Range(argv[3]) \subseteq HexDigits
    IN  IF accepted
        THEN {[wrote |-> <<"secure", level>>, said |-> {"success"}]} \union Says("failed")
                \union Says("already")
        ELSE Says("usage")

\* help, version and scan only print; exit restarts the board.
Performed(argv) ==
    IF ~(Len(argv[1]) = 1 /\ argv[1][1] \in DOMAIN cmds) THEN Says("unknown")
    ELSE CASE argv[1][1] = "set_wifissid" -> wifi_ssid_command(argv)
           [] argv[1][1] = "set_wifipwd" -> wifi_pwd_Command(argv)
           [] argv[1][1] = "enable_secure" -> enable_secure_command(argv)
           [] OTHER -> Says("printed")

\* The end of the line: get_input, then handle_input.
handle_input ==
    LET s == Scanned(inbuf)
    IN  \E o \in IF s.ret = 1 THEN Says("syntax") ELSE IF s.argv = <<>> THEN Says("nothing")
                 ELSE Performed(Words(s)) :
          ran' = [words |-> Words(s), wrote |-> o.wrote, said |-> o.said]
    /\ inbuf' = <<>> /\ terminal' = <<>> /\ UNCHANGED keyboard

ConsoleNext == get_input \/ Delete \/ handle_input

ConsoleSpec == ConsoleInit /\ [][ConsoleNext]_consoleVars

-----------------------------------------------------------------------------
(* Types.                                                                  *)
ConsoleTypeOK ==
    /\ Len(inbuf) < INBUF_SIZE /\ Len(terminal) = Len(inbuf)
    /\ ran.said \subseteq {"syntax", "nothing", "unknown", "usage", "invalid", "success", "already",
                           "failed", "printed"}

\* The inductive invariant behind it: the line and its echo are made of keys.
ConsoleInv ==
    /\ ConsoleTypeOK
    /\ inbuf \in Seq(keyboard) /\ terminal \in Seq(keyboard \union {"*"})

-----------------------------------------------------------------------------
(* How a list of words may be spelled.                                     *)

\* A word is typed with a backslash before each blank and each quote, or in
\* quotes, in which blanks need none.
Spelled(word, needs) ==
    FlattenSeq([k \in DOMAIN word |-> IF word[k] \in needs THEN <<"backslash", word[k]>>
                                                           ELSE <<word[k]>>])
Spellings(word) ==
    { <<"quote">> \o Spelled(word, {"quote"}) \o <<"quote">> }
    \union (IF word = <<>> THEN {} ELSE { Spelled(word, {" ", "quote"}) })

\* A backslash that a blank, a quote or the end of the word follows cannot be
\* typed: it would be taken for an escape.
Typeable(word) ==
    \A k \in DOMAIN word :
        word[k] = "backslash" => k < Len(word) /\ word[k + 1] \notin {" ", "quote"}

\* The lines of one word, with or without a blank in front of it, and those of
\* one word more than the lines given.  A word has as many characters as fit
\* between quotes.
OneWord(chars) ==
    { l \in UNION { [line : Spellings(w) \union {<<" ">> \o sp : sp \in Spellings(w)},
                     words : {<<w>>}] :
                    w \in {v \in BoundedSeq(chars, INBUF_SIZE - 3) : Typeable(v)} } :
          Len(l.line) < INBUF_SIZE }
OneMore(lines, one) ==
    UNION { { [line |-> f.line \o <<" ">> \o g.line, words |-> f.words \o g.words] :
              f \in {l \in lines : Len(l.line) = n},
              g \in {l \in one : n + 1 + Len(l.line) < INBUF_SIZE} }
            : n \in 1 .. INBUF_SIZE - 3 }
SpelledLines(chars) ==
    LET one == OneWord(chars)
        two == OneMore(one, one)
    IN  one \union two \union OneMore(two, one)

\* By keyboard, the lines that spell up to three words.
Spelling == [kb \in Keyboards |-> SpelledLines(kb)]
SpellingLine == [kb \in Keyboards |-> {l.line : l \in Spelling[kb]}]

ASSUME SpellingUnambiguous ==
    \A kb \in Keyboards : Cardinality(SpellingLine[kb]) = Cardinality(Spelling[kb])

(* What is typed is what is done, and what is secret stays so.  A line     *)
(* that spells words, with escapes and quotes, gives the command these     *)
(* words although the scanner shortens the line under its own index; the   *)
(* echo, which decides on the raw line, hides all that follows the name of *)
(* a private command when handle_input, which decides on the words, would  *)
(* run that command, if the line starts with its bare name; a setting that *)
(* is said to be stored is the second word, whole.                         *)
ConsoleFaithful ==
    LET s == Scanned(inbuf)
    IN  /\ inbuf \in SpellingLine[keyboard]
             => s.ret = 0 /\ [line |-> inbuf, words |-> Words(s)] \in Spelling[keyboard]
        /\ (inbuf # <<>> /\ inbuf[1] \in DOMAIN cmds /\ cmds[inbuf[1]]
              /\ s.ret = 0 /\ Words(s)[1] = <<inbuf[1]>>)
             => \A k \in 3 .. Len(inbuf) : terminal[k] = "*"
        /\ ("success" \in ran.said /\ ran.wrote[1] \in {"ssid", "pwd"} /\ Len(ran.words) > 1)
             => ran.wrote[2] = ran.words[2]

=============================================================================
