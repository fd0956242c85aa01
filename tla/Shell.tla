------------------------------- MODULE Shell --------------------------------
(***************************************************************************)
(* The shell (user/init.c): the keyboard's codes, one read call each,      *)
(* become characters of a line, and a line becomes a command.  The         *)
(* keyboard is external: what each key sends, which is part of scan code   *)
(* set 1, and it runs ahead of the shell by the codes that are not read    *)
(* yet.  The driver between them, which loses none as long as its buffer   *)
(* holds, is module Keyboard.                                              *)
(*                                                                         *)
(* A code is "E0", "E1", or a key of the keyboard's table going down or    *)
(* up.  The right ctrl, the right alt, the arrows and print screen have    *)
(* the code of another key, behind an E0.                                  *)
(***************************************************************************)
EXTENDS Integers, Sequences, SequencesExt, FiniteSetsExt

CONSTANTS Keys,       \* the keys of the keyboard
          Commands,   \* shell_internal_cmd: their names
          Limit,      \* parse_command looks at so many characters: 256
          MaxCodes,   \* bound: the codes not read yet
          MaxTyped    \* bound: the characters typed
ShellAssumption == Limit \in Nat \ {0} /\ MaxCodes \in Nat /\ MaxTyped \in Nat

VARIABLES
  held,     \* the keys that are down
  stream,   \* the codes that are not read yet
  at,       \* where analysis_keycode is: which read it waits in
  flags,    \* shift_left, shift_right, ctrl_left, ... that are set
  line,     \* buf
  command,  \* what parse_command made of the last line
  typed,    \* history: the characters typed, and
  got,      \* history: those that analysis_keycode returned
  mixed     \* history: a shift was down when an arrow or print screen moved
vars == <<held, stream, at, flags, line, command, typed, got, mixed>>
shell == <<at, flags, line, command, got>>
keyboard == <<held, typed, mixed>>

E0 == <<"code", "E0">>
E1 == <<"code", "E1">>
Down(k) == <<"down", k>>
Up(k) == <<"up", k>>
\* keycode_map_normal, without and with shift: "" is 0.
Plain == [a |-> "a", space |-> " ", enter |-> "enter", star |-> "*", home |-> "7"]
Shifted == [a |-> "A", space |-> " ", enter |-> "shift enter", star |-> "*", home |-> ""]
KeyOf(k, shift) ==
  IF k \notin DOMAIN Plain THEN "" ELSE IF shift THEN Shifted[k] ELSE Plain[k]

Nil == "none"
In(place) == <<place, 0>>
Places == {In("first"), In("extended")} \cup {<<"pause", i>> : i \in 2 .. 6}
            \cup {<<"print down", i>> : i \in {1, 2}} \cup {<<"print up", i>> : i \in {1, 2}}
Modifiers == {"lshift", "rshift", "ctrl", "alt", "rctrl", "ralt"}
NoCommand == [argv |-> <<>>, index |-> 0]
Init ==
  /\ held = {} /\ stream = <<>>
  /\ at = In("first") /\ flags = {} /\ line = <<>> /\ command = NoCommand
  /\ typed = <<>> /\ got = <<>> /\ mixed = FALSE

-----------------------------------------------------------------------------
\* The keyboard (external).
Sends(codes) == /\ Len(stream) + Len(codes) <= MaxCodes
                /\ stream' = stream \o codes
Shifts == held \cap {"lshift", "rshift"}

\* An ordinary key goes down, or up.
Press(k) ==
  /\ k \in {"a", "space", "enter", "lshift", "rshift", "ctrl", "alt"} \ held
  /\ Sends(<<Down(k)>>)
  /\ held' = held \cup {k}
  /\ IF k \in DOMAIN Plain
     THEN Len(typed) < MaxTyped /\ typed' = Append(typed, KeyOf(k, Shifts # {}))
     ELSE UNCHANGED typed
  /\ UNCHANGED <<shell, mixed>>
Release(k) ==
  /\ k \in held \cap {"a", "space", "enter", "lshift", "rshift", "ctrl", "alt"}
  /\ Sends(<<Up(k)>>)
  /\ held' = held \ {k}
  /\ UNCHANGED <<shell, typed, mixed>>

\* The right ctrl and alt.
Left == [rctrl |-> "ctrl", ralt |-> "alt"]
Right(k) ==
  /\ k \in DOMAIN Left
  /\ Sends(<<E0, IF k \in held THEN Up(Left[k]) ELSE Down(Left[k])>>)
  /\ held' = IF k \in held THEN held \ {k} ELSE held \cup {k}
  /\ UNCHANGED <<shell, typed, mixed>>

\* An arrow key: with a shift down, it says that this is up while the arrow is down.
Arrow ==
  /\ \E fake \in IF Shifts = {} THEN {Nil} ELSE Shifts :
       LET Fake(code) == IF fake = Nil THEN <<>> ELSE <<E0, code>>
       IN  Sends(IF "home" \in held THEN <<E0, Up("home")>> \o Fake(Down(fake))
                 ELSE Fake(Up(fake)) \o <<E0, Down("home")>>)
  /\ held' = IF "home" \in held THEN held \ {"home"} ELSE held \cup {"home"}
  /\ mixed' = (mixed \/ Shifts # {})
  /\ UNCHANGED <<shell, typed>>

\* Print screen, which is short with a shift down.
PrintScreen ==
  /\ Sends(IF "print" \in held
           THEN <<E0, Up("star")>> \o IF Shifts = {} THEN <<E0, Up("lshift")>> ELSE <<>>
           ELSE (IF Shifts = {} THEN <<E0, Down("lshift")>> ELSE <<>>)
                  \o <<E0, Down("star")>>)
  /\ held' = IF "print" \in held THEN held \ {"print"} ELSE held \cup {"print"}
  /\ mixed' = (mixed \/ Shifts # {})
  /\ UNCHANGED <<shell, typed>>

\* Pause, which sends everything when it goes down.
PauseCodes == <<E1, Down("ctrl"), Down("num"), E1, Up("ctrl"), Up("num")>>
Pause == Sends(PauseCodes) /\ UNCHANGED <<shell, keyboard>>

Type ==
  \/ \E k \in Keys : Press(k) \/ Release(k) \/ Right(k)
  \/ "home" \in Keys /\ Arrow
  \/ "print" \in Keys /\ PrintScreen
  \/ "pause" \in Keys /\ Pause
-----------------------------------------------------------------------------
\* parse_command.  Where the words of a line begin, by going over it: from a word past
\* the blank behind it, which becomes a 0, and past the blanks behind that.
CharAt(i) == IF i <= Len(line) THEN line[i] ELSE "nul"
PastBlanks(i) == Min({k \in i .. Len(line) + 2 : k >= i /\ CharAt(k) # " "})
WordEnd(i) == Min({k \in i .. Len(line) + 1 : CharAt(k) \in {" ", "nul"}})

\* Mutant: the limit is not looked at.
CountAll ==
  Cardinality({i \in PastBlanks(1) .. Len(line) :
                 line[i] # " " /\ CharAt(i + 1) \in {" ", "nul"}})

\* argc: the last characters of words among the first Limit.
Argc ==
  Cardinality({i \in PastBlanks(1) .. Limit :
                 /\ i <= Len(line) /\ line[i] # " "
                 /\ CharAt(i + 1) \in {" ", "nul"}})

FindCmd(word) ==
  IF word \in Range(Commands) THEN CHOOSE i \in DOMAIN Commands : Commands[i] = word ELSE 0

ParseCommand ==
  LET begin[k \in 1 .. Argc] ==
        IF k = 1 THEN PastBlanks(1) ELSE PastBlanks(WordEnd(begin[k - 1]) + 1)
      argv == [k \in 1 .. Argc |-> SubSeq(line, begin[k], WordEnd(begin[k]) - 1)]
  IN  IF Argc = 0 THEN NoCommand
      ELSE [argv |-> argv, index |-> FindCmd(argv[1])]

-----------------------------------------------------------------------------

\* The character of an ordinary code: what the table says, with the shifts as they are
\* now, for a key that goes down.
Key(make, k) ==
  IF make /\ k \notin Modifiers THEN KeyOf(k, flags \cap {"lshift", "rshift"} # {}) ELSE ""

\* Mutant: letting a modifier go is missed.
FlagsStay(make, k) == IF make THEN flags \cup {k} ELSE flags

\* A modifier is noted.
Flags(make, k) == IF make THEN flags \cup {k} ELSE flags \ {k}

\* read_line adds a character, and main parses the line at its end.
Line(c) ==
  /\ got' = IF c = "" THEN got ELSE Append(got, c)
  /\ IF c = "enter"
     THEN line' = <<>> /\ command' = ParseCommand
     ELSE /\ line' = IF c = "" THEN line ELSE Append(line, c)
          /\ UNCHANGED command

\* The part of analysis_keycode behind `if (key == 0)`.
Ordinary(make, k) ==
  /\ at' = In("first")
  /\ flags' = IF k \in {"lshift", "rshift", "ctrl", "alt"} THEN Flags(make, k) ELSE flags
  /\ Line(Key(make, k))

\* The other keys return 0 without it.
OtherKey(set) == at' = In("first") /\ flags' = set /\ UNCHANGED <<line, command, got>>
GoesOn(place) == at' = place /\ UNCHANGED <<flags, line, command, got>>

\* The first code of a key.
First(c) ==
  /\ at = In("first")
  /\ IF c = E1 THEN GoesOn(<<"pause", 2>>)
     ELSE IF c = E0 THEN GoesOn(In("extended"))
     ELSE Ordinary(c[1] = "down", c[2])

\* The rest of pause.  A code that is not as it should be makes an ordinary one of the
\* E1, which is the going up of no key.
PauseBreak(c) ==
  /\ at \in {<<"pause", i>> : i \in 2 .. 6}
  /\ IF c = PauseCodes[at[2]] /\ at[2] < 6 THEN GoesOn(<<"pause", at[2] + 1>>)
     ELSE OtherKey(flags)

\* The code behind an E0.
Extended(c) ==
  /\ at = In("extended")
  /\ IF c = Down("lshift") THEN GoesOn(<<"print down", 1>>)
     ELSE IF c = Up("star") THEN GoesOn(<<"print up", 1>>)
     ELSE IF c[2] \in {"ctrl", "alt"}
          THEN OtherKey(Flags(c[1] = "down", IF c[2] = "ctrl" THEN "rctrl" ELSE "ralt"))
     ELSE OtherKey(flags)

\* Print screen, pressed: an E0 and the star are to come, and otherwise the left shift
\* is taken to be down.
PrintDown(c) ==
  \/ at = <<"print down", 1>> /\ (IF c = E0 THEN GoesOn(<<"print down", 2>>) ELSE Ordinary(TRUE, "lshift"))
  \/ at = <<"print down", 2>>
       /\ (IF c = Down("star") THEN OtherKey(flags) ELSE Ordinary(TRUE, "lshift"))

\* Print screen, let go.
PrintUp(c) ==
  \/ at = <<"print up", 1>> /\ (IF c = E0 THEN GoesOn(<<"print up", 2>>) ELSE Ordinary(FALSE, "star"))
  \/ at = <<"print up", 2>>
       /\ (IF c = Up("lshift") THEN OtherKey(flags) ELSE Ordinary(FALSE, "star"))

\* get_scancode: the next code, for whoever waits for it.
GetScancode ==
  /\ stream # <<>>
  /\ stream' = Tail(stream)
  /\ LET c == Head(stream)
     IN  First(c) \/ PauseBreak(c) \/ Extended(c) \/ PrintDown(c) \/ PrintUp(c)
  /\ UNCHANGED keyboard

Next == Type \/ GetScancode
Spec == Init /\ [][Next]_vars
-----------------------------------------------------------------------------
Characters == (UNION {{Plain[k], Shifted[k]} : k \in DOMAIN Plain}) \ {""}
TypeOK ==
  /\ held \subseteq Keys /\ Len(stream) <= MaxCodes
  /\ at \in Places /\ flags \subseteq Modifiers
  /\ {typed, got, line} \subseteq Seq(Characters) /\ Len(typed) <= MaxTyped
  /\ command.index \in 0 .. Len(Commands) /\ mixed \in BOOLEAN

\* When every code is read the modifiers are what they are at the keyboard, however far
\* behind the shell was, as long as no arrow and no print screen moved while a shift was
\* down (init.c:230).
ModifiersAgree ==
  stream = <<>> /\ ~mixed => at = In("first") /\ flags = held \cap Modifiers

\* The characters are those that were typed, each with the shifts that were down when it
\* was, in order and none missing (init.c:228).
ReadAsTyped ==
  ~mixed => /\ IsPrefix(got, typed)
            /\ stream = <<>> => got = typed

\* A code that is taken for part of another key's costs characters and shifts, but never
\* makes one that nobody typed (init.c:222).
NothingInvented ==
  /\ Len(got) <= Len(typed)
  /\ \A i \in DOMAIN got : \E j \in i .. Len(typed) :
       \E k \in DOMAIN Plain : {got[i], typed[j]} \subseteq {Plain[k], Shifted[k]}

\* The words of the line that end among the first Limit characters are the arguments,
\* and the command is the one the first of them names (init.c:86).
Words == LET last == FoldLeftDomain(LAMBDA a, i : IF got[i] = "enter" THEN <<a[2], i>> ELSE a,
                                    <<0, 0>>, got)
         IN  SubSeq(got, last[1] + 1, last[2] - 1)
WordsSplit ==
  LET text == Words
      begins == {i \in DOMAIN text : text[i] # " " /\ (i > 1 => text[i - 1] = " ")}
      EndOf(i) == Min({j \in i .. Len(text) : j = Len(text) \/ text[j + 1] = " "})
      whole == SetToSortSeq({i \in begins : EndOf(i) <= Limit}, <)
  IN  /\ command.argv = [k \in DOMAIN whole |-> SubSeq(text, whole[k], EndOf(whole[k]))]
      /\ command.index > 0 => Commands[command.index] = command.argv[1]

\* However far behind the shell is, it ends up with the characters and the modifiers
\* of the keyboard, and with nothing else (init.c:222, 228, 230).
Sound == TypeOK /\ ModifiersAgree /\ ReadAsTyped /\ NothingInvented
=============================================================================
