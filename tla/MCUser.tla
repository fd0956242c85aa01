------------------------------- MODULE MCUser -------------------------------
(***************************************************************************)
(* What user programs work with: the open files of a task and its child,   *)
(* and the shell, once with the keys that its decoding tells apart and     *)
(* once with those that its parsing does.  `part` says which of the three  *)
(* a behaviour is of.  The files keep their first state when it is the     *)
(* shell's turn, and the shell is at its prompt when it is theirs.         *)
(***************************************************************************)
EXTENDS Files

CONSTANTS DecodedKeys, \* the keys of the keyboard when decoding is looked at
          MaxCodes,    \* bound: the codes that are not read yet, and
          MaxTyped     \* bound: the characters typed then

VARIABLES part, held, stream, at, flags, line, command, typed, got, mixed

Names == <<<<"a">>, <<"a", "A">>>>
Decoding == INSTANCE Shell WITH Keys <- DecodedKeys, Commands <- Names, Limit <- 4
Parsing == INSTANCE Shell WITH
  Keys <- {"a", "space", "enter", "lshift"},
  Commands <- Names, Limit <- 3, MaxCodes <- 1, MaxTyped <- 5
ASSUME ShellsAssumption == Decoding!ShellAssumption /\ Parsing!ShellAssumption

shellVars == <<held, stream, at, flags, line, command, typed, got, mixed>>
allVars == <<part, vars, shellVars>>

AllInit == part \in {"files", "keys", "lines"} /\ Init /\ Decoding!Init
FilesNext == part = "files" /\ Next /\ UNCHANGED <<part, shellVars>>
KeysNext == part = "keys" /\ Decoding!Next /\ UNCHANGED <<part, vars>>
LinesNext == part = "lines" /\ Parsing!Next /\ UNCHANGED <<part, vars>>
AllNext == FilesNext \/ KeysNext \/ LinesNext
AllSpec == AllInit /\ [][AllNext]_allVars

\* Characters and modifiers are read as they were typed, however far behind the shell
\* is: what Shell says of the keys (init.c:222, 228, 230).
KeysRead == part = "keys" => Decoding!Sound

\* A line is split into the words that were typed, and the first of them names the
\* command (init.c:86).
WordsSplit == part = "lines" => Parsing!WordsSplit
=============================================================================
