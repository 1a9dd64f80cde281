---------------------------- MODULE TerminalMode -----------------------------
(* linenoise: the mode of the terminal, which is raw while a line is edited   *)
(* and what it was otherwise.  One action is a call with every system call in *)
(* it, some of which may fail; other programs set the mode while this one is  *)
(* stopped or reads no line.                                                  *)
CONSTANT Modes            \* set: modes that programs give the terminal

VARIABLES tty,            \* the mode of the terminal, made raw or not
          orig_termios,   \* a mode
          rawmode, atexit_registered,
          doing,          \* "idle", "editing", "stopped" or "exited"
          found,          \* history: the mode when raw mode was last asked for
          stuck           \* history: it could not be left once

terminal == <<tty, orig_termios, rawmode, atexit_registered, doing, found, stuck>>

Raw(mode) == [mode EXCEPT !.raw = TRUE]
Cooked == {[kind |-> m, raw |-> FALSE] : m \in Modes}

Init ==
  /\ tty \in Cooked /\ orig_termios = tty /\ found = tty
  /\ rawmode = FALSE /\ atexit_registered = FALSE /\ doing = "idle" /\ stuck = FALSE

\* tcgetattr() or tcsetattr() may fail.
Saved == tty
enableRawMode(ok) ==
  /\ atexit_registered' = TRUE /\ found' = tty /\ UNCHANGED stuck
  /\ IF ok THEN orig_termios' = Saved /\ tty' = Raw(orig_termios') /\ rawmode' = TRUE
     ELSE orig_termios' \in {orig_termios, Saved} /\ UNCHANGED <<tty, rawmode>>

disableRawMode ==
  /\ \/ rawmode /\ tty' = orig_termios /\ rawmode' = FALSE /\ UNCHANGED stuck
     \/ rawmode /\ stuck' = TRUE /\ UNCHANGED <<tty, rawmode>>
     \/ ~rawmode /\ UNCHANGED <<tty, rawmode, stuck>>
  /\ UNCHANGED <<orig_termios, atexit_registered, found>>

\* linenoise() reads no line when the terminal does not become raw; without a
\* terminal, or on one it does not support, it leaves the mode alone.
linenoise == doing = "idle" /\ \E ok \in BOOLEAN :
  enableRawMode(ok) /\ doing' = IF ok THEN "editing" ELSE "idle"
Return == doing = "editing" /\ disableRawMode /\ doing' = "idle"

\* ^Z: the line goes on, raw or not, when the program does.
Suspend == doing = "editing" /\ disableRawMode /\ doing' = "stopped"
Continue == doing = "stopped" /\ doing' = "editing" /\ \E ok \in BOOLEAN : enableRawMode(ok)

\* exit(), by any thread: linenoiseAtExit().
Exit ==
  /\ doing \in {"idle", "editing"} /\ doing' = "exited"
  /\ IF atexit_registered THEN disableRawMode
     ELSE UNCHANGED <<tty, orig_termios, rawmode, atexit_registered, found, stuck>>

\* Another program: the line that is edited next finds its mode.
Outside ==
  /\ doing \in {"idle", "stopped"} /\ tty' \in Cooked /\ found' = tty'
  /\ UNCHANGED <<orig_termios, rawmode, atexit_registered, doing, stuck>>

Next == linenoise \/ Return \/ Suspend \/ Continue \/ Exit \/ Outside

------------------------------------------------------------------------------
\* While no line is edited the terminal is as it was found, unless raw mode
\* could not be left once: then the next line takes it for the mode to go back
\* to, and the terminal may stay raw or become raw again.
ModeRestored == doing # "editing" /\ ~stuck => tty = found /\ ~tty.raw
\* And rawmode tells whether the line that is edited is raw: it may not be, when
\* a program that was stopped goes on.
EditsRaw == doing = "editing" => rawmode = tty.raw \/ stuck
==============================================================================
