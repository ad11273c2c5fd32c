-------------------------------- MODULE Shell --------------------------------
(***************************************************************************)
(* The built-in serial shell of init/main.c: builtin_shell's read loop,    *)
(* which edits cmd_buf one byte from shell_getc at a time, and             *)
(* process_command, which terminates the line and dispatches on it with    *)
(* the file's own strcmp.  Output is left out: a command is recorded by    *)
(* its name in ran.  cmd_reboot loads an empty IDT, and the next          *)
(* interrupt triple-faults the CPU: the machine restarts in Init, a state  *)
(* the model already has, so the restart is left out and the shell may go  *)
(* on reading after "reboot", as it does until that interrupt.             *)
(***************************************************************************)
EXTENDS Naturals, Sequences

CONSTANTS
  CMD_BUF_SIZE,   \* sizeof cmd_buf (256)
  Keys            \* bytes shell_getc may return

ASSUME CMD_BUF_SIZE \in Nat \ {0} /\ Keys \subseteq 0..255

\* The command names process_command compares with, as bytes.
help   == <<104, 101, 108, 112>>
uname  == <<117, 110, 97, 109, 101>>
unameA == <<117, 110, 97, 109, 101, 32, 45, 97>>
ps     == <<112, 115>>
free   == <<102, 114, 101, 101>>
uptime == <<117, 112, 116, 105, 109, 101>>
reboot == <<114, 101, 98, 111, 111, 116>>

IsEnter(c)     == c = 13 \/ c = 10      \* '\r', '\n'
IsBackspace(c) == c = 127 \/ c = 8
Printable(c)   == c >= 32 /\ c < 127

VARIABLES
  cmd_buf,    \* cmd_buf[i], i \in 0..CMD_BUF_SIZE-1
  cmd_pos,
  ran         \* the command process_command ran last

vars == <<cmd_buf, cmd_pos, ran>>

-----------------------------------------------------------------------------

\* char is signed on x86-64.
Signed(c) == IF c >= 128 THEN c - 256 ELSE c

\* main.c's strcmp(s1, s2) from index i of the buffer b and of the
\* literal s, whose NUL is past its end.
RECURSIVE Strcmp(_, _, _)
Strcmp(b, s, i) ==
  LET c2 == IF i < Len(s) THEN s[i + 1] ELSE 0
  IN  IF b[i] # 0 /\ b[i] = c2 THEN Strcmp(b, s, i + 1)
      ELSE Signed(b[i]) - Signed(c2)

\* process_command's if-chain on the NUL-terminated buffer b.
Command(b, pos) ==
  CASE pos = 0                                        -> "none"
    [] Strcmp(b, help, 0) = 0                         -> "help"
    [] Strcmp(b, uname, 0) = 0 \/ Strcmp(b, unameA, 0) = 0 -> "uname"
    [] Strcmp(b, ps, 0) = 0                           -> "ps"
    [] Strcmp(b, free, 0) = 0                         -> "free"
    [] Strcmp(b, uptime, 0) = 0                       -> "uptime"
    [] Strcmp(b, reboot, 0) = 0                       -> "reboot"
    [] OTHER                                          -> "unknown"

\* Mutant: the full-buffer test lets cmd_pos reach sizeof cmd_buf.
ReadKeyNoBound(c) ==
  /\ ~IsEnter(c)
  /\ \/ IsBackspace(c) /\ cmd_pos > 0
        /\ cmd_pos' = cmd_pos - 1 /\ UNCHANGED cmd_buf
     \/ IsBackspace(c) /\ cmd_pos = 0 /\ UNCHANGED <<cmd_buf, cmd_pos>>
     \/ /\ ~IsBackspace(c) /\ Printable(c) /\ cmd_pos < CMD_BUF_SIZE
        /\ cmd_buf' = [cmd_buf EXCEPT ![cmd_pos] = c]
        /\ cmd_pos' = cmd_pos + 1
     \/ /\ ~IsBackspace(c) /\ ~(Printable(c) /\ cmd_pos < CMD_BUF_SIZE)
        /\ UNCHANGED <<cmd_buf, cmd_pos>>
  /\ UNCHANGED ran

\* One byte of the inner loop of builtin_shell, other than Enter:
\* backspace drops the last byte if there is one; a printable byte is
\* appended while cmd_pos < 255; any other byte is ignored.
ReadKey(c) ==
  /\ ~IsEnter(c)
  /\ \/ IsBackspace(c) /\ cmd_pos > 0
        /\ cmd_pos' = cmd_pos - 1 /\ UNCHANGED cmd_buf
     \/ IsBackspace(c) /\ cmd_pos = 0 /\ UNCHANGED <<cmd_buf, cmd_pos>>
     \/ /\ ~IsBackspace(c) /\ Printable(c) /\ cmd_pos < CMD_BUF_SIZE - 1
        /\ cmd_buf' = [cmd_buf EXCEPT ![cmd_pos] = c]
        /\ cmd_pos' = cmd_pos + 1
     \/ /\ ~IsBackspace(c) /\ ~(Printable(c) /\ cmd_pos < CMD_BUF_SIZE - 1)
        /\ UNCHANGED <<cmd_buf, cmd_pos>>
  /\ UNCHANGED ran

\* Mutant: process_command dispatches without storing the NUL.
EnterNoNul(c) ==
  /\ IsEnter(c)
  /\ ran' = Command(cmd_buf, cmd_pos)
  /\ cmd_pos' = 0
  /\ UNCHANGED cmd_buf

\* Enter: process_command stores the NUL at cmd_buf[cmd_pos] and runs the
\* command; the loop prints the prompt and resets cmd_pos.
Enter(c) ==
  LET b == [cmd_buf EXCEPT ![cmd_pos] = 0]
  IN  /\ IsEnter(c)
      /\ cmd_buf' = b
      /\ ran' = Command(b, cmd_pos)
      /\ cmd_pos' = 0

\* The state the machine boots into: the static cmd_buf and cmd_pos are
\* zero, and the shell waits at its first prompt.
Init ==
  /\ cmd_buf = [i \in 0..CMD_BUF_SIZE-1 |-> 0]
  /\ cmd_pos = 0
  /\ ran = "none"

Next == \E c \in Keys : ReadKey(c) \/ Enter(c)

Spec == Init /\ [][Next]_vars

-----------------------------------------------------------------------------

TypeOK ==
  /\ cmd_buf \in [0..CMD_BUF_SIZE-1 -> 0..255]
  /\ cmd_pos \in 0..CMD_BUF_SIZE-1

\* The line the shell holds: cmd_buf[0..cmd_pos).
Line == [i \in 1..cmd_pos |-> cmd_buf[i - 1]]

LE == INSTANCE LineEditor WITH MaxLine <- CMD_BUF_SIZE - 1, line <- Line

\* The shell implements the line editor its help text describes: every key
\* edits cmd_buf[0..cmd_pos) as it edits the line, and every Enter runs
\* the command named by exactly that line.  This covers backspace at an
\* empty line, a full buffer, and the bytes that backspace and earlier
\* lines leave behind the NUL that strcmp must stop at.
LineEditorRefined == LE!Spec

=============================================================================
