------------------------------ MODULE LineEditor ------------------------------
(***************************************************************************)
(* What the built-in shell promises its user, with no buffer in sight: it *)
(* keeps the line typed since the prompt (at most MaxLine printable        *)
(* bytes; backspace erases the last one; other bytes are ignored), and     *)
(* Enter runs the command the help text gives that exact line, or none     *)
(* for an empty line, or reports it unknown.                              *)
(***************************************************************************)
EXTENDS Naturals, Sequences

CONSTANTS
  MaxLine,   \* longest line kept
  Keys       \* bytes the user may send

\* The command names of the help text, as bytes.
help   == <<104, 101, 108, 112>>
uname  == <<117, 110, 97, 109, 101>>
unameA == <<117, 110, 97, 109, 101, 32, 45, 97>>
ps     == <<112, 115>>
free   == <<102, 114, 101, 101>>
uptime == <<117, 112, 116, 105, 109, 101>>
reboot == <<114, 101, 98, 111, 111, 116>>

IsEnter(c)     == c = 13 \/ c = 10      \* '\r', '\n'
IsBackspace(c) == c = 127 \/ c = 8
Printable(c)   == c >= 32 /\ c < 127

\* The command a line names.
Named(l) ==
  CASE l = <<>>                  -> "none"
    [] l = help                  -> "help"
    [] l \in {uname, unameA}     -> "uname"
    [] l = ps                    -> "ps"
    [] l = free                  -> "free"
    [] l = uptime                -> "uptime"
    [] l = reboot                -> "reboot"
    [] OTHER                     -> "unknown"

\* The line after the byte c.
EditStep(l, c) ==
  CASE IsBackspace(c)                      -> SubSeq(l, 1, Len(l) - 1)
    [] Printable(c) /\ Len(l) < MaxLine    -> Append(l, c)
    [] OTHER                               -> l

VARIABLES line, ran

Init == line = <<>> /\ ran = "none"

Key(c) ==
  /\ ~IsEnter(c)
  /\ line' = EditStep(line, c)
  /\ UNCHANGED ran

Enter(c) ==
  /\ IsEnter(c)
  /\ line' = <<>>
  /\ ran' = Named(line)

Next == \E c \in Keys : Key(c) \/ Enter(c)

Spec == Init /\ [][Next]_<<line, ran>>

=============================================================================
