\* A 5-byte cmd_buf: lines of up to 4 bytes, so "ps" can be followed by
\* bytes an earlier, longer line left behind its NUL, "free" fills it, and
\* a fifth printable byte meets the cmd_pos < 255 test.
\* Keys: 'p' 's' 'f' 'r' 'e', backspace (8), '\r' (13) and 0, which the
\* loop ignores.
CONSTANTS
  CMD_BUF_SIZE = 5
  Keys = {112, 115, 102, 114, 101, 8, 13, 0}
SPECIFICATION Spec
INVARIANT TypeOK
PROPERTY LineEditorRefined
