------------------------------ MODULE Segments ------------------------------
(***************************************************************************)
(* Where copy_mem (kernel/fork.c) puts a child: new_data_base =            *)
(* new_code_base = nr * 0x4000000, written into the child's LDT code and   *)
(* data descriptors by set_base (include/linux/sched.h) and passed to      *)
(* copy_page_tables as the address its pages are copied to.  A later fork  *)
(* of the child reads its base back with get_base.                         *)
(*                                                                         *)
(* A value of 64 bits is kept as its eight bytes, least significant        *)
(* first, so that bases at and above 2^31 are exact.  nr * 0x4000000 is an *)
(* int product: for nr >= 32 it exceeds INT_MAX, which is undefined        *)
(* behaviour.  The build either wraps it to 32 bits and sign-extends the   *)
(* int to unsigned long (imul/shl then cltq), or computes it in 64 bits    *)
(* (movslq then shlq); which one is the variable int_wrap, fixed at boot.  *)
(*                                                                         *)
(* do_exit is not in the tree, and the base copy_mem computes depends on   *)
(* nr alone, so the model has forks only: every slot is reached as the     *)
(* lowest free one by forks in order.                                      *)
(***************************************************************************)
EXTENDS Naturals

CONSTANTS
  NR_TASKS,
  NULL

ASSUME NR_TASKS \in 2..64 /\ NULL \notin 0..NR_TASKS-1

Slots == 0..NR_TASKS-1
Byte  == 0..255

\* The eight bytes of n * 2^k, for n * 2^(k % 8) < 2^31.
ShlBytes(n, k) ==
  LET q == k \div 8
      v == n * 2^(k % 8)
  IN  [i \in 0..7 |-> IF i < q \/ i - q > 3 THEN 0
                      ELSE (v \div 2^(8 * (i - q))) % 256]

Zero == ShlBytes(0, 0)

\* A descriptor from its eight bytes as written in INIT_TASK's ldt.
Desc(b0, b1, b2, b3, b4, b5, b6, b7) ==
  [i \in 0..7 |-> CASE i = 0 -> b0 [] i = 1 -> b1 [] i = 2 -> b2 [] i = 3 -> b3
                    [] i = 4 -> b4 [] i = 5 -> b5 [] i = 6 -> b6 [] i = 7 -> b7]

VARIABLES
  live,      \* the slots s with task[s] != NULL
  ldt,       \* ldt[s][i]: the bytes of task[s]->ldt[i], i = 1 (cs), 2 (ds)
  window,    \* window[s]: the address copy_page_tables copied s's pages to
  panic,     \* copy_mem's panic() message, or NULL
  int_wrap   \* TRUE: the build computes nr * 0x4000000 in 32 bits

vars == <<live, ldt, window, panic, int_wrap>>

-----------------------------------------------------------------------------

\* INIT_TASK's ldt[1] and ldt[2]: {0xFFFF, 0x00AFFA00} and {0xFFFF,
\* 0x00CFF200}, base 0, limit 0xFFFFF with G set.
InitLdt ==
  [i \in {1, 2} |-> IF i = 1 THEN Desc(255, 255, 0, 0, 0, 250, 175, 0)
                             ELSE Desc(255, 255, 0, 0, 0, 242, 207, 0)]

\* _set_base: the base's bytes 0-1 go to bytes 2-3, byte 2 to byte 4 and
\* byte 3 to byte 7; bits 32-63 of base are dropped.
SetBase(d, base) ==
  [d EXCEPT ![2] = base[0], ![3] = base[1], ![4] = base[2], ![7] = base[3]]

\* _get_base: the 32-bit base of a descriptor, zero-extended.
GetBase(d) ==
  [i \in 0..7 |-> CASE i = 0 -> d[2] [] i = 1 -> d[3] [] i = 2 -> d[4]
                    [] i = 3 -> d[7] [] OTHER -> 0]

\* nr * 0x4000000 as the build computes it, converted to unsigned long.
NewBase(nr) ==
  LET wide == ShlBytes(nr, 26)
      ext  == IF wide[3] >= 128 THEN 255 ELSE 0
  IN  IF int_wrap THEN [i \in 0..7 |-> IF i < 4 THEN wide[i] ELSE ext]
                  ELSE wide

\* find_empty_process's slot loop: the lowest free slot >= 1, or NULL.
FreeSlot ==
  LET free == {i \in Slots \ {0} : i \notin live}
  IN  IF free = {} THEN NULL ELSE CHOOSE i \in free : \A j \in free : i <= j

\* sys_fork from the live task par: copy_process takes the lowest free
\* slot nr; copy_mem reads the parent's bases, panics if code and data
\* differ, sets the child's bases and copies the page tables to
\* new_data_base.  get_free_page or copy_page_tables may fail (-EAGAIN,
\* nothing published); otherwise task[nr] is published.
Fork(par) ==
  LET nr   == FreeSlot
      base == NewBase(nr)
  IN  /\ par \in live /\ panic = NULL
      /\ UNCHANGED int_wrap
      /\ \/ nr = NULL /\ UNCHANGED <<live, ldt, window, panic>>
         \/ nr # NULL /\ UNCHANGED <<live, ldt, window, panic>>
         \/ /\ nr # NULL
            /\ GetBase(ldt[par][1]) # GetBase(ldt[par][2])
            /\ panic' = "We don't support separate I&D"
            /\ UNCHANGED <<live, ldt, window>>
         \/ /\ nr # NULL
            /\ GetBase(ldt[par][1]) = GetBase(ldt[par][2])
            /\ ldt' = [ldt EXCEPT ![nr] = [i \in {1, 2} |-> SetBase(ldt[par][i], base)]]
            /\ window' = [window EXCEPT ![nr] = base]
            /\ live' = live \cup {nr}
            /\ UNCHANGED panic

\* After sched_init: only task 0, with INIT_TASK's ldt and base 0.
Init ==
  /\ live = {0}
  /\ ldt = [s \in Slots |-> InitLdt]
  /\ window = [s \in Slots |-> Zero]
  /\ panic = NULL
  /\ int_wrap \in BOOLEAN

Next == \E par \in Slots : Fork(par)

Spec == Init /\ [][Next]_vars

-----------------------------------------------------------------------------

\* Spec section 3: slot s's address space is the window at s * 64 MiB.
\* copy_mem copies the child's pages to new_data_base and records it in
\* the LDT with set_base; the child's own forks copy from get_base(ldt[2]).
\* Both must be the slot's window, for every slot up to NR_TASKS - 1.
SlotWindows ==
  \A s \in live : window[s] = ShlBytes(s, 26) /\ GetBase(ldt[s][2]) = window[s]

=============================================================================
