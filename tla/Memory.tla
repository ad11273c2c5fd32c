------------------------------- MODULE Memory -------------------------------
(***************************************************************************)
(* The frame allocator and the address-space manager of mm/memory.c, with *)
(* the memory half of fork (copy_process/copy_mem in kernel/fork.c).      *)
(*                                                                         *)
(* There is one page tree: the PML4 at 0x1000 is loaded once and          *)
(* switch_to never changes CR3.  Task slot s owns the window of W virtual  *)
(* pages starting at s*W (nr * 0x4000000 in copy_mem).                     *)
(*                                                                         *)
(* Data abstractions:                                                      *)
(*  - a virtual page is a number in VPages; a page table covers PTSpan    *)
(*    pages and a page directory PDSpan pages.  The PML4 and               *)
(*    the PDPT are the boot tables and always present; so are PD 0 and     *)
(*    PT 0, which map the kernel's low memory at virtual page 0;           *)
(*  - frame 0 stands for every frame below LOW_MEM (never counted);        *)
(*    frames 1..NF are the frames mem_map counts;                          *)
(*  - a leaf entry is NoPte or a record [frame, w] (Present with the       *)
(*    Writable bit w); the User bit is always set and not modelled;        *)
(*  - page contents are not modelled: the properties are about which       *)
(*    frames are shared and how they are counted.  invalidate() (a CR3     *)
(*    reload) has no effect on this state.                                 *)
(* A panic() stops the machine: `panic` names it and every action is       *)
(* disabled afterwards.                                                    *)
(***************************************************************************)
EXTENDS Integers, FiniteSets

CONSTANTS
  NSlots,   \* task slots 0..NSlots-1 (NR_TASKS)
  W,        \* virtual pages per task window (64 MiB)
  PTSpan,   \* virtual pages one page table covers (2 MiB)
  PDSpan,   \* virtual pages one page directory covers (1 GiB)
  NF,       \* frames between LOW_MEM and HIGH_MEMORY (PAGING_PAGES)
  NULL, NoPte

ASSUME NSlots >= 2 /\ W >= 1 /\ NF >= 1
ASSUME W % PTSpan = 0 /\ PDSpan % W = 0

Slots   == 0..(NSlots - 1)
Managed == 1..NF
Low     == 0
Frames  == {Low} \cup Managed

(* get_limit(0x17): the LDT data segment every task inherits from          *)
(* INIT_TASK (limit 0xFFFFF, G=1) spans 4 GiB, NR_TASKS windows.           *)
DataLimit == NSlots * W
VPages  == 0..((2 * NSlots - 1) * W - 1)
PTs     == 0..(((2 * NSlots - 1) * W - 1) \div PTSpan)
PDs     == 0..(((2 * NSlots - 1) * W - 1) \div PDSpan)
Base(s) == s * W
Window(s) == Base(s)..(Base(s) + W - 1)

VARIABLES
  mem_map,  \* mem_map[f]: reference count of managed frame f
  pd,       \* pd[d]: frame of page directory d, or NULL (the PDPT entry)
  pt,       \* pt[i]: frame of page table i, or NULL (the PD entry)
  pte,      \* pte[v]: the leaf entry of virtual page v
  live,     \* slots with a task (task[nr] != NULL)
  kframe,   \* kframe[s]: the frame holding task s's task_struct and stack
  panic     \* "none", or the panic() that stopped the machine

vars == <<mem_map, pd, pt, pte, live, kframe, panic>>

(* The state the helpers below thread through a call.                     *)
Mem == [mm |-> mem_map, pd |-> pd, pt |-> pt, pte |-> pte, panic |-> panic]

-----------------------------------------------------------------------------
(* Mutant of GetFreePage: the address returned is one frame above the     *)
(* one marked used.                                                        *)
GetFreePageOffByOne(m) ==
  LET free == {f \in Managed : m.mm[f] = 0}
      top  == CHOOSE f \in free : \A g \in free : g <= f
  IN IF free = {} THEN [m |-> m, page |-> 0]
     ELSE [m |-> [m EXCEPT !.mm[top] = 1], page |-> top + 1]

(* get_free_page: the highest free frame, its count set to 1; 0 if none.   *)
GetFreePage(m) ==
  LET free == {f \in Managed : m.mm[f] = 0}
      top  == CHOOSE f \in free : \A g \in free : g <= f
  IN IF free = {} THEN [m |-> m, page |-> 0]
     ELSE [m |-> [m EXCEPT !.mm[top] = 1], page |-> top]

(* free_page: low frames are ignored; freeing a free frame panics.         *)
FreePage(m, f) ==
  IF f = Low THEN m
  ELSE IF m.mm[f] = 0 THEN [m EXCEPT !.panic = "trying to free free page"]
  ELSE [m EXCEPT !.mm[f] = @ - 1]

(* get_pte via get_pd and get_pt: with create, a missing directory and     *)
(* then a missing table are each taken from get_free_page and installed;   *)
(* an allocation failure returns 0, leaving a directory already installed. *)
GetPte(m, v, create) ==
  LET d  == v \div PDSpan
      i  == v \div PTSpan
      a1 == GetFreePage(m)
      m1 == IF m.pd[d] # NULL THEN m ELSE [a1.m EXCEPT !.pd[d] = a1.page]
      a2 == GetFreePage(m1)
      m2 == IF m1.pt[i] # NULL THEN m1 ELSE [a2.m EXCEPT !.pt[i] = a2.page]
  IN CASE m.pd[d] = NULL /\ ~create          -> [m |-> m, ok |-> FALSE]
       [] m.pd[d] = NULL /\ a1.page = 0      -> [m |-> m, ok |-> FALSE]
       [] m1.pt[i] = NULL /\ ~create         -> [m |-> m1, ok |-> FALSE]
       [] m1.pt[i] = NULL /\ a2.page = 0     -> [m |-> m1, ok |-> FALSE]
       [] OTHER                              -> [m |-> m2, ok |-> TRUE]

(* free_page_tables(from, size): every present leaf in the range is        *)
(* cleared and its frame released if managed.  from = 0 panics.  The       *)
(* tables themselves are never freed.                                      *)
RECURSIVE FreeRange(_, _, _)
FreeRange(m, v, last) ==
  IF v > last \/ m.panic # "none" THEN m
  ELSE IF m.pte[v] = NoPte THEN FreeRange(m, v + 1, last)
  ELSE FreeRange([FreePage(m, m.pte[v].frame) EXCEPT !.pte[v] = NoPte],
                 v + 1, last)

FreePageTables(m, from, size) ==
  IF from = 0 THEN [m EXCEPT !.panic = "Trying to free up swapper memory space"]
  ELSE FreeRange(m, from, from + size - 1)

(* Mutant of CopyRange: the shared frame's count is not incremented.       *)
RECURSIVE CopyRangeNoIncrement(_, _, _, _)
CopyRangeNoIncrement(m, from, to, k) ==
  LET g    == GetPte(m, to + k, TRUE)
      this == [m.pte[from + k] EXCEPT !.w = FALSE]
      m2   == [g.m EXCEPT !.pte[to + k] = this]
      m3   == IF this.frame # Low THEN [m2 EXCEPT !.pte[from + k] = this] ELSE m2
  IN CASE k >= DataLimit            -> [m |-> m, ok |-> TRUE]
       [] m.pte[from + k] = NoPte   -> CopyRangeNoIncrement(m, from, to, k + 1)
       [] ~g.ok                     -> [m |-> g.m, ok |-> FALSE]
       [] OTHER                     -> CopyRangeNoIncrement(m3, from, to, k + 1)

(* copy_page_tables(from, to, size), one page at a time in ascending       *)
(* order: a present source leaf is copied read-only into the destination  *)
(* (whose tables get_pte creates); only a managed frame also has the      *)
(* source leaf made read-only and its count incremented.  A failed get_pte *)
(* returns -1 with the pages before it already copied.                     *)
RECURSIVE CopyRange(_, _, _, _)
CopyRange(m, from, to, k) ==
  LET g    == GetPte(m, to + k, TRUE)
      this == [m.pte[from + k] EXCEPT !.w = FALSE]
      f    == this.frame
      m2   == [g.m EXCEPT !.pte[to + k] = this]
      m3   == IF f # Low THEN [m2 EXCEPT !.pte[from + k] = this, !.mm[f] = @ + 1]
              ELSE m2
  IN CASE k >= DataLimit            -> [m |-> m, ok |-> TRUE]
       [] m.pte[from + k] = NoPte   -> CopyRange(m, from, to, k + 1)
       [] ~g.ok                     -> [m |-> g.m, ok |-> FALSE]
       [] OTHER                     -> CopyRange(m3, from, to, k + 1)

CopyPageTables(m, from, to) == CopyRange(m, from, to, 0)

-----------------------------------------------------------------------------
(* Commit a helper's result.                                               *)
Commit(m) ==
  /\ mem_map' = m.mm /\ pd' = m.pd /\ pt' = m.pt /\ pte' = m.pte
  /\ panic' = m.panic

(* do_exit(SIGSEGV) and the exit path (not in this tree): the task's       *)
(* window is released with free_page_tables(base, limit), its              *)
(* task_struct frame freed and its slot emptied.  For task 0 the base is   *)
(* 0 and free_page_tables panics.                                          *)
DoExit(m, s) ==
  LET f == FreePageTables(m, Base(s), DataLimit)
  IN /\ Commit(IF f.panic = "none" THEN FreePage(f, kframe[s]) ELSE f)
     /\ live' = IF f.panic = "none" THEN live \ {s} ELSE live
     /\ kframe' = IF f.panic = "none" THEN [kframe EXCEPT ![s] = NULL] ELSE kframe

(* Mutant of UnWp: any managed frame is made writable in place.           *)
UnWpAnyCount(m, v) ==
  LET old == m.pte[v].frame
      a   == GetFreePage(m)
  IN CASE old # Low /\ m.mm[old] >= 1 -> [m |-> [m EXCEPT !.pte[v].w = TRUE], ok |-> TRUE]
       [] a.page = 0                  -> [m |-> m, ok |-> FALSE]
       [] OTHER ->
            [m |-> [a.m EXCEPT !.mm = IF old # Low THEN [@ EXCEPT ![old] = @ - 1] ELSE @,
                               !.pte[v] = [frame |-> a.page, w |-> TRUE]],
             ok |-> TRUE]

(* un_wp_page: a managed frame with count 1 is made writable in place;    *)
(* otherwise a new frame is taken (none: ok = FALSE, the caller's          *)
(* do_exit), the old count is decremented if managed and the new frame     *)
(* installed writable.                                                     *)
UnWp(m, v) ==
  LET old == m.pte[v].frame
      a   == GetFreePage(m)
  IN CASE old # Low /\ m.mm[old] = 1 -> [m |-> [m EXCEPT !.pte[v].w = TRUE], ok |-> TRUE]
       [] a.page = 0                 -> [m |-> m, ok |-> FALSE]
       [] OTHER ->
            [m |-> [a.m EXCEPT !.mm = IF old # Low THEN [@ EXCEPT ![old] = @ - 1] ELSE @,
                               !.pte[v] = [frame |-> a.page, w |-> TRUE]],
             ok |-> TRUE]

(* write_verify: un_wp_page if the page is present and read-only.          *)
WriteVerify(m, v) ==
  IF m.pte[v] # NoPte /\ ~m.pte[v].w THEN UnWp(m, v) ELSE [m |-> m, ok |-> TRUE]

(* verify_area's loop: write_verify on each page in turn; the do_exit of a *)
(* failed un_wp_page ends it.                                              *)
RECURSIVE VerifyRange(_, _, _)
VerifyRange(m, v, last) ==
  LET r == WriteVerify(m, v)
  IN IF v > last THEN [m |-> m, ok |-> TRUE]
     ELSE IF ~r.ok THEN r
     ELSE VerifyRange(r.m, v + 1, last)

(* Commit a helper's result for task s: do_exit if it failed.              *)
Finish(r, s) ==
  \/ /\ r.ok
     /\ Commit(r.m)
     /\ UNCHANGED <<live, kframe>>
  \/ /\ ~r.ok
     /\ DoExit(r.m, s)

Running(s) == s \in live /\ panic = "none"

(* do_wp_page: a write to a present read-only page of the task's window.  *)
DoWpPage(s, v) ==
  /\ Running(s) /\ v \in Window(s)
  /\ pte[v] # NoPte /\ ~pte[v].w
  /\ Finish(UnWp(Mem, v), s)

(* verify_area(addr, size), before the kernel writes user memory: the      *)
(* pages from the window offset off, n of them, through write_verify.      *)
VerifyArea(s, off, n) ==
  /\ Running(s) /\ off + n <= W
  /\ Finish(VerifyRange(Mem, Base(s) + off, Base(s) + off + n - 1), s)

(* put_page: install page writable at v; get_pte(v, 1) may fail.  Its     *)
(* two printk checks change nothing.                                       *)
PutPage(m, page, v) ==
  LET g == GetPte(m, v, TRUE)
  IN IF g.ok THEN [m |-> [g.m EXCEPT !.pte[v] = [frame |-> page, w |-> TRUE]], ok |-> TRUE]
     ELSE [m |-> g.m, ok |-> FALSE]

(* do_no_page: get_free_page, then put_page; either failure ends in        *)
(* do_exit(SIGSEGV).  On put_page's failure the frame already taken is not *)
(* freed.                                                                  *)
DoNoPage(s, v) ==
  LET a == GetFreePage(Mem)
  IN /\ Running(s) /\ v \in Window(s) /\ pte[v] = NoPte
     /\ Finish(IF a.page = 0 THEN [m |-> a.m, ok |-> FALSE]
               ELSE PutPage(a.m, a.page, v), s)

(* find_empty_process: the lowest free slot other than 0.                  *)
FindEmptyProcess == CHOOSE nr \in Slots \ ({0} \cup live) :
                      \A j \in Slots \ ({0} \cup live) : nr <= j

(* copy_mem: the new base is nr's window; copy_page_tables from the       *)
(* parent's base, DataLimit pages; on failure free_page_tables(new base,  *)
(* limit) and -ENOMEM.                                                     *)
CopyMem(m, p, nr) ==
  LET c == CopyPageTables(m, Base(p), Base(nr))
  IN IF c.ok THEN c
     ELSE [m |-> FreePageTables(c.m, Base(nr), DataLimit), ok |-> FALSE]

(* copy_process, memory part: a frame for the task_struct (none: -EAGAIN); *)
(* copy_mem; on its failure free_page(p) and -EAGAIN.  On success the slot *)
(* is published (task[nr] = p, last).                                      *)
Fork(p, nr) ==
  LET a == GetFreePage(Mem)
      c == CopyMem(a.m, p, nr)
  IN /\ Running(p) /\ Slots \ ({0} \cup live) # {} /\ nr = FindEmptyProcess
     /\ a.page # 0
     /\ \/ /\ c.ok
           /\ Commit(c.m)
           /\ live' = live \cup {nr}
           /\ kframe' = [kframe EXCEPT ![nr] = a.page]
        \/ /\ ~c.ok
           /\ Commit(IF c.m.panic = "none" THEN FreePage(c.m, a.page) ELSE c.m)
           /\ UNCHANGED <<live, kframe>>

(* A task other than 0 exits.                                              *)
Exit(s) ==
  /\ Running(s) /\ s # 0
  /\ DoExit(Mem, s)

Init ==
  /\ mem_map = [f \in Managed |-> 0]
  /\ pd = [d \in PDs |-> IF d = 0 THEN Low ELSE NULL]
  /\ pt = [i \in PTs |-> IF i = 0 THEN Low ELSE NULL]
  /\ pte = [v \in VPages |-> IF v = 0 THEN [frame |-> Low, w |-> TRUE] ELSE NoPte]
  /\ live = {0}
  /\ kframe = [s \in Slots |-> NULL]
  /\ panic = "none"

Next ==
  \/ \E s \in Slots, v \in VPages :
       DoNoPage(s, v) \/ DoWpPage(s, v)
  \/ \E s \in Slots, off \in 0..(W - 1), n \in 1..W :
       VerifyArea(s, off, n)
  \/ \E p, nr \in Slots : Fork(p, nr)
  \/ \E s \in Slots : Exit(s)

Spec == Init /\ [][Next]_vars

-----------------------------------------------------------------------------
TypeOK ==
  /\ mem_map \in [Managed -> Nat]
  /\ pd \in [PDs -> Frames \cup {NULL}]
  /\ pt \in [PTs -> Frames \cup {NULL}]
  /\ pte \in [VPages -> {NoPte} \cup [frame : Frames, w : BOOLEAN]]
  /\ live \subseteq Slots /\ 0 \in live
  /\ kframe \in [Slots -> Managed \cup {NULL}]
  /\ panic \in STRING

(* The references to frame f the code holds: leaf entries, installed     *)
(* tables and task_struct frames.                                          *)
Refs(f) ==
  Cardinality({v \in VPages : pte[v] # NoPte /\ pte[v].frame = f})
  + Cardinality({d \in PDs : pd[d] = f}) + Cardinality({i \in PTs : pt[i] = f})
  + Cardinality({s \in Slots : kframe[s] = f})

(* get_free_page / free_page / copy_page_tables / un_wp_page /             *)
(* free_page_tables: a managed frame's count is never below the number of  *)
(* references to it, so no frame still mapped or installed is ever handed  *)
(* out again by get_free_page.                                             *)
RefcountSound == \A f \in Managed : mem_map[f] >= Refs(f)

(* Spec 3 (frame map): a managed frame's count is exactly its number of    *)
(* references; no frame is lost to the allocator.                          *)
RefcountExact == \A f \in Managed : mem_map[f] = Refs(f)

(* Copy-on-write (copy_page_tables, un_wp_page) for the frames in F: a     *)
(* writable leaf is the only leaf that maps its frame, so a write through  *)
(* it is seen by no other mapping.                                         *)
WritableExclusiveOn(F) ==
  \A v \in VPages :
    pte[v] # NoPte /\ pte[v].w /\ pte[v].frame \in F
      => \A u \in VPages \ {v} : pte[u] = NoPte \/ pte[u].frame # pte[v].frame

(* The copy-on-write guarantee for the frames mem_map counts.              *)
WritableExclusive == WritableExclusiveOn(Managed)

(* Spec 4.2 clone_range: the copy-on-write guarantee for every frame, the  *)
(* kernel's low memory included.                                           *)
WritableExclusiveAll == WritableExclusiveOn(Frames)

(* Task s's window maps the same frames before and after a step.           *)
SameFrames(s) ==
  \A v \in Window(s) :
    /\ (pte'[v] = NoPte) = (pte[v] = NoPte)
    /\ pte[v] # NoPte => pte'[v].frame = pte[v].frame

(* Spec 3 (disjoint windows): a fault, a fork or an exit of task s leaves  *)
(* the frames every other live task maps in its own window as they were;   *)
(* only copy_page_tables' write protection may touch them.                 *)
OthersWindowsPreserved ==
  [][\A s \in Slots :
       ( \/ \E v \in VPages : DoNoPage(s, v) \/ DoWpPage(s, v)
         \/ \E off \in 0..(W - 1), n \in 1..W : VerifyArea(s, off, n)
         \/ \E nr \in Slots : Fork(s, nr)
         \/ Exit(s) )
       => \A u \in (live \cap live') \ {s} : SameFrames(u)]_vars

====

