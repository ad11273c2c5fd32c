------------------------------ MODULE StringLib ------------------------------
(***************************************************************************)
(* The string and memory routines of include/string.h (the static inline   *)
(* versions) and the out-of-line memcpy/memset/memmove/memcmp of           *)
(* lib/string.c that GCC calls for structure copies.                       *)
(*                                                                         *)
(* Memory is a function from cell addresses to byte values.  Byte values   *)
(* are the unsigned values 0..255 of a small set that contains NUL and one *)
(* value >= 128, so the (unsigned char) casts of the comparisons matter.   *)
(* Cells 0..N-1 are where the caller's strings and buffers lie; cell N is  *)
(* the byte just past them, which no legal call may write.                 *)
(*                                                                         *)
(* Every routine is a step: its caller's contract (terminated strings,     *)
(* room in the destination, no overlap where C forbids it) is the guard,   *)
(* and the loops of the code compute the new memory and the return value.  *)
(* strtok's static save pointer ___strtok is the variable strtok_save; it  *)
(* is what makes the order of calls matter.                                *)
(***************************************************************************)
EXTENDS Integers, Sequences, FiniteSets

CONSTANTS
  N,          \* the number of cells the caller's objects may occupy
  Bytes,      \* byte values (unsigned), containing 0 = '\0'
  MaxCount,   \* the largest count / n argument tried
  NULL        \* the null pointer

ASSUME 0 \in Bytes /\ Bytes \subseteq 0..255 /\ N \in Nat \ {0}

Addr == 0..N-1
Cells == 0..N
Counts == 0..MaxCount
Fns == {"strcpy", "strncpy", "strcat", "strncat", "strcmp", "strncmp",
        "strchr", "strrchr", "strspn", "strcspn", "strpbrk", "strstr",
        "strlen", "strtok", "memcpy", "memmove", "memcmp", "memchr", "memset"}

VARIABLES
  mem,          \* the bytes of memory
  strtok_save,  \* ___strtok: where the next strtok(NULL, ct) resumes
  call          \* the last call: routine, arguments and return value

vars == <<mem, strtok_save, call>>

-----------------------------------------------------------------------------
(* The loops of the code.  Each C loop is one RECURSIVE operator whose     *)
(* arguments are the loop's pointers and counters; a loop that leaves      *)
(* several of them live returns a record.                                  *)

\* lib/string.c memcpy: while (n--) *d++ = *s++;
RECURSIVE CopyUp(_, _, _, _)
CopyUp(m, d, s, n) ==
  IF n > 0 THEN CopyUp([m EXCEPT ![d] = m[s]], d + 1, s + 1, n - 1) ELSE m

\* lib/string.c memmove, the d >= s branch: copy from the top down.
RECURSIVE CopyDown(_, _, _, _)
CopyDown(m, d, s, n) ==
  IF n > 0 THEN CopyDown([m EXCEPT ![d - 1] = m[s - 1]], d - 1, s - 1, n - 1)
           ELSE m

LibMemmove(m, d, s, n) ==
  IF d < s THEN CopyUp(m, d, s, n) ELSE CopyDown(m, d + n, s + n, n)

\* lib/string.c memset: while (n--) *xs++ = c;
RECURSIVE Fill(_, _, _, _)
Fill(m, d, c, n) == IF n > 0 THEN Fill([m EXCEPT ![d] = c], d + 1, c, n - 1) ELSE m

\* lib/string.c memcmp: the first differing byte decides, as unsigned char.
RECURSIVE MemcmpAt(_, _, _, _)
MemcmpAt(m, s1, s2, n) ==
  IF n > 0 THEN IF m[s1] # m[s2] THEN m[s1] - m[s2]
                                 ELSE MemcmpAt(m, s1 + 1, s2 + 1, n - 1)
           ELSE 0

\* strcpy: while ((*d++ = *src++) != '\0'); the test is on the byte stored.
RECURSIVE StrcpyLoop(_, _, _)
StrcpyLoop(m, d, s) ==
  LET m2 == [m EXCEPT ![d] = m[s]]
  IN  IF m2[d] # 0 THEN StrcpyLoop(m2, d + 1, s + 1) ELSE m2

\* strncpy's first loop: while (count > 0 && (*d++ = *src++) != '\0')
\* count--;  the byte '\0' is stored and d advanced, but count is not
\* decremented for it.
RECURSIVE StrncpyCopy(_, _, _, _)
StrncpyCopy(m, d, s, count) ==
  IF count > 0
  THEN LET m2 == [m EXCEPT ![d] = m[s]]
       IN  IF m2[d] # 0 THEN StrncpyCopy(m2, d + 1, s + 1, count - 1)
                        ELSE [m |-> m2, d |-> d + 1, count |-> count]
  ELSE [m |-> m, d |-> d, count |-> count]

\* strncpy: the copy, then while (count-- > 0) *d++ = '\0';
Strncpy(m, d, s, count) ==
  LET r == StrncpyCopy(m, d, s, count) IN Fill(r.m, r.d, 0, r.count)

\* strlen's loop, also strcat's and strncat's walk to the end of dest.
RECURSIVE EndOf(_, _)
EndOf(m, p) == IF m[p] # 0 THEN EndOf(m, p + 1) ELSE p

\* strncat: while (count-- > 0 && (*d = *src++) != '\0') d++;  *d = '\0';
RECURSIVE StrncatLoop(_, _, _, _)
StrncatLoop(m, d, s, count) ==
  IF count > 0
  THEN LET m2 == [m EXCEPT ![d] = m[s]]
       IN  IF m2[d] # 0 THEN StrncatLoop(m2, d + 1, s + 1, count - 1)
                        ELSE [m |-> m2, d |-> d]
  ELSE [m |-> m, d |-> d]

\* Mutant: the terminating '\0' stored one byte past the copy.
StrncatNulPastEnd(m, d, s, count) ==
  LET r == StrncatLoop(m, EndOf(m, d), s, count) IN [r.m EXCEPT ![r.d + 1] = 0]

Strncat(m, d, s, count) ==
  LET r == StrncatLoop(m, EndOf(m, d), s, count) IN [r.m EXCEPT ![r.d] = 0]

\* Mutant: strcmp without the (unsigned char) casts, as plain (signed) char.
SChar(b) == IF b >= 128 THEN b - 256 ELSE b
RECURSIVE StrcmpAtSigned(_, _, _)
StrcmpAtSigned(m, cs, ct) ==
  IF m[cs] # 0 /\ m[cs] = m[ct] THEN StrcmpAtSigned(m, cs + 1, ct + 1)
                                ELSE SChar(m[cs]) - SChar(m[ct])

\* strcmp: while (*cs && *cs == *ct) advance; then the unsigned difference.
RECURSIVE StrcmpAt(_, _, _)
StrcmpAt(m, cs, ct) ==
  IF m[cs] # 0 /\ m[cs] = m[ct] THEN StrcmpAt(m, cs + 1, ct + 1)
                                ELSE m[cs] - m[ct]

\* strncmp: the same walk bounded by count; count = 0 means equal.
RECURSIVE StrncmpAt(_, _, _, _)
StrncmpAt(m, cs, ct, count) ==
  IF count > 0 /\ m[cs] # 0 /\ m[cs] = m[ct]
  THEN StrncmpAt(m, cs + 1, ct + 1, count - 1)
  ELSE IF count = 0 THEN 0 ELSE m[cs] - m[ct]

\* strchr: the first c before the NUL; for c = '\0', the NUL itself.
RECURSIVE StrchrAt(_, _, _)
StrchrAt(m, s, c) ==
  IF m[s] = 0 THEN (IF c # 0 THEN NULL ELSE s)
  ELSE IF m[s] = c THEN s ELSE StrchrAt(m, s + 1, c)

\* strrchr: remember the last c seen; for c = '\0', the NUL itself.
RECURSIVE StrrchrAt(_, _, _, _)
StrrchrAt(m, s, c, last) ==
  IF m[s] = 0 THEN (IF c # 0 THEN last ELSE s)
  ELSE StrrchrAt(m, s + 1, c, IF m[s] = c THEN s ELSE last)

\* The inner loop for (p = ct; *p; p++) if (*p == b) break;  of strspn,
\* strcspn, strpbrk and strtok: it stops on a NUL iff b is not in ct.
RECURSIVE FindIn(_, _, _)
FindIn(m, p, b) == IF m[p] # 0 /\ m[p] # b THEN FindIn(m, p + 1, b) ELSE p

InSet(m, ct, b) == m[FindIn(m, ct, b)] # 0

\* strspn's loop, also strtok's skip of leading delimiters.
RECURSIVE StrspnAt(_, _, _)
StrspnAt(m, s, ct) ==
  IF m[s] # 0 /\ InSet(m, ct, m[s]) THEN StrspnAt(m, s + 1, ct) ELSE s

\* strcspn's loop, also strtok's search for the end of the token.
RECURSIVE StrcspnAt(_, _, _)
StrcspnAt(m, s, ct) ==
  IF m[s] # 0 /\ ~InSet(m, ct, m[s]) THEN StrcspnAt(m, s + 1, ct) ELSE s

RECURSIVE StrpbrkAt(_, _, _)
StrpbrkAt(m, cs, ct) ==
  IF m[cs] = 0 THEN NULL
  ELSE IF InSet(m, ct, m[cs]) THEN cs ELSE StrpbrkAt(m, cs + 1, ct)

\* strstr's inner while (*p && *q && *p == *q): where q stops.
RECURSIVE MatchEnd(_, _, _)
MatchEnd(m, p, q) ==
  IF m[p] # 0 /\ m[q] # 0 /\ m[p] = m[q] THEN MatchEnd(m, p + 1, q + 1) ELSE q

RECURSIVE StrstrAt(_, _, _)
StrstrAt(m, s, ct) ==
  IF m[s] = 0 THEN NULL
  ELSE IF m[MatchEnd(m, s, ct)] = 0 THEN s ELSE StrstrAt(m, s + 1, ct)

Strstr(m, cs, ct) == IF m[ct] = 0 THEN cs ELSE StrstrAt(m, cs, ct)

\* Mutant: ___strtok advanced twice past the delimiter it overwrote.
StrtokSkipTwo(m, save, s, ct) ==
  LET p == IF s # NULL THEN s ELSE save
  IN  IF p = NULL THEN [m |-> m, save |-> NULL, ret |-> NULL]
      ELSE LET t == StrspnAt(m, p, ct)
           IN  IF m[t] = 0 THEN [m |-> m, save |-> t, ret |-> NULL]
               ELSE LET e == StrcspnAt(m, t, ct)
                    IN  IF m[e] # 0
                        THEN [m |-> [m EXCEPT ![e] = 0], save |-> e + 2, ret |-> t]
                        ELSE [m |-> m, save |-> NULL, ret |-> t]

\* strtok: the new memory, save pointer and token.
Strtok(m, save, s, ct) ==
  LET p == IF s # NULL THEN s ELSE save
  IN  IF p = NULL THEN [m |-> m, save |-> NULL, ret |-> NULL]
      ELSE LET t == StrspnAt(m, p, ct)
           IN  IF m[t] = 0 THEN [m |-> m, save |-> t, ret |-> NULL]
               ELSE LET e == StrcspnAt(m, t, ct)
                    IN  IF m[e] # 0
                        THEN [m |-> [m EXCEPT ![e] = 0], save |-> e + 1, ret |-> t]
                        ELSE [m |-> m, save |-> NULL, ret |-> t]

\* memchr: the first byte equal to (unsigned char)c among n.
RECURSIVE MemchrAt(_, _, _, _)
MemchrAt(m, s, c, n) ==
  IF n > 0 THEN IF m[s] = c THEN s ELSE MemchrAt(m, s + 1, c, n - 1) ELSE NULL

-----------------------------------------------------------------------------
(* The caller's side of each contract: what a legal call looks like.  A    *)
(* string is terminated inside the caller's cells; a destination has room  *)
(* for what is written to it; source and destination do not overlap except *)
(* for memmove.                                                            *)

Terminated(m, p) == p \in Addr /\ \E i \in p..N-1 : m[i] = 0

\* The length of the terminated string at p.
SLen(m, p) == CHOOSE k \in 0..N-1-p : m[p + k] = 0 /\ \A j \in 0..k-1 : m[p + j] # 0

Span(p, n) == p..p+n-1
Fits(p, n) == p \in Addr /\ p + n <= N
Apart(p, n, q, k) == Span(p, n) \cap Span(q, k) = {}

MinOf(S) == CHOOSE x \in S : \A y \in S : x <= y
MaxOf(S) == CHOOSE x \in S : \A y \in S : x >= y

NoCall == [fn |-> "none", args |-> <<>>, ret |-> NULL]

\* A call: the memory it leaves and what it returns; only strtok moves the
\* save pointer.
Call(fn, args, m2, ret) ==
  /\ mem' = m2
  /\ call' = [fn |-> fn, args |-> args, ret |-> ret]
  /\ UNCHANGED strtok_save

strcpy(d, s) ==
  /\ Terminated(mem, s)
  /\ LET k == SLen(mem, s) + 1 IN Fits(d, k) /\ Apart(d, k, s, k)
  /\ Call("strcpy", <<d, s>>, StrcpyLoop(mem, d, s), d)

strncpy(d, s, count) ==
  /\ Terminated(mem, s)
  /\ Fits(d, count) /\ Apart(d, count, s, SLen(mem, s) + 1)
  /\ Call("strncpy", <<d, s, count>>, Strncpy(mem, d, s, count), d)

strcat(d, s) ==
  /\ Terminated(mem, d) /\ Terminated(mem, s)
  /\ LET ld == SLen(mem, d)
         k  == SLen(mem, s) + 1
     IN  Fits(d + ld, k) /\ Apart(d, ld + k, s, k)
  /\ Call("strcat", <<d, s>>, StrcpyLoop(mem, EndOf(mem, d), s), d)

strncat(d, s, count) ==
  /\ Terminated(mem, d) /\ Terminated(mem, s)
  /\ LET ld == SLen(mem, d)
         k  == MinOf({SLen(mem, s), count}) + 1
     IN  Fits(d + ld, k) /\ Apart(d, ld + k, s, SLen(mem, s) + 1)
  /\ Call("strncat", <<d, s, count>>, Strncat(mem, d, s, count), d)

strcmp(cs, ct) ==
  /\ Terminated(mem, cs) /\ Terminated(mem, ct)
  /\ Call("strcmp", <<cs, ct>>, mem, StrcmpAt(mem, cs, ct))

strncmp(cs, ct, count) ==
  /\ Terminated(mem, cs) /\ Terminated(mem, ct)
  /\ Call("strncmp", <<cs, ct, count>>, mem, StrncmpAt(mem, cs, ct, count))

strchr(s, c) ==
  /\ Terminated(mem, s)
  /\ Call("strchr", <<s, c>>, mem, StrchrAt(mem, s, c))

strrchr(s, c) ==
  /\ Terminated(mem, s)
  /\ Call("strrchr", <<s, c>>, mem, StrrchrAt(mem, s, c, NULL))

strspn(cs, ct) ==
  /\ Terminated(mem, cs) /\ Terminated(mem, ct)
  /\ Call("strspn", <<cs, ct>>, mem, StrspnAt(mem, cs, ct) - cs)

strcspn(cs, ct) ==
  /\ Terminated(mem, cs) /\ Terminated(mem, ct)
  /\ Call("strcspn", <<cs, ct>>, mem, StrcspnAt(mem, cs, ct) - cs)

strpbrk(cs, ct) ==
  /\ Terminated(mem, cs) /\ Terminated(mem, ct)
  /\ Call("strpbrk", <<cs, ct>>, mem, StrpbrkAt(mem, cs, ct))

strstr(cs, ct) ==
  /\ Terminated(mem, cs) /\ Terminated(mem, ct)
  /\ Call("strstr", <<cs, ct>>, mem, Strstr(mem, cs, ct))

strlen(s) ==
  /\ Terminated(mem, s)
  /\ Call("strlen", <<s>>, mem, EndOf(mem, s) - s)

\* strtok(s, ct): s = NULL continues from ___strtok.  The caller keeps the
\* string it is tokenising terminated and apart from the delimiters.
strtok(s, ct) ==
  LET p == IF s # NULL THEN s ELSE strtok_save
      r == Strtok(mem, strtok_save, s, ct)
  IN  /\ Terminated(mem, ct)
      /\ p # NULL => Terminated(mem, p)
                     /\ Apart(p, SLen(mem, p) + 1, ct, SLen(mem, ct) + 1)
      /\ mem' = r.m
      /\ strtok_save' = r.save
      /\ call' = [fn |-> "strtok", args |-> <<s, ct>>, ret |-> r.ret]

memcpy(d, s, n) ==
  /\ Fits(d, n) /\ Fits(s, n) /\ Apart(d, n, s, n)
  /\ Call("memcpy", <<d, s, n>>, CopyUp(mem, d, s, n), d)

memmove(d, s, n) ==
  /\ Fits(d, n) /\ Fits(s, n)
  /\ Call("memmove", <<d, s, n>>, LibMemmove(mem, d, s, n), d)

memcmp(cs, ct, n) ==
  /\ Fits(cs, n) /\ Fits(ct, n)
  /\ Call("memcmp", <<cs, ct, n>>, mem, MemcmpAt(mem, cs, ct, n))

memchr(s, c, n) ==
  /\ Fits(s, n)
  /\ Call("memchr", <<s, c, n>>, mem, MemchrAt(mem, s, c, n))

memset(s, c, n) ==
  /\ Fits(s, n)
  /\ Call("memset", <<s, c, n>>, Fill(mem, s, c, n), s)

\* The caller takes the returned value and goes on to its next call.
Return ==
  /\ call # NoCall
  /\ call' = NoCall
  /\ UNCHANGED <<mem, strtok_save>>

\* Any contents of the caller's cells; no strtok in progress.  No legal call
\* reads the byte past them, so it starts as a fixed non-zero byte, which
\* makes a stray '\0' written there visible.
Init ==
  /\ mem \in {m \in [Cells -> Bytes] : m[N] = MaxOf(Bytes)}
  /\ strtok_save = NULL
  /\ call = NoCall

\* The caller makes its next call once it has taken the previous result.
Next ==
  \/ Return
  \/ /\ call = NoCall
     /\ \/ \E d, s \in Addr :
            \/ strcpy(d, s) \/ strcat(d, s) \/ strcmp(d, s) \/ strspn(d, s)
            \/ strcspn(d, s) \/ strpbrk(d, s) \/ strstr(d, s)
        \/ \E d, s \in Addr, n \in Counts :
            \/ strncpy(d, s, n) \/ strncat(d, s, n) \/ strncmp(d, s, n)
            \/ memcpy(d, s, n) \/ memmove(d, s, n) \/ memcmp(d, s, n)
        \/ \E s \in Addr, c \in Bytes :
            \/ strchr(s, c) \/ strrchr(s, c)
            \/ \E n \in Counts : memchr(s, c, n) \/ memset(s, c, n)
        \/ \E s \in Addr : strlen(s)
        \/ \E s \in Addr \cup {NULL}, ct \in Addr : strtok(s, ct)

Spec == Init /\ [][Next]_vars

-----------------------------------------------------------------------------
(* Reference definitions: what each routine promises (the C library's      *)
(* contract), stated over the sequences of bytes the arguments denote.     *)

Seg(m, p, n) == [i \in 1..n |-> m[p + i - 1]]
Str(m, p) == Seg(m, p, SLen(m, p))
Prefix(x, n) == SubSeq(x, 1, MinOf({n, Len(x)}))
CharsOf(m, p) == {m[p + i] : i \in 0..SLen(m, p) - 1}
Sign(v) == IF v > 0 THEN 1 ELSE IF v < 0 THEN -1 ELSE 0
FirstOf(S) == IF S = {} THEN NULL ELSE MinOf(S)
LastOf(S) == IF S = {} THEN NULL ELSE MaxOf(S)

\* Lexicographic order of byte sequences, bytes compared as unsigned.
RECURSIVE LexSign(_, _)
LexSign(x, y) ==
  CASE x = <<>> /\ y = <<>> -> 0
    [] x = <<>>             -> -1
    [] y = <<>>             -> 1
    [] Head(x) # Head(y)    -> Sign(Head(x) - Head(y))
    [] OTHER                -> LexSign(Tail(x), Tail(y))

\* The length of the longest prefix of the string at p made of bytes in A.
PrefixIn(m, p, A) == MaxOf({k \in 0..SLen(m, p) : \A i \in 0..k-1 : m[p + i] \in A})

\* strtok's promise: skip the delimiters of ct; return NULL if nothing is
\* left, else the token, terminated in place, with the save pointer just
\* after the delimiter that ended it, or NULL if the string ended it.
StrtokPromise(m, m2, save, save2, a, ret) ==
  LET p == IF a[1] # NULL THEN a[1] ELSE save
      D == CharsOf(m, a[2])
  IN  IF p = NULL THEN ret = NULL
      ELSE LET t == p + PrefixIn(m, p, D)
               k == PrefixIn(m, t, Bytes \ D)
           IN  IF m[t] = 0 THEN ret = NULL
               ELSE /\ ret = t
                    /\ Seg(m2, t, k + 1) = Seg(m, t, k) \o <<0>>
                    /\ save2 = IF m[t + k] # 0 THEN t + k + 1 ELSE NULL

\* The promise of the call c, made from memory m and save pointer save.
Promise(m, m2, save, save2, c) ==
  LET a == c.args
      r == c.ret
  IN  CASE c.fn = "strcpy" ->
             r = a[1] /\ Seg(m2, a[1], SLen(m, a[2]) + 1) = Str(m, a[2]) \o <<0>>
        [] c.fn = "strncpy" ->
             /\ r = a[1]
             /\ Seg(m2, a[1], a[3]) =
                  [i \in 1..a[3] |-> IF i <= SLen(m, a[2]) THEN m[a[2] + i - 1] ELSE 0]
        [] c.fn = "strcat" ->
             /\ r = a[1]
             /\ Seg(m2, a[1], SLen(m, a[1]) + SLen(m, a[2]) + 1)
                  = Str(m, a[1]) \o Str(m, a[2]) \o <<0>>
        [] c.fn = "strncat" ->
             LET k == MinOf({SLen(m, a[2]), a[3]})
             IN  /\ r = a[1]
                 /\ Seg(m2, a[1], SLen(m, a[1]) + k + 1)
                      = Str(m, a[1]) \o Prefix(Str(m, a[2]), k) \o <<0>>
        [] c.fn = "strcmp" -> Sign(r) = LexSign(Str(m, a[1]), Str(m, a[2]))
        [] c.fn = "strncmp" ->
             Sign(r) = LexSign(Prefix(Str(m, a[1]), a[3]), Prefix(Str(m, a[2]), a[3]))
        [] c.fn = "memcmp" -> Sign(r) = LexSign(Seg(m, a[1], a[3]), Seg(m, a[2], a[3]))
        [] c.fn = "strchr" ->
             r = IF a[2] = 0 THEN a[1] + SLen(m, a[1])
                 ELSE FirstOf({q \in Span(a[1], SLen(m, a[1])) : m[q] = a[2]})
        [] c.fn = "strrchr" ->
             r = IF a[2] = 0 THEN a[1] + SLen(m, a[1])
                 ELSE LastOf({q \in Span(a[1], SLen(m, a[1])) : m[q] = a[2]})
        [] c.fn = "strspn" -> r = PrefixIn(m, a[1], CharsOf(m, a[2]))
        [] c.fn = "strcspn" -> r = PrefixIn(m, a[1], Bytes \ CharsOf(m, a[2]))
        [] c.fn = "strpbrk" ->
             r = FirstOf({q \in Span(a[1], SLen(m, a[1])) : m[q] \in CharsOf(m, a[2])})
        [] c.fn = "strstr" ->
             r = FirstOf({q \in a[1]..a[1] + SLen(m, a[1]) - SLen(m, a[2]) :
                            Seg(m, q, SLen(m, a[2])) = Str(m, a[2])})
        [] c.fn = "strlen" -> r = SLen(m, a[1])
        [] c.fn \in {"memcpy", "memmove"} ->
             r = a[1] /\ Seg(m2, a[1], a[3]) = Seg(m, a[2], a[3])
        [] c.fn = "memchr" -> r = FirstOf({q \in Span(a[1], a[3]) : m[q] = a[2]})
        [] c.fn = "memset" -> r = a[1] /\ Seg(m2, a[1], a[3]) = [i \in 1..a[3] |-> a[2]]
        [] c.fn = "strtok" -> StrtokPromise(m, m2, save, save2, a, r)

\* The cells the call c may write: its destination, as the contract sizes it.
MayWrite(m, save, c) ==
  LET a == c.args
  IN  CASE c.fn = "strcpy"  -> Span(a[1], SLen(m, a[2]) + 1)
        [] c.fn = "strncpy" -> Span(a[1], a[3])
        [] c.fn = "strcat"  -> Span(a[1] + SLen(m, a[1]), SLen(m, a[2]) + 1)
        [] c.fn = "strncat" ->
             Span(a[1] + SLen(m, a[1]), MinOf({SLen(m, a[2]), a[3]}) + 1)
        [] c.fn \in {"memcpy", "memmove", "memset"} -> Span(a[1], a[3])
        [] c.fn = "strtok" ->
             LET p == IF a[1] # NULL THEN a[1] ELSE save
             IN  IF p = NULL THEN {} ELSE Span(p, SLen(m, p))
        [] OTHER -> {}

-----------------------------------------------------------------------------
(* Properties.                                                             *)

TypeOK ==
  /\ mem \in [Cells -> Bytes]
  /\ strtok_save \in Addr \cup {NULL}
  /\ call.fn \in Fns \cup {"none"}
  /\ call.ret \in Int \cup {NULL}

\* Every call of a string.h or lib/string.c routine keeps its promise: the
\* return value (a comparison's sign, a found position or NULL, a length)
\* and the contents of the destination are those of the reference
\* definitions, for every legal call from every reachable memory and
\* strtok save pointer, including overlapping memmove and strtok resumed
\* after other calls.
ResultsAgree ==
  [][call' # NoCall => Promise(mem, mem', strtok_save, strtok_save', call')]_vars

\* A step of a routine in F writes no byte outside the destination its
\* contract sizes.
ConfinedStep(F) ==
  call'.fn \in F =>
    \A x \in Cells \ MayWrite(mem, strtok_save, call') : mem'[x] = mem[x]

\* No routine of string.h but strncpy writes past the buffer its caller
\* provided, whatever the arguments' overlap and the memory's contents.
WritesConfined == [][ConfinedStep(Fns \ {"strncpy"})]_vars

\* strncpy(dest, src, count) writes at most count bytes (C99 7.21.2.4).
StrncpyWritesConfined == [][ConfinedStep({"strncpy"})]_vars

=============================================================================
