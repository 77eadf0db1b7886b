------------------------------- MODULE Console -------------------------------
(***************************************************************************)
(* The text console of kernel/graphics.c: print_char and print_str under   *)
(* graphics_mutex, the cursor (__print_char, check_charpos), and the cache *)
(* of rendered glyphs (get_glyph).                                         *)
(*                                                                         *)
(* The cursor counts character cells: next_x and next_y are multiples of   *)
(* adv_x and adv_y.  A bitmap is the character it shows, FreeType is what  *)
(* renders one or fails.  cur_priority has CurValues values (2^64 in the   *)
(* code), the priority of an entry is a signed int of 2 * IntHalf (2^32).  *)
(***************************************************************************)
EXTENDS Integers, Sequences

CONSTANTS Procs,      \* processors
          Chars,      \* characters that are drawn
          CacheSize,  \* GLYPH_CACHE_SIZE
          CurValues, IntHalf,
          Cols, Rows, \* cells that fit on the screen
          MaxLen,     \* bound: the longest string printed
          MaxRow,     \* bound: how far below the screen the cursor is moved
          Nobody,     \* graphics_mutex is free
          Blank       \* a bitmap of background only; no character

ASSUME WidthAssumption == {CurValues, IntHalf} \subseteq Nat \ {0} /\ 2 * IntHalf <= CurValues
ASSUME ScreenAssumption == {CacheSize, Cols, Rows} \subseteq Nat \ {0} /\ {MaxLen, MaxRow} \subseteq Nat
ASSUME NamesAssumption == Nobody \notin Procs /\ Blank \notin Chars

VARIABLES mutex,   \* holder of graphics_mutex
          pc, left, \* per processor: where it is, and how much of its string is left
          x, y,    \* next_x, next_y, in cells
          cache,   \* glyph_cache
          cur,     \* cur_priority
          shown,   \* what was drawn last, for which character, and where
          recent,  \* ghost: the characters drawn, the latest first, each once
          below,   \* ghost: the cursor left the screen at the bottom
          long     \* ghost: cur_priority has not always fitted in an int

vars == <<mutex, pc, left, x, y, cache, cur, shown, recent, below, long>>

MinInt == -IntHalf
MaxInt == IntHalf - 1

\* uint64_t to int.
ToInt(n) == LET m == n % (2 * IntHalf) IN IF m > MaxInt THEN m - 2 * IntHalf ELSE m

Glyphs == Chars \cup {Blank}
Spaces == {"n", "r", "f", "t", "v", " "}
tab_size == 4
ff_size == 1

TypeOK == /\ mutex \in Procs \cup {Nobody}
          /\ pc \in [Procs -> {"idle", "lock", "print", "unlock", "stuck"}]
          /\ left \in [Procs -> 0 .. MaxLen]
          /\ x \in 0 .. Cols - 1 /\ y \in Nat
          /\ cache \in [1 .. CacheSize -> [ch : Glyphs, priority : MinInt .. MaxInt, bitmap : Glyphs]]
          /\ cur \in 0 .. CurValues - 1
          /\ shown \in [bitmap : Glyphs, ch : Glyphs, on : BOOLEAN]
          /\ recent \in Seq(Chars)
          /\ below \in BOOLEAN /\ long \in BOOLEAN

(* init_graphics; the cache is zeroed, and character 0 is not drawn.       *)
Init == /\ mutex = Nobody
        /\ pc = [p \in Procs |-> "idle"] /\ left = [p \in Procs |-> 0]
        /\ x = 0 /\ y = 0
        /\ cache = [i \in 1 .. CacheSize |-> [ch |-> Blank, priority |-> 0, bitmap |-> Blank]]
        /\ cur = 0
        /\ shown = [bitmap |-> Blank, ch |-> Blank, on |-> TRUE]
        /\ recent = << >> /\ below = FALSE /\ long = FALSE

-----------------------------------------------------------------------------
\* Plausible slips, for the mutants.
OldestIsNewest(c, now) ==
    LET S == {i \in 1 .. CacheSize : c[i].priority < ToInt(now)}
    IN  IF S = {} THEN 1 ELSE CHOOSE i \in S : \A j \in S : c[i].priority >= c[j].priority
CachedIfUsed(c, ch) == {i \in 1 .. CacheSize : c[i].ch = ch /\ c[i].priority # 0}
RenderKeepsBitmap(c, i, ch, now) ==
    [c EXCEPT ![i] = [ch |-> ch, priority |-> ToInt(now), bitmap |-> @.bitmap]]
RightEdgeLate(col, row) ==
    [x |-> IF col > Cols THEN 0 ELSE col, y |-> IF col > Cols THEN row + 1 ELSE row, clear |-> FALSE]
UnlockOnlyEmpty(p) ==
    /\ pc[p] = "unlock" /\ x = 0
    /\ mutex' = Nobody /\ pc' = [pc EXCEPT ![p] = "idle"]
    /\ UNCHANGED <<left, x, y, cache, cur, shown, recent, below, long>>

-----------------------------------------------------------------------------
(* get_glyph.                                                              *)
Bump == LET n == (cur + 1) % CurValues IN IF n = 0 THEN 1 ELSE n

CountUse == cur' = Bump /\ long' = (long \/ Bump > MaxInt)

\* On the rollover of cur_priority all priorities start again at 0.
Rolled == IF (cur + 1) % CurValues = 0
          THEN [i \in 1 .. CacheSize |-> [cache[i] EXCEPT !.priority = 0]] ELSE cache

Cached(c, ch) == {i \in 1 .. CacheSize : c[i].ch = ch}

\* Entries the loop may choose, and the first of the lowest among them; the
\* index stays at the first entry when there is none.
Candidates(c, now) == {i \in 1 .. CacheSize : c[i].priority < ToInt(now)}
Oldest(c, now) ==
    LET S == Candidates(c, now)
        L == {i \in S : \A j \in S : c[i].priority <= c[j].priority}
    IN  IF S = {} THEN 1 ELSE CHOOSE i \in L : \A j \in L : i <= j

Hit(c, i, now) == [c EXCEPT ![i].priority = ToInt(now)]
Render(c, i, ch, now) == [c EXCEPT ![i] = [ch |-> ch, priority |-> ToInt(now), bitmap |-> ch]]

get_glyph(ch) ==
    LET hit == Cached(Rolled, ch)
        i == IF hit # {} THEN CHOOSE k \in hit : \A j \in hit : k <= j ELSE Oldest(Rolled, Bump)
        c == IF hit # {} THEN Hit(Rolled, i, Bump) ELSE Render(Rolled, i, ch, Bump)
    IN  [cache |-> c, bitmap |-> c[i].bitmap]

\* FreeType fails: kernel_panic, which prints, and print_str waits for the
\* mutex its own processor holds.
RenderFails(p, ch) ==
    LET i == Oldest(Rolled, Bump)
    IN  /\ Cached(Rolled, ch) = {}
        /\ CountUse
        /\ cache' = [Rolled EXCEPT ![i] = [ch |-> ch, priority |-> ToInt(Bump), bitmap |-> Blank]]
        /\ pc' = [pc EXCEPT ![p] = "stuck"]
        /\ UNCHANGED <<mutex, left, x, y, shown, recent, below>>

-----------------------------------------------------------------------------
(* check_charpos: the next line when the cursor is past the right edge,    *)
(* and only then the top of a cleared screen when it is past the bottom.   *)
check_charpos(col, row) ==
    IF col + 1 > Cols
    THEN [x |-> 0, y |-> IF row + 2 > Rows THEN 0 ELSE row + 1, clear |-> row + 2 > Rows]
    ELSE [x |-> col, y |-> row, clear |-> FALSE]

\* fill_screen takes graphics_mutex, which the printing processor holds: it
\* never gets it.
MoveCursor(p, col, row) ==
    LET to == check_charpos(col, row)
        more == left[p] > 1
    IN  /\ x' = to.x /\ y' = to.y
        /\ below' = (below \/ to.y >= Rows)
        /\ left' = [left EXCEPT ![p] = @ - 1]
        /\ pc' = [pc EXCEPT ![p] = IF to.clear THEN "stuck" ELSE IF more THEN "print" ELSE "unlock"]

(* __print_char of a space.                                                *)
PrintSpace(p, ch) ==
    /\ pc[p] = "print" /\ (ch \in {"n", "f", "v"} => y < MaxRow)
    /\ CASE ch = "n" -> MoveCursor(p, 0, y + 1)
         [] ch = "r" -> MoveCursor(p, 0, y)
         [] ch = "f" -> MoveCursor(p, x, y + ff_size)
         [] ch = "t" -> MoveCursor(p, x + tab_size, y)
         [] ch = "v" -> MoveCursor(p, x, y + 1)
         [] ch = " " -> MoveCursor(p, x + 1, y)
    /\ UNCHANGED <<mutex, cache, cur, shown, recent, long>>

\* ch at the front of s, where it moves if it is in s already.
PlaceIn(ch, s) == IF \E k \in 1 .. Len(s) : s[k] = ch THEN CHOOSE k \in 1 .. Len(s) : s[k] = ch
                  ELSE Len(s) + 1
InFront(ch, s) ==
    LET p == PlaceIn(ch, s)
    IN  [k \in 1 .. (IF p > Len(s) THEN p ELSE Len(s)) |->
           IF k = 1 THEN ch ELSE IF k <= p THEN s[k - 1] ELSE s[k]]

(* __print_char of anything else: the glyph is copied to the cell.         *)
PrintGlyph(p, ch) ==
    /\ pc[p] = "print"
    /\ CountUse
    /\ cache' = get_glyph(ch).cache
    /\ shown' = [bitmap |-> get_glyph(ch).bitmap, ch |-> ch, on |-> x < Cols /\ y < Rows]
    /\ recent' = InFront(ch, recent)
    /\ MoveCursor(p, x + 1, y)
    /\ UNCHANGED mutex

\* A processor calls print_char (a string of one), print_str, or has
\* kernel_panic print.
Call(p, n) ==
    /\ pc[p] = "idle"
    /\ pc' = [pc EXCEPT ![p] = "lock"]
    /\ left' = [left EXCEPT ![p] = n]
    /\ UNCHANGED <<mutex, x, y, cache, cur, shown, recent, below, long>>

Lock(p) ==
    /\ pc[p] = "lock" /\ mutex = Nobody
    /\ mutex' = p
    /\ pc' = [pc EXCEPT ![p] = IF left[p] > 0 THEN "print" ELSE "unlock"]
    /\ UNCHANGED <<left, x, y, cache, cur, shown, recent, below, long>>

Unlock(p) ==
    /\ pc[p] = "unlock"
    /\ mutex' = Nobody
    /\ pc' = [pc EXCEPT ![p] = "idle"]
    /\ UNCHANGED <<left, x, y, cache, cur, shown, recent, below, long>>

Work(p) == \/ \E ch \in Spaces : PrintSpace(p, ch)
           \/ \E ch \in Chars : PrintGlyph(p, ch)
           \/ Unlock(p)

Next == \E p \in Procs : \/ \E n \in 0 .. MaxLen : Call(p, n)
                         \/ Lock(p) \/ Work(p)
                         \/ \E ch \in Chars : pc[p] = "print" /\ RenderFails(p, ch)

(* A processor that holds the mutex goes on.                               *)
Spec == Init /\ [][Next]_vars /\ \A p \in Procs : WF_vars(Work(p))

-----------------------------------------------------------------------------
Stuck == \E p \in Procs : pc[p] = "stuck"

(* No character is cached twice, over all rollovers.                       *)
CachedOnce == \A i, j \in 1 .. CacheSize : cache[i].ch = cache[j].ch /\ cache[i].ch # Blank => i = j

(* A character is shown by its own glyph, whatever was evicted before.     *)
ShowsItself == shown.bitmap = shown.ch /\ CachedOnce

(* The cursor stays on the screen, unless a line feed, a form feed or a    *)
(* vertical tab moved it off: check_charpos looks at the bottom only when  *)
(* the right edge is passed.                                               *)
DrawsOnScreen == ~below => shown.on

(* The cache keeps the most recently used glyphs, as long as cur_priority  *)
(* fits in an int.                                                         *)
KeepsRecent ==
    ~long /\ ~Stuck => \A k \in 1 .. CacheSize : k <= Len(recent) => Cached(cache, recent[k]) # {}

(* A printing processor finishes, or is stuck for good: FreeType failed,   *)
(* or the screen was full.                                                 *)
PrintFinishes == \A p \in Procs : (mutex = p) ~> (mutex # p \/ pc[p] = "stuck")
=============================================================================
