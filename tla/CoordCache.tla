----------------------------- MODULE CoordCache -----------------------------
(***************************************************************************)
(* Offsets and screen coordinates of a viewed file                         *)
(* (src/viewer/coord_cache.c): both are found by walking over the bytes    *)
(* from the nearest entry of a cache, and the ways walked are remembered   *)
(* in steps of VIEW_COORD_CACHE_GRANUL bytes.                              *)
(***************************************************************************)
EXTENDS Integers, SequencesExt

CONSTANTS
  VIEW_COORD_CACHE_GRANUL,  \* 1024
  BS, CRet, Newline, Tab,   \* '\b', '\r', '\n', '\t'
  Printable,                \* the printable bytes told apart, these three among them:
  Underscore, Plus, LetterO,  \* '_', '+', 'o'
  FileBytes,                \* bytes of the file, of these and others
  HexBytes,                  \* the bytes the hex editor writes
  Columns,                  \* bound: columns asked for
  MaxFile                   \* bound: bytes of a file

ASSUME GranulAssumption == VIEW_COORD_CACHE_GRANUL \in Nat \ {0} /\ MaxFile \in Nat
ASSUME ColumnsAssumption == Columns \subseteq Nat
ASSUME ControlAssumption ==
  /\ BS \notin {CRet, Newline, Tab} /\ CRet \notin {Newline, Tab} /\ Tab # Newline
  /\ Printable \cap {BS, CRet, Newline, Tab} = {}

VARIABLES
  bytes,        \* the file
  nroff,        \* view->mode_flags.nroff
  coord_cache,  \* entries [cc_offset, cc_line, cc_column, cc_nroff_column]
  lookup,       \* [at, what, coord], the call of mcview_ccache_lookup; coord is
                \* what is asked for and then the answer
  rewritten     \* a byte was changed that an entry of the cache had depended on

cc_vars == <<bytes, nroff, coord_cache, lookup, rewritten>>

Has(o) == o < Len(bytes)
Byte0(o) == IF Has(o) THEN bytes[o + 1] ELSE -1

Entry(offset, line, column, ncolumn) ==
  [cc_offset |-> offset, cc_line |-> line, cc_column |-> column, cc_nroff_column |-> ncolumn]
First == Entry(0, 0, 0, 0)

(* The comparison functions.                                                *)
Before(what, a, b) ==
  LET column(e) == IF nroff THEN e.cc_nroff_column ELSE e.cc_column
  IN IF what = "CCACHE_LINECOL" THEN a.cc_offset < b.cc_offset
     ELSE a.cc_line < b.cc_line \/ (a.cc_line = b.cc_line /\ column(a) < column(b))

-----------------------------------------------------------------------------
(* One step of the walk: the coordinates of the next byte, and where in an  *)
(* overstruck character ("a\ba", "_\ba" or the bullet "+\bo") it is.        *)

mcview_is_nroff_sequence(o) ==
  LET c0 == bytes[o + 1]
      c2 == bytes[o + 3]
  IN /\ Has(o + 2) /\ bytes[o + 2] = BS /\ c0 \in Printable /\ c2 \in Printable
     /\ c0 = c2 \/ c0 = Underscore \/ (c0 = Plus /\ c2 = LetterO)

NextState(state, o) ==
  IF state = "NROFF_BACKSPACE" THEN "NROFF_CONTINUATION"
  ELSE IF mcview_is_nroff_sequence(o) THEN "NROFF_BACKSPACE" ELSE "NROFF_START"

TabStop(column) == column - (column % 8) + 8

NextEntry(e, state) ==
  LET c == bytes[e.cc_offset + 1]
      newline == Entry(e.cc_offset + 1, e.cc_line + 1, 0, 0)
      ignored == Byte0(e.cc_offset + 1) \in {CRet, Newline}
  IN CASE c = CRet -> IF ignored THEN [e EXCEPT !.cc_offset = @ + 1] ELSE newline
       [] c # CRet /\ state = "NROFF_BACKSPACE" ->
            Entry(e.cc_offset + 1, e.cc_line, e.cc_column + 1, e.cc_nroff_column - 1)
       [] c = Tab /\ state # "NROFF_BACKSPACE" ->
            Entry(e.cc_offset + 1, e.cc_line, TabStop(e.cc_column), TabStop(e.cc_nroff_column))
       [] c = Newline /\ state # "NROFF_BACKSPACE" -> newline
       [] OTHER -> Entry(e.cc_offset + 1, e.cc_line, e.cc_column + 1, e.cc_nroff_column + 1)

\* Mutant: an entry may be saved in the middle of a sequence.
CanSaveAnywhere(c, state) == state # "NROFF_BACKSPACE" /\ c # CRet

(* Where the walk may begin again.                                          *)
CanSave(c, state) == state = "NROFF_START" /\ c # CRet

-----------------------------------------------------------------------------
(* The last entry that is not behind coord, by bisection.                   *)
mcview_ccache_find(what, coord) ==
  LET n == Len(coord_cache)
      half(w) ==
        LET i == w.base + w.limit \div 2
        IN [limit |-> (w.limit + 1) \div 2,
            base |-> IF Before(what, coord, coord_cache[i + 1]) THEN w.base ELSE i]
      window[k \in 0 .. n] ==
        IF k = 0 THEN [limit |-> n, base |-> 0]
        ELSE LET w == window[k - 1] IN IF w.limit > 1 THEN half(w) ELSE w
  IN window[n].base + 1

(* The for loop from an entry: [current, entry, state] after so many turns. *)
Walked(what, coord, from, limit) ==
  LET ends(w) == \/ w.current.cc_offset >= limit \/ ~Has(w.current.cc_offset)
                 \/ /\ ~Before(what, w.current, coord)
                    /\ ~(what = "CCACHE_OFFSET" /\ nroff /\ w.state # "NROFF_START")
      turn(w) ==
        LET e == NextEntry(w.current, w.state)
            state == NextState(w.state, w.current.cc_offset)
        IN [current |-> e, state |-> state,
            entry |-> IF CanSave(bytes[w.current.cc_offset + 1], state) THEN e ELSE w.entry]
      walk[k \in 0 .. limit - from.cc_offset] ==
        IF k = 0 THEN [current |-> from, entry |-> from, state |-> "NROFF_START"]
        ELSE LET w == walk[k - 1] IN IF ends(w) THEN w ELSE turn(w)
  IN walk[limit - from.cc_offset]

mcview_ccache_lookup(what, coord) ==
  /\ lookup.at # "retry"
  /\ lookup' = [at |-> "retry", what |-> what, coord |-> coord]
  /\ coord_cache' = IF coord_cache = << >> THEN <<First>> ELSE coord_cache
  /\ UNCHANGED <<bytes, nroff, rewritten>>

(* From "retry:" on.  When the walk has left the cache behind, its last     *)
(* saved entry is added, and unless the user has interrupted, all begins    *)
(* again.                                                                   *)
retry ==
  /\ lookup.at = "retry"
  /\ LET k == mcview_ccache_find(lookup.what, lookup.coord)
         from == coord_cache[k]
         limit == IF k < Len(coord_cache) THEN coord_cache[k + 1].cc_offset
                  ELSE from.cc_offset + VIEW_COORD_CACHE_GRANUL
         w == Walked(lookup.what, lookup.coord, from, limit)
         adds == k = Len(coord_cache) /\ w.entry.cc_offset # from.cc_offset
         returns(at) == lookup' = [at |-> at, what |-> "none", coord |-> w.current]
     IN /\ coord_cache' = IF adds THEN Append(coord_cache, w.entry) ELSE coord_cache
        /\ \/ adds /\ UNCHANGED lookup
           \/ adds /\ returns("interrupted")
           \/ ~adds /\ returns("found")
  /\ UNCHANGED <<bytes, nroff, rewritten>>

(* The user changes the mode; the hex editor writes a byte                  *)
(* (mcview_hexedit_save_changes).  Neither looks at the cache, which lives  *)
(* as long as the file is viewed: an entry is stale when the byte is in     *)
(* front of it, or is one of the two from which the walk judged it.         *)
mcview_toggle_nroff_mode ==
  /\ lookup.at # "retry" /\ nroff' = ~nroff
  /\ UNCHANGED <<bytes, coord_cache, lookup, rewritten>>

Behind(e, o) == e.cc_offset > 0 /\ o < e.cc_offset + 2

mcview_set_byte ==
  /\ lookup.at # "retry"
  /\ \E o \in 0 .. Len(bytes) - 1, c \in HexBytes :
       /\ bytes' = [bytes EXCEPT ![o + 1] = c]
       /\ rewritten' = (rewritten \/ \E k \in 1 .. Len(coord_cache) : Behind(coord_cache[k], o))
  /\ UNCHANGED <<nroff, coord_cache, lookup>>

-----------------------------------------------------------------------------
CcInit ==
  /\ \E n \in 0 .. MaxFile : bytes \in [1 .. n -> FileBytes]
  /\ nroff \in BOOLEAN /\ coord_cache = << >> /\ rewritten = FALSE
  /\ lookup = [at |-> "found", what |-> "none", coord |-> First]

CcNext ==
  \/ \E o \in 0 .. MaxFile : mcview_ccache_lookup("CCACHE_LINECOL", Entry(o, 0, 0, 0))
  \/ \E l \in 0 .. 2, c \in Columns : mcview_ccache_lookup("CCACHE_OFFSET", Entry(0, l, c, c))
  \/ retry \/ mcview_toggle_nroff_mode \/ mcview_set_byte

CcSpec == CcInit /\ [][CcNext]_cc_vars

-----------------------------------------------------------------------------
(* The coordinates of every byte, by one walk from the beginning.           *)
Walk[o \in 0 .. Len(bytes)] ==
  IF o = 0 THEN [entry |-> First, state |-> "NROFF_START"]
  ELSE LET w == Walk[o - 1]
       IN [entry |-> NextEntry(w.entry, w.state), state |-> NextState(w.state, w.entry.cc_offset)]

(* A run of '\r' or of overstruck characters as long as a granule has no    *)
(* byte that could be saved: lookups do not get past it.                    *)
SavedEntry == {o \in 1 .. Len(bytes) : CanSave(bytes[o], Walk[o].state)} \cup {0}
Passable ==
  \A e \in SavedEntry : e + VIEW_COORD_CACHE_GRANUL < Len(bytes) =>
    \E o \in SavedEntry : e < o /\ o <= e + VIEW_COORD_CACHE_GRANUL

Expected(what, coord) ==
  IF what = "CCACHE_LINECOL" THEN Walk[Min({coord.cc_offset, Len(bytes)})].entry
  ELSE Walk[Min({Len(bytes)} \cup
                {o \in 0 .. Len(bytes) : /\ ~Before(what, Walk[o].entry, coord)
                                         /\ nroff => Walk[o].state = "NROFF_START"})].entry

(* Whatever was looked up before, forwards or backwards, in whichever mode, *)
(* and wherever an interrupt has left the cache: a lookup that is not       *)
(* interrupted finds what a walk from the beginning of the file finds.      *)
(* Not so once the hex editor has written over what the cache was made from *)
(* (rewritten): mcview_set_byte drops the data read but not the cache, and  *)
(* lookups go astray until the file is closed.                              *)
AnswersTrue ==
  [][(lookup.at = "retry" /\ lookup'.at = "found" /\ ~rewritten /\ Passable) =>
       lookup'.coord = Expected(lookup.what, lookup.coord)]_cc_vars
=============================================================================
