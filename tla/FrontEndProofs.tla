--------------------------- MODULE FrontEndProofs ---------------------------
(***************************************************************************)
(* Proofs about what the user does to the machine from the host, each part *)
(* for every value of its constants: the keyboard and the clipboard        *)
(* (KeysTrue), the mouse (MouseTrue), the cassette (TapeTrue) and the      *)
(* settings (DirtyTellsTruth).                                             *)
(*                                                                         *)
(* Keyboard: the matrix counts, at each position, the keys that are down   *)
(* and the hold of the queue (Matrix), through every event; while a paste  *)
(* is undisturbed, what the guest has seen is the strokes of its text up   *)
(* to the character that is held (InPaste).  Mouse: what the guest was not *)
(* told of a motion is what the mouse still holds, by the phase of the     *)
(* transfer.  Cassette: the player has run the cycles of the motor, in     *)
(* samples and a rest (InPlace), and its blocks are those of the file.     *)
(* Settings: while the host refuses nothing, a function of the overlay     *)
(* leaves the configuration as it was, or sets dirty (Told, Knows), whose  *)
(* parts leave it alone (Moves) or end as they should (Connects).          *)
(*                                                                         *)
(* The strokes of a text and the blocks of a file are recursive functions  *)
(* of its length; what they compute is proved with the least number that   *)
(* would be an exception (Least, UpTo).                                    *)
(***************************************************************************)
EXTENDS Settings, Keyboard, Mouse, Cassette, FiniteSetTheorems,
        WellFoundedInduction, TLAPS

\* Every set of numbers that is not empty has a least one.
LEMMA Least ==
    ASSUME NEW S \in SUBSET Nat, S # {}
    PROVE  \E n \in S : \A m \in S : n <= m
<1> DEFINE R == {ss \in Nat \X Nat : ss[1] < ss[2]}
<1>1. IsWellFoundedOn(R, Nat)
  BY NatLessThanWellFounded DEF OpToRel
<1>2. \E x \in S : \A y \in S : <<y, x>> \notin R
  BY <1>1, WFMin
<1>3. PICK x \in S : \A y \in S : <<y, x>> \notin R
  BY <1>2
<1>4. \A y \in S : ~(y < x)
  <2> TAKE y \in S
  <2>1. <<y, x>> \in Nat \X Nat /\ <<y, x>>[1] = y /\ <<y, x>>[2] = x
    OBVIOUS
  <2> QED BY <1>3, <2>1
<1> QED BY <1>4

\* What holds of the start and of each next number holds of all up to n.
LEMMA UpTo ==
    ASSUME NEW n \in Nat, NEW S, 0 \in S,
           \A k \in 0 .. (n - 1) : k \in S => k + 1 \in S
    PROVE  \A k \in 0 .. n : k \in S
<1> DEFINE Bad == {k \in 0 .. n : k \notin S}
<1> SUFFICES ASSUME Bad # {} PROVE FALSE
  OBVIOUS
<1>1. PICK k \in Bad : \A m \in Bad : k <= m
  <2>1. Bad \in SUBSET Nat
    OBVIOUS
  <2> HIDE DEF Bad
  <2> QED BY <2>1, Least
<1>2. k \in 1 .. n
  BY <1>1
<1>3. k - 1 \in S
  BY <1>1, <1>2
<1> QED BY <1>1, <1>2, <1>3

\* Division by a positive number: the quotient and the rest are the only ones.
LEMMA Division ==
    ASSUME NEW n \in Nat \ {0}, NEW q \in Int, NEW r \in 0..(n - 1)
    PROVE  /\ (q * n + r) \div n = q
           /\ (q * n + r) % n = r
<1> DEFINE a == q * n + r
           d == a \div n
           m == a % n
<1>1. a \in Int /\ d \in Int /\ m \in Int /\ a = d * n + m /\ 0 <= m /\ m < n
  OBVIOUS
<1>2. (d - q) * n = r - m
  BY ONLY <1>1, n \in Nat \ {0}, q \in Int, r \in 0..(n - 1) DEF a
<1> HIDE DEF a, d, m
<1> DEFINE k == d - q
<1>3. k \in Int /\ k * n = r - m
  BY <1>1, <1>2
<1>4. ~(k >= 1)
  <2>1. k >= 1 => k * n >= n
    BY ONLY <1>3, n \in Nat \ {0}
  <2> QED BY ONLY <1>1, <1>3, <2>1, n \in Nat \ {0}, r \in 0..(n - 1)
<1>5. ~(k <= -1)
  <2>1. k <= -1 => k * n <= -n
    BY ONLY <1>3, n \in Nat \ {0}
  <2> QED BY ONLY <1>1, <1>3, <2>1, n \in Nat \ {0}, r \in 0..(n - 1)
<1>6. k = 0
  BY ONLY <1>3, <1>4, <1>5
<1>7. d = q /\ m = r
  BY ONLY <1>1, <1>3, <1>6, n \in Nat \ {0}, q \in Int, r \in 0..(n - 1) DEF k
<1> QED BY <1>7 DEF a, d, m

---------------------------------------------------------------------------
(* The keyboard and the clipboard (Keyboard).                              *)

\* How many of the keys press a position.
Count(keys, p) ==
    CASE p = "SHIFT" -> (IF "lshift" \in keys THEN 1 ELSE 0)
                          + (IF "rshift" \in keys THEN 1 ELSE 0)
      [] p = "CTRL" -> IF "ctrl" \in keys THEN 1 ELSE 0
      [] p = "RETURN" -> IF "return" \in keys THEN 1 ELSE 0
      [] p = "V" -> IF "v" \in keys THEN 1 ELSE 0
      [] p = "SELECT" -> IF "f7" \in keys THEN 1 ELSE 0

\* The positions of the keys.
LEMMA PositionsKnown ==
    /\ DOMAIN regular_position = {"lshift", "rshift", "ctrl", "return", "v"}
    /\ DOMAIN guest_function_position = {"f7"}
    /\ regular_position["lshift"] = "SHIFT" /\ regular_position["rshift"] = "SHIFT"
    /\ regular_position["ctrl"] = "CTRL" /\ regular_position["return"] = "RETURN"
    /\ regular_position["v"] = "V" /\ guest_function_position["f7"] = "SELECT"
BY DEF regular_position, guest_function_position, Key, Shifts

\* The keys that press a position, counted.
LEMMA HeldIs ==
    ASSUME NEW keys \in SUBSET Key, NEW p \in Positions
    PROVE  Held(keys, p) = Count(keys, p)
<1> DEFINE S == {k \in keys : \/ k \in DOMAIN regular_position /\ regular_position[k] = p
                              \/ k \in DOMAIN guest_function_position
                                   /\ guest_function_position[k] = p}
<1>1. Held(keys, p) = Cardinality(S)
  BY Zenon DEF Held
<1>2. /\ p = "SHIFT" => S = keys \cap {"lshift", "rshift"}
      /\ p = "CTRL" => S = keys \cap {"ctrl"}
      /\ p = "RETURN" => S = keys \cap {"return"}
      /\ p = "V" => S = keys \cap {"v"}
      /\ p = "SELECT" => S = keys \cap {"f7"}
  BY PositionsKnown DEF Key
<1> HIDE DEF S
<1>3. \A k : Cardinality(keys \cap {k}) = IF k \in keys THEN 1 ELSE 0
  <2> TAKE k
  <2>1. CASE k \in keys
    <3>1. keys \cap {k} = {k}
      BY <2>1
    <3> QED BY <2>1, <3>1, FS_Singleton
  <2>2. CASE k \notin keys
    <3>1. keys \cap {k} = {}
      BY <2>2
    <3> QED BY <2>2, <3>1, FS_EmptySet
  <2> QED BY <2>1, <2>2
<1>4. Cardinality(keys \cap {"lshift", "rshift"})
        = (IF "lshift" \in keys THEN 1 ELSE 0) + (IF "rshift" \in keys THEN 1 ELSE 0)
  <2>1. CASE "rshift" \in keys
    <3>1. keys \cap {"lshift", "rshift"} = (keys \cap {"lshift"}) \cup {"rshift"}
      BY <2>1
    <3>2. IsFiniteSet(keys \cap {"lshift"}) /\ "rshift" \notin keys \cap {"lshift"}
      <4>1. IsFiniteSet({"lshift"}) /\ keys \cap {"lshift"} \subseteq {"lshift"}
        BY FS_Singleton
      <4> QED BY <4>1, FS_Subset
    <3>3. Cardinality((keys \cap {"lshift"}) \cup {"rshift"})
            = Cardinality(keys \cap {"lshift"}) + 1
      BY <3>2, FS_AddElement
    <3> QED BY <1>3, <2>1, <3>1, <3>3
  <2>2. CASE "rshift" \notin keys
    <3>1. keys \cap {"lshift", "rshift"} = keys \cap {"lshift"}
      BY <2>2
    <3> QED BY <1>3, <2>2, <3>1
  <2> QED BY <2>1, <2>2
<1> QED BY <1>1, <1>2, <1>3, <1>4 DEF Count, Positions

\* What the queue may hold.
HeldKeys == {NotHeld} \cup {keymap[c] : c \in DOMAIN keymap}

\* The characters that can be typed.
LEMMA KeymapKnown ==
    /\ DOMAIN keymap = {"n", "v", "V"}
    /\ keymap["n"] = [position |-> "RETURN", shift |-> FALSE]
    /\ keymap["v"] = [position |-> "V", shift |-> FALSE]
    /\ keymap["V"] = [position |-> "V", shift |-> TRUE]
BY DEF keymap

\* What the queue holds is nothing, or Return or V, with or without Shift.
LEMMA HeldKnown ==
    ASSUME NEW h \in HeldKeys
    PROVE  \/ h = NotHeld /\ h.position = "none" /\ ~h.shift
           \/ /\ h # NotHeld /\ h.position \in {"RETURN", "V"}
              /\ h.shift \in BOOLEAN
<1>1. NotHeld = [position |-> "none", shift |-> FALSE]
  BY DEF NotHeld
<1>2. CASE h = NotHeld
  BY <1>1, <1>2
<1>3. CASE h = keymap["n"]
  BY <1>1, <1>3, KeymapKnown
<1>4. CASE h = keymap["v"]
  BY <1>1, <1>4, KeymapKnown
<1>5. CASE h = keymap["V"]
  BY <1>1, <1>5, KeymapKnown
<1> QED BY <1>2, <1>3, <1>4, <1>5, KeymapKnown DEF HeldKeys

\* The input of the keyboard, of any text.
Input ==
    [down : SUBSET Key, guest_special : SUBSET {"f7"}, guest_special_count : Nat,
     rows : SUBSET Positions, refs : [Positions -> Nat],
     text : Texts \cup {<<>>}, offset : Nat, timer : Nat, held : HeldKeys]

\* All but the matrix.
SameKeys(s, t) ==
    /\ t.down = s.down /\ t.guest_special = s.guest_special
    /\ t.guest_special_count = s.guest_special_count /\ t.text = s.text
    /\ t.offset = s.offset /\ t.timer = s.timer /\ t.held = s.held

\* One more press of a position, below the 255 that a count holds.
LEMMA Pressed ==
    ASSUME NEW s \in Input, NEW p \in Positions, s.refs[p] # 255
    PROVE  /\ msx_keyboard_press(s, p) \in Input
           /\ SameKeys(s, msx_keyboard_press(s, p))
           /\ msx_keyboard_press(s, p).rows = s.rows \cup {p}
           /\ msx_keyboard_press(s, p).refs[p] = s.refs[p] + 1
           /\ \A q \in Positions \ {p} : msx_keyboard_press(s, p).refs[q] = s.refs[q]
<1> DEFINE refs == [s.refs EXCEPT ![p] = s.refs[p] + 1]
           rows == s.rows \cup {p}
           t == [s EXCEPT !.refs = refs, !.rows = rows]
<1>1. s.refs \in [Positions -> Nat] /\ s.rows \in SUBSET Positions
  BY DEF Input
<1>2. msx_keyboard_press(s, p) = t
  BY <1>1 DEF msx_keyboard_press, Input
<1>3. /\ refs \in [Positions -> Nat] /\ rows \in SUBSET Positions
      /\ refs[p] = s.refs[p] + 1 /\ \A q \in Positions \ {p} : refs[q] = s.refs[q]
  BY <1>1
<1> HIDE DEF refs, rows
<1>4. /\ t \in Input /\ SameKeys(s, t) /\ t.refs = refs /\ t.rows = rows
  BY <1>3 DEF Input, SameKeys
<1> HIDE DEF t
<1> QED BY <1>2, <1>3, <1>4 DEF rows

\* One press less, if there is any.
LEMMA Released ==
    ASSUME NEW s \in Input, NEW p \in Positions
    PROVE  /\ msx_keyboard_release(s, p) \in Input
           /\ SameKeys(s, msx_keyboard_release(s, p))
           /\ msx_keyboard_release(s, p).refs[p] = (IF s.refs[p] > 0 THEN s.refs[p] - 1 ELSE 0)
           /\ msx_keyboard_release(s, p).rows
                = IF s.refs[p] > 1 THEN s.rows ELSE s.rows \ {p}
           /\ \A q \in Positions \ {p} : msx_keyboard_release(s, p).refs[q] = s.refs[q]
<1> DEFINE n == IF s.refs[p] > 0 THEN s.refs[p] - 1 ELSE 0
           refs == [s.refs EXCEPT ![p] = n]
           rows == IF n = 0 THEN s.rows \ {p} ELSE s.rows
           t == [s EXCEPT !.refs = refs, !.rows = rows]
<1>1. s.refs \in [Positions -> Nat] /\ s.rows \in SUBSET Positions /\ s.refs[p] \in Nat
  BY DEF Input
<1>2. msx_keyboard_release(s, p) = t
  BY <1>1 DEF msx_keyboard_release, Input
<1>3. n \in Nat /\ (n = 0 <=> ~(s.refs[p] > 1))
  BY <1>1
<1> HIDE DEF n
<1>4. /\ refs \in [Positions -> Nat] /\ rows \in SUBSET Positions
      /\ refs[p] = n /\ \A q \in Positions \ {p} : refs[q] = s.refs[q]
  BY <1>1, <1>3
<1> HIDE DEF refs, rows
<1>5. t \in Input /\ SameKeys(s, t) /\ t.refs = refs /\ t.rows = rows
  BY <1>4 DEF Input, SameKeys
<1> HIDE DEF t
<1> QED BY <1>2, <1>3, <1>4, <1>5 DEF rows, n

\* What presses a position: the keys of the host, unless a function key hides
\* a Shift, and the queue.
ByKeys(s, p) ==
    IF p = "SHIFT" /\ s.guest_special_count > 0 THEN 0 ELSE Count(s.down, p)
Pressing(s, p) == ByKeys(s, p) + (IF p \in PasteHolds(s) THEN 1 ELSE 0)
Needs(s) == [p \in Positions |-> Pressing(s, p)]

\* The references fit what is needed at each position, but for those that were
\* cut, where some may be missing.
Fits(s, c, need) ==
    /\ s \in Input
    /\ \A p \in Positions : /\ need[p] \in 0 .. 100
                            /\ p \in s.rows <=> s.refs[p] > 0
                            /\ s.refs[p] <= need[p]
                            /\ p \notin c => s.refs[p] = need[p]

\* The matrix fits the keys and the queue.
Matrix(s, c) ==
    /\ Fits(s, c, Needs(s)) /\ c \subseteq {"SHIFT", "RETURN", "V"}
    /\ s.guest_special = s.down \cap {"f7"}
    /\ s.guest_special_count = IF "f7" \in s.down THEN 1 ELSE 0

\* One more press of a position fits one more need.
LEMMA PressFits ==
    ASSUME NEW s, NEW c, NEW need, Fits(s, c, need), NEW p \in Positions, need[p] < 100,
           NEW more, more[p] = need[p] + 1, \A q \in Positions \ {p} : more[q] = need[q]
    PROVE  /\ Fits(msx_keyboard_press(s, p), c, more)
           /\ SameKeys(s, msx_keyboard_press(s, p))
<1> DEFINE t == msx_keyboard_press(s, p)
<1>1. s \in Input /\ \A q \in Positions : s.refs[q] \in Nat
  BY DEF Fits, Input
<1>2. s.refs[p] # 255
  BY <1>1 DEF Fits
<1>3. /\ t \in Input /\ SameKeys(s, t) /\ t.rows = s.rows \cup {p}
      /\ t.refs[p] = s.refs[p] + 1 /\ \A q \in Positions \ {p} : t.refs[q] = s.refs[q]
  BY <1>1, <1>2, Pressed
<1> HIDE DEF t
<1>4. ASSUME NEW q \in Positions
      PROVE  /\ more[q] \in 0 .. 100
             /\ q \in t.rows <=> t.refs[q] > 0
             /\ t.refs[q] <= more[q]
             /\ q \notin c => t.refs[q] = more[q]
  <2>1. CASE q = p
    BY <1>1, <1>3, <2>1 DEF Fits
  <2>2. CASE q # p
    BY <1>1, <1>3, <2>2 DEF Fits
  <2> QED BY <2>1, <2>2
<1> QED BY <1>3, <1>4 DEF Fits, t

\* The other way round.
LEMMA ReleaseFits ==
    ASSUME NEW s, NEW c, NEW need, Fits(s, c, need), NEW p \in Positions, need[p] > 0,
           NEW less, less[p] = need[p] - 1, \A q \in Positions \ {p} : less[q] = need[q]
    PROVE  /\ Fits(msx_keyboard_release(s, p), c, less)
           /\ SameKeys(s, msx_keyboard_release(s, p))
<1> DEFINE t == msx_keyboard_release(s, p)
<1>1. s \in Input /\ \A q \in Positions : s.refs[q] \in Nat
  BY DEF Fits, Input
<1>2. /\ t \in Input /\ SameKeys(s, t)
      /\ t.refs[p] = (IF s.refs[p] > 0 THEN s.refs[p] - 1 ELSE 0)
      /\ t.rows = (IF s.refs[p] > 1 THEN s.rows ELSE s.rows \ {p})
      /\ \A q \in Positions \ {p} : t.refs[q] = s.refs[q]
  BY <1>1, Released
<1> HIDE DEF t
<1>3. ASSUME NEW q \in Positions
      PROVE  /\ less[q] \in 0 .. 100
             /\ q \in t.rows <=> t.refs[q] > 0
             /\ t.refs[q] <= less[q]
             /\ q \notin c => t.refs[q] = less[q]
  <2>1. CASE q = p
    BY <1>1, <1>2, <2>1 DEF Fits
  <2>2. CASE q # p
    BY <1>1, <1>2, <2>2 DEF Fits
  <2> QED BY <2>1, <2>2
<1> QED BY <1>2, <1>3 DEF Fits, t

\* At most two keys share a position.
LEMMA CountsSmall ==
    ASSUME NEW keys, NEW p \in Positions
    PROVE  Count(keys, p) \in 0 .. 2
BY DEF Count, Positions

\* What is needed depends on the keys and on what the queue holds.
LEMMA NeedsAre ==
    ASSUME NEW s \in Input, NEW p \in Positions
    PROVE  /\ ByKeys(s, p) \in 0 .. 2
           /\ s.held = NotHeld => Needs(s)[p] = ByKeys(s, p)
           /\ s.held # NotHeld =>
                Needs(s)[p] = ByKeys(s, p)
                    + (IF p = s.held.position \/ (s.held.shift /\ p = "SHIFT") THEN 1 ELSE 0)
<1>1. s.held \in HeldKeys
  BY DEF Input
<1>2. ByKeys(s, p) \in 0 .. 2
  <2>1. Count(s.down, p) \in 0 .. 2
    BY CountsSmall
  <2> QED BY <2>1 DEF ByKeys
<1>3. Needs(s)[p] = ByKeys(s, p) + (IF p \in PasteHolds(s) THEN 1 ELSE 0)
  BY DEF Needs, Pressing
<1>4. CASE s.held = NotHeld
  <2>1. p \notin PasteHolds(s)
    BY <1>4 DEF PasteHolds, NotHeld
  <2> QED BY <1>2, <1>3, <1>4, <2>1
<1>5. CASE s.held # NotHeld
  <2>1. p \in PasteHolds(s) <=> p = s.held.position \/ (s.held.shift /\ p = "SHIFT")
    BY <1>5 DEF PasteHolds
  <2> QED BY <1>2, <1>3, <1>5, <2>1
<1> QED BY <1>2, <1>4, <1>5

\* What is left alone keeps its needs.
LEMMA NeedsKept ==
    ASSUME NEW s \in Input, NEW t \in Input, t.down = s.down, t.held = s.held,
           t.guest_special_count = s.guest_special_count
    PROVE  \A p \in Positions : Needs(t)[p] = Needs(s)[p]
BY DEF Needs, Pressing, ByKeys, PasteHolds

\* The queue lets go of what it holds (release_held).
LEMMA HeldReleased ==
    ASSUME NEW s, NEW c, Matrix(s, c)
    PROVE  /\ Matrix(release_held(s), c)
           /\ release_held(s).held = NotHeld /\ release_held(s).down = s.down
           /\ release_held(s).text = s.text /\ release_held(s).offset = s.offset
           /\ release_held(s).timer = s.timer
<1>1. s \in Input /\ s.held \in HeldKeys /\ Fits(s, c, Needs(s))
  BY DEF Matrix, Fits, Input
<1> DEFINE h == s.held
           key == msx_keyboard_release(s, h.position)
           both == IF h.shift THEN msx_keyboard_release(key, "SHIFT") ELSE key
           t == [both EXCEPT !.held = NotHeld]
           base == [p \in Positions |-> ByKeys(s, p)]
           one == [p \in Positions |->
                      IF h.shift /\ p = "SHIFT" THEN base[p] + 1 ELSE base[p]]
<1>2. release_held(s) = IF h = NotHeld THEN s ELSE t
  BY Zenon DEF release_held
<1>3. CASE h = NotHeld
  BY <1>2, <1>3
<1>4. CASE h # NotHeld
  <2>1. /\ h.position \in {"RETURN", "V"} /\ h.shift \in BOOLEAN
        /\ h.position \in Positions /\ "SHIFT" \in Positions /\ h.position # "SHIFT"
    BY <1>1, <1>4, HeldKnown DEF Positions
  <2>2. \A p \in Positions : base[p] \in 0 .. 2
    BY <1>1, NeedsAre
  <2>3. \A p \in Positions : one[p] = IF h.shift /\ p = "SHIFT" THEN base[p] + 1 ELSE base[p]
    BY DEF one
  <2>4. \A p \in Positions : Needs(s)[p] = base[p] +
            (IF p = h.position \/ (h.shift /\ p = "SHIFT") THEN 1 ELSE 0)
    BY <1>1, <1>4, NeedsAre
  <2> DEFINE need == Needs(s)
             at == h.position
             shift == h.shift
  <2> HIDE DEF base, one, need, at, shift
  <2>12. /\ need[at] > 0 /\ one[at] = need[at] - 1
         /\ \A q \in Positions \ {at} : one[q] = need[q]
    <3>1. at \in Positions /\ at # "SHIFT" /\ "SHIFT" \in Positions /\ shift \in BOOLEAN
      BY <2>1 DEF at, shift
    <3>2. \A p \in Positions :
             /\ one[p] = IF shift /\ p = "SHIFT" THEN base[p] + 1 ELSE base[p]
             /\ need[p] = base[p] + (IF p = at \/ (shift /\ p = "SHIFT") THEN 1 ELSE 0)
      BY <2>3, <2>4 DEF need, at, shift
    <3> QED BY ONLY <2>2, <3>1, <3>2
  <2>5. /\ Needs(s)[h.position] > 0 /\ one[h.position] = Needs(s)[h.position] - 1
        /\ \A q \in Positions \ {h.position} : one[q] = Needs(s)[q]
    BY <2>12 DEF need, at
  <2>6. Fits(key, c, one) /\ SameKeys(s, key)
    BY <1>1, <2>1, <2>5, ReleaseFits
  <2> HIDE DEF key
  <2>7. Fits(both, c, base) /\ SameKeys(s, both)
    <3>1. CASE h.shift
      <4>1. /\ one["SHIFT"] > 0 /\ base["SHIFT"] = one["SHIFT"] - 1
            /\ \A q \in Positions \ {"SHIFT"} : base[q] = one[q]
        BY <2>1, <2>2, <2>3, <3>1
      <4>2. /\ Fits(msx_keyboard_release(key, "SHIFT"), c, base)
            /\ SameKeys(key, msx_keyboard_release(key, "SHIFT"))
        BY <2>1, <2>6, <4>1, ReleaseFits
      <4> QED BY <2>6, <3>1, <4>2 DEF SameKeys
    <3>2. CASE ~h.shift
      <4>1. \A q \in Positions : base[q] = one[q]
        BY <2>3, <3>2
      <4> QED BY <2>6, <3>2, <4>1 DEF Fits
    <3> QED BY <3>1, <3>2
  <2> HIDE DEF both, h
  <2>8. /\ t \in Input /\ t.held = NotHeld /\ t.down = s.down
        /\ t.guest_special = s.guest_special
        /\ t.guest_special_count = s.guest_special_count
        /\ t.text = s.text /\ t.offset = s.offset /\ t.timer = s.timer
        /\ t.rows = both.rows /\ t.refs = both.refs
    BY <2>7 DEF Fits, SameKeys, Input, HeldKeys
  <2> HIDE DEF t
  <2>9. \A p \in Positions : Needs(t)[p] = base[p]
    <3>1. \A p \in Positions : base[p] = ByKeys(s, p)
      BY DEF base
    <3>2. \A p \in Positions : ByKeys(t, p) = ByKeys(s, p)
      BY <2>8 DEF ByKeys
    <3> QED BY <2>8, <3>1, <3>2, NeedsAre
  <2>10. Matrix(t, c)
    BY <2>7, <2>8, <2>9 DEF Matrix, Fits
  <2> QED BY <1>2, <1>4, <2>8, <2>10 DEF h
<1> QED BY <1>3, <1>4

\* The text of the queue alone changes.
WithText(s, text, offset, timer) ==
    [s EXCEPT !.text = text, !.offset = offset, !.timer = timer]

\* The text of the queue has no part in the matrix.
LEMMA TextCleared ==
    ASSUME NEW s, NEW c, Matrix(s, c), NEW text \in Texts \cup {<<>>}, NEW timer \in Nat,
           NEW offset \in Nat
    PROVE  /\ Matrix(WithText(s, text, offset, timer), c)
           /\ WithText(s, text, offset, timer).down = s.down
           /\ WithText(s, text, offset, timer).held = s.held
           /\ WithText(s, text, offset, timer).rows = s.rows
           /\ WithText(s, text, offset, timer).text = text
           /\ WithText(s, text, offset, timer).offset = offset
           /\ WithText(s, text, offset, timer).timer = timer
<1> DEFINE u == WithText(s, text, offset, timer)
<1>1. s \in Input
  BY DEF Matrix, Fits
<1>2. /\ u \in Input /\ u.down = s.down /\ u.held = s.held
      /\ u.rows = s.rows /\ u.refs = s.refs
      /\ u.guest_special = s.guest_special
      /\ u.guest_special_count = s.guest_special_count
      /\ u.text = text /\ u.offset = offset /\ u.timer = timer
  BY <1>1 DEF Input, WithText
<1> HIDE DEF u
<1>3. \A p \in Positions : Needs(u)[p] = Needs(s)[p]
  BY <1>1, <1>2, NeedsKept
<1>4. Fits(u, c, Needs(u))
  BY <1>2, <1>3 DEF Matrix, Fits
<1> QED BY <1>2, <1>4 DEF Matrix, u

\* A paste that is given up lets go (paste_cancel).
LEMMA Cancelled ==
    ASSUME NEW s, NEW c, Matrix(s, c)
    PROVE  /\ Matrix(paste_cancel(s), c) /\ paste_cancel(s).held = NotHeld
           /\ paste_cancel(s).down = s.down /\ paste_cancel(s).text = <<>>
           /\ paste_cancel(s).offset = 0 /\ paste_cancel(s).timer = 0
<1> DEFINE r == release_held(s)
           t == WithText(r, <<>>, 0, 0)
<1>1. paste_cancel(s) = t
  BY Zenon DEF paste_cancel, clear_text, WithText
<1>2. Matrix(r, c) /\ r.held = NotHeld /\ r.down = s.down
  BY HeldReleased
<1> HIDE DEF r
<1>3. /\ Matrix(t, c) /\ t.down = r.down /\ t.held = r.held
      /\ t.text = <<>> /\ t.offset = 0 /\ t.timer = 0
  BY <1>2, TextCleared
<1> HIDE DEF t
<1> QED BY <1>1, <1>2, <1>3

\* The host's keys are gone; the queue's hold is cut.
LEMMA AllReleased ==
    ASSUME NEW s, NEW c, Matrix(s, c)
    PROVE  /\ Matrix(kbd_release_all(s), c \cup PasteHolds(s))
           /\ kbd_release_all(s).down = {} /\ kbd_release_all(s).held = s.held
           /\ kbd_release_all(s).text = s.text /\ kbd_release_all(s).offset = s.offset
           /\ kbd_release_all(s).timer = s.timer
<1> DEFINE none == [p \in Positions |-> 0]
           u == [s EXCEPT !.down = {}, !.guest_special = {}, !.guest_special_count = 0]
           t == [u EXCEPT !.rows = {}, !.refs = none]
<1>1. kbd_release_all(s) = t
  BY Zenon DEF kbd_release_all, msx_keyboard_clear
<1>2. s \in Input /\ s.held \in HeldKeys
  BY DEF Matrix, Fits, Input
<1>3. none \in [Positions -> Nat] /\ \A p \in Positions : none[p] = 0
  OBVIOUS
<1> HIDE DEF none
<1>4. /\ t \in Input /\ t.down = {} /\ t.guest_special = {} /\ t.guest_special_count = 0
      /\ t.rows = {} /\ t.refs = none /\ t.held = s.held /\ t.text = s.text
      /\ t.offset = s.offset /\ t.timer = s.timer
  <2>1. /\ u \in Input /\ u.down = {} /\ u.guest_special = {} /\ u.guest_special_count = 0
        /\ u.held = s.held /\ u.text = s.text /\ u.offset = s.offset /\ u.timer = s.timer
    BY <1>2 DEF Input
  <2> HIDE DEF u
  <2> QED BY <1>3, <2>1 DEF Input
<1> HIDE DEF t
<1>5. \A p \in Positions : Count({}, p) = 0
  BY DEF Count, Positions
<1>6. PasteHolds(t) = PasteHolds(s)
  BY <1>4 DEF PasteHolds
<1>7. \A p \in Positions : Needs(t)[p] = IF p \in PasteHolds(s) THEN 1 ELSE 0
  <2> TAKE p \in Positions
  <2>1. ByKeys(t, p) = 0
    BY <1>4, <1>5 DEF ByKeys
  <2>2. Needs(t)[p] = ByKeys(t, p) + (IF p \in PasteHolds(s) THEN 1 ELSE 0)
    BY <1>6 DEF Needs, Pressing
  <2> QED BY <2>1, <2>2
<1>8. Fits(t, c \cup PasteHolds(s), Needs(t))
  BY <1>3, <1>4, <1>7 DEF Fits
<1>9. PasteHolds(s) \subseteq {"SHIFT", "RETURN", "V"}
  BY <1>2, HeldKnown DEF PasteHolds
<1> QED BY <1>1, <1>4, <1>8, <1>9 DEF Matrix

\* Where nothing is held, nothing was cut.
LEMMA NothingCut ==
    ASSUME NEW s, NEW c, Matrix(s, c), s.down = {}, s.held = NotHeld
    PROVE  Matrix(s, {})
<1>1. \A p \in Positions : Count({}, p) = 0
  BY DEF Count, Positions
<1>2. s \in Input /\ ~NotHeld.shift /\ \A p \in Positions : s.refs[p] \in Nat
  BY DEF Matrix, Fits, Input, NotHeld
<1>3. \A p \in Positions : Needs(s)[p] = 0
  <2> TAKE p \in Positions
  <2>1. ByKeys(s, p) = 0
    BY <1>1 DEF ByKeys
  <2>2. Needs(s)[p] = ByKeys(s, p)
    BY <1>2, NeedsAre
  <2> QED BY <2>1, <2>2
<1>4. Fits(s, {}, Needs(s))
  BY <1>2, <1>3 DEF Matrix, Fits
<1> QED BY <1>4 DEF Matrix

\* Ctrl+V: the matrix is empty and the text waits (paste_start).
LEMMA PasteStarted ==
    ASSUME NEW s, NEW c, Matrix(s, c), NEW text \in Texts
    PROVE  LET t == paste_start(kbd_release_all(s), text)
           IN  /\ Matrix(t, {}) /\ t.down = {} /\ t.held = NotHeld
               /\ t.text = text /\ t.offset = 0 /\ t.timer = INITIAL_DELAY_FRAMES
<1> DEFINE r == kbd_release_all(s)
           p == paste_cancel(r)
           t == [p EXCEPT !.text = text, !.timer = INITIAL_DELAY_FRAMES]
           u == WithText(p, text, p.offset, INITIAL_DELAY_FRAMES)
<1>1. paste_start(r, text) = t
  BY Zenon DEF paste_start
<1>2. Matrix(r, c \cup PasteHolds(s)) /\ r.down = {}
  BY AllReleased
<1> HIDE DEF r
<1>3. /\ Matrix(p, c \cup PasteHolds(s)) /\ p.down = {} /\ p.held = NotHeld
      /\ p.offset = 0
  BY <1>2, Cancelled
<1> HIDE DEF p
<1>4. Matrix(p, {}) /\ p \in Input /\ p.offset \in Nat
  <2>1. Matrix(p, {})
    BY <1>3, NothingCut
  <2> QED BY <2>1 DEF Matrix, Fits, Input
<1>5. INITIAL_DELAY_FRAMES \in Nat
  BY DEF INITIAL_DELAY_FRAMES
<1>6. t = u
  BY <1>4 DEF Input, WithText
<1>7. /\ Matrix(u, {}) /\ u.down = p.down /\ u.held = p.held
      /\ u.text = text /\ u.offset = p.offset /\ u.timer = INITIAL_DELAY_FRAMES
  BY <1>3, <1>4, <1>5, TextCleared
<1> HIDE DEF t, u
<1> QED BY <1>1, <1>3, <1>6, <1>7 DEF r

\* The keys alone change.
WithKeys(s, down, special, count) ==
    [s EXCEPT !.down = down, !.guest_special = special, !.guest_special_count = count]
SamePaste(s, t) ==
    t.text = s.text /\ t.offset = s.offset /\ t.timer = s.timer /\ t.held = s.held

\* The keys that are down are not yet in the matrix.
LEMMA KeysAre ==
    ASSUME NEW s \in Input, NEW down \in SUBSET Key, NEW special \in SUBSET {"f7"},
           NEW count \in Nat, NEW c, NEW need, Fits(s, c, need)
    PROVE  /\ WithKeys(s, down, special, count) \in Input
           /\ Fits(WithKeys(s, down, special, count), c, need)
           /\ SamePaste(s, WithKeys(s, down, special, count))
           /\ WithKeys(s, down, special, count).down = down
           /\ WithKeys(s, down, special, count).guest_special = special
           /\ WithKeys(s, down, special, count).guest_special_count = count
<1> DEFINE t == WithKeys(s, down, special, count)
<1>1. /\ t \in Input /\ SamePaste(s, t) /\ t.down = down /\ t.guest_special = special
      /\ t.guest_special_count = count /\ t.rows = s.rows /\ t.refs = s.refs
  BY DEF Input, WithKeys, SamePaste
<1> HIDE DEF t
<1>2. Fits(t, c, need)
  BY <1>1 DEF Fits
<1> QED BY <1>1, <1>2 DEF t

\* What a fitting matrix says of the keys.
LEMMA MatrixTyped ==
    ASSUME NEW s, NEW c, Matrix(s, c)
    PROVE  /\ s \in Input /\ s.down \in SUBSET Key /\ s.guest_special \in SUBSET {"f7"}
           /\ s.guest_special_count \in Nat
           /\ s.guest_special = s.down \cap {"f7"}
           /\ s.guest_special_count = (IF "f7" \in s.down THEN 1 ELSE 0)
           /\ Fits(s, c, Needs(s))
BY DEF Matrix, Fits, Input

\* A regular key goes down or up.
LEMMA RegularDown ==
    ASSUME NEW s, NEW c, Matrix(s, c), NEW k \in DOMAIN regular_position, k \notin s.down,
           NEW t,
           t = LET now == WithKeys(s, s.down \cup {k}, s.guest_special,
                                   s.guest_special_count)
               IN  IF k \in Shifts /\ s.guest_special_count > 0 THEN now
                   ELSE msx_keyboard_press(now, regular_position[k])
    PROVE  Matrix(t, c) /\ SamePaste(s, t) /\ t.down = s.down \cup {k}
<1> DEFINE down == s.down \cup {k}
           now == WithKeys(s, down, s.guest_special, s.guest_special_count)
           p == regular_position[k]
<1>1. /\ k \in {"lshift", "rshift", "ctrl", "return", "v"} /\ k \in Key /\ k # "f7"
      /\ p \in Positions /\ (k \in Shifts <=> p = "SHIFT") /\ p # "SELECT"
      /\ p = "SHIFT" => k \in {"lshift", "rshift"}
      /\ p = "CTRL" => k = "ctrl"
      /\ p = "RETURN" => k = "return"
      /\ p = "V" => k = "v"
  BY PositionsKnown DEF Key, Positions, Shifts
<1>2. /\ s \in Input /\ Fits(s, c, Needs(s)) /\ down \in SUBSET Key
      /\ s.guest_special \in SUBSET {"f7"} /\ s.guest_special_count \in Nat
  BY <1>1, MatrixTyped
<1>3. /\ now \in Input /\ Fits(now, c, Needs(s)) /\ SamePaste(s, now)
      /\ now.down = down /\ now.guest_special = s.guest_special
      /\ now.guest_special_count = s.guest_special_count
  <2> DEFINE special == s.guest_special
             n == s.guest_special_count
             need == Needs(s)
  <2>1. special \in SUBSET {"f7"} /\ n \in Nat /\ Fits(s, c, need)
    BY <1>2
  <2>2. now = WithKeys(s, down, special, n)
    BY Zenon
  <2> HIDE DEF now, down, special, n, need
  <2>3. /\ WithKeys(s, down, special, n) \in Input
        /\ Fits(WithKeys(s, down, special, n), c, need)
        /\ SamePaste(s, WithKeys(s, down, special, n))
        /\ WithKeys(s, down, special, n).down = down
        /\ WithKeys(s, down, special, n).guest_special = special
        /\ WithKeys(s, down, special, n).guest_special_count = n
    BY <1>2, <2>1, KeysAre
  <2> QED BY <2>2, <2>3 DEF special, n, need
<1>4. /\ Count(down, p) = Count(s.down, p) + 1
      /\ \A q \in Positions \ {p} : Count(down, q) = Count(s.down, q)
  BY <1>1 DEF Count, Positions
<1>5. t = IF k \in Shifts /\ s.guest_special_count > 0 THEN now
          ELSE msx_keyboard_press(now, p)
  OBVIOUS
<1> HIDE DEF now, p
<1>6. /\ c \subseteq {"SHIFT", "RETURN", "V"} /\ s.guest_special = down \cap {"f7"}
      /\ s.guest_special_count = IF "f7" \in down THEN 1 ELSE 0
  BY <1>1 DEF Matrix
<1> HIDE DEF down
<1>7. PasteHolds(now) = PasteHolds(s)
  BY <1>3 DEF SamePaste, PasteHolds
<1>8. CASE k \in Shifts /\ s.guest_special_count > 0
  <2>1. \A q \in Positions : Needs(now)[q] = Needs(s)[q]
    BY <1>1, <1>3, <1>4, <1>7, <1>8 DEF Needs, Pressing, ByKeys
  <2>2. Fits(now, c, Needs(now))
    BY <1>3, <2>1 DEF Fits
  <2> QED BY <1>3, <1>5, <1>6, <1>8, <2>2 DEF Matrix, down
<1>9. CASE ~(k \in Shifts /\ s.guest_special_count > 0)
  <2> DEFINE u == msx_keyboard_press(now, p)
  <2>1. ByKeys(now, p) = ByKeys(s, p) + 1 /\ \A q \in Positions \ {p} : ByKeys(now, q) = ByKeys(s, q)
    BY <1>1, <1>3, <1>4, <1>9 DEF ByKeys
  <2>2. \A q \in Positions : ByKeys(s, q) \in 0 .. 2
    BY <1>2, NeedsAre
  <2>3. /\ Needs(s)[p] < 100 /\ Needs(now)[p] = Needs(s)[p] + 1
        /\ \A q \in Positions \ {p} : Needs(now)[q] = Needs(s)[q]
    BY <1>1, <1>7, <2>1, <2>2 DEF Needs, Pressing
  <2>4. Fits(u, c, Needs(now)) /\ SameKeys(now, u)
    BY <1>1, <1>3, <2>3, PressFits
  <2>5. t = u
    BY <1>5, <1>9
  <2> HIDE DEF u
  <2>6. u \in Input /\ u.down = now.down /\ u.held = now.held
        /\ u.guest_special_count = now.guest_special_count
    BY <2>4 DEF Fits, SameKeys
  <2>7. \A q \in Positions : Needs(u)[q] = Needs(now)[q]
    BY <1>3, <2>6, NeedsKept
  <2>8. Fits(u, c, Needs(u))
    BY <2>4, <2>7 DEF Fits
  <2> QED BY <1>3, <1>6, <2>4, <2>5, <2>8 DEF Matrix, SameKeys, SamePaste, down
<1> QED BY <1>8, <1>9

\* The other way round.
LEMMA RegularUp ==
    ASSUME NEW s, NEW c, Matrix(s, c), NEW k \in DOMAIN regular_position, k \in s.down,
           NEW t,
           t = LET now == WithKeys(s, s.down \ {k}, s.guest_special,
                                   s.guest_special_count)
               IN  IF k \in Shifts /\ s.guest_special_count > 0 THEN now
                   ELSE msx_keyboard_release(now, regular_position[k])
    PROVE  Matrix(t, c) /\ SamePaste(s, t) /\ t.down = s.down \ {k}
<1> DEFINE down == s.down \ {k}
           now == WithKeys(s, down, s.guest_special, s.guest_special_count)
           p == regular_position[k]
<1>1. /\ k \in {"lshift", "rshift", "ctrl", "return", "v"} /\ k \in Key /\ k # "f7"
      /\ p \in Positions /\ (k \in Shifts <=> p = "SHIFT") /\ p # "SELECT"
      /\ p = "SHIFT" => k \in {"lshift", "rshift"}
      /\ p = "CTRL" => k = "ctrl"
      /\ p = "RETURN" => k = "return"
      /\ p = "V" => k = "v"
  BY PositionsKnown DEF Key, Positions, Shifts
<1>2. /\ s \in Input /\ Fits(s, c, Needs(s)) /\ down \in SUBSET Key
      /\ s.guest_special \in SUBSET {"f7"} /\ s.guest_special_count \in Nat
  BY <1>1, MatrixTyped
<1>3. /\ now \in Input /\ Fits(now, c, Needs(s)) /\ SamePaste(s, now)
      /\ now.down = down /\ now.guest_special = s.guest_special
      /\ now.guest_special_count = s.guest_special_count
  <2> DEFINE special == s.guest_special
             n == s.guest_special_count
             need == Needs(s)
  <2>1. special \in SUBSET {"f7"} /\ n \in Nat /\ Fits(s, c, need)
    BY <1>2
  <2>2. now = WithKeys(s, down, special, n)
    BY Zenon
  <2> HIDE DEF now, down, special, n, need
  <2>3. /\ WithKeys(s, down, special, n) \in Input
        /\ Fits(WithKeys(s, down, special, n), c, need)
        /\ SamePaste(s, WithKeys(s, down, special, n))
        /\ WithKeys(s, down, special, n).down = down
        /\ WithKeys(s, down, special, n).guest_special = special
        /\ WithKeys(s, down, special, n).guest_special_count = n
    BY <1>2, <2>1, KeysAre
  <2> QED BY <2>2, <2>3 DEF special, n, need
<1>4. /\ Count(down, p) = Count(s.down, p) - 1
      /\ \A q \in Positions \ {p} : Count(down, q) = Count(s.down, q)
  BY <1>1 DEF Count, Positions
<1>5. t = IF k \in Shifts /\ s.guest_special_count > 0 THEN now
          ELSE msx_keyboard_release(now, p)
  OBVIOUS
<1> HIDE DEF now, p
<1>6. /\ c \subseteq {"SHIFT", "RETURN", "V"} /\ s.guest_special = down \cap {"f7"}
      /\ s.guest_special_count = IF "f7" \in down THEN 1 ELSE 0
  BY <1>1 DEF Matrix
<1> HIDE DEF down
<1>7. PasteHolds(now) = PasteHolds(s)
  BY <1>3 DEF SamePaste, PasteHolds
<1>8. CASE k \in Shifts /\ s.guest_special_count > 0
  <2>1. \A q \in Positions : Needs(now)[q] = Needs(s)[q]
    BY <1>1, <1>3, <1>4, <1>7, <1>8 DEF Needs, Pressing, ByKeys
  <2>2. Fits(now, c, Needs(now))
    BY <1>3, <2>1 DEF Fits
  <2> QED BY <1>3, <1>5, <1>6, <1>8, <2>2 DEF Matrix, down
<1>9. CASE ~(k \in Shifts /\ s.guest_special_count > 0)
  <2> DEFINE u == msx_keyboard_release(now, p)
  <2>1. ByKeys(now, p) = ByKeys(s, p) - 1 /\ \A q \in Positions \ {p} : ByKeys(now, q) = ByKeys(s, q)
    BY <1>1, <1>3, <1>4, <1>9 DEF ByKeys
  <2>2. /\ \A q \in Positions : ByKeys(s, q) \in 0 .. 2
        /\ \A q \in Positions : ByKeys(now, q) \in 0 .. 2
    BY <1>2, <1>3, NeedsAre
  <2>3. /\ Needs(s)[p] > 0 /\ Needs(now)[p] = Needs(s)[p] - 1
        /\ \A q \in Positions \ {p} : Needs(now)[q] = Needs(s)[q]
    BY <1>1, <1>7, <2>1, <2>2 DEF Needs, Pressing
  <2>4. Fits(u, c, Needs(now)) /\ SameKeys(now, u)
    BY <1>1, <1>3, <2>3, ReleaseFits
  <2>5. t = u
    BY <1>5, <1>9
  <2> HIDE DEF u
  <2>6. u \in Input /\ u.down = now.down /\ u.held = now.held
        /\ u.guest_special_count = now.guest_special_count
    BY <2>4 DEF Fits, SameKeys
  <2>7. \A q \in Positions : Needs(u)[q] = Needs(now)[q]
    BY <1>3, <2>6, NeedsKept
  <2>8. Fits(u, c, Needs(u))
    BY <2>4, <2>7 DEF Fits
  <2> QED BY <1>3, <1>6, <2>4, <2>5, <2>8 DEF Matrix, SameKeys, SamePaste, down
<1> QED BY <1>8, <1>9

\* SHIFT is hidden from the guest, or shown again.
LEMMA Suppressed ==
    ASSUME NEW s, NEW c, NEW need, Fits(s, c, need),
           need["SHIFT"] >= Count(s.down, "SHIFT"), NEW less,
           less["SHIFT"] = need["SHIFT"] - Count(s.down, "SHIFT"),
           \A q \in Positions \ {"SHIFT"} : less[q] = need[q]
    PROVE  Fits(suppress_guest_shift(s), c, less) /\ SameKeys(s, suppress_guest_shift(s))
<1> DEFINE left == IF "lshift" \in s.down THEN msx_keyboard_release(s, "SHIFT") ELSE s
           both == IF "rshift" \in s.down THEN msx_keyboard_release(left, "SHIFT") ELSE left
           n == need["SHIFT"]
           middle == [need EXCEPT !["SHIFT"] =
                         IF "lshift" \in s.down THEN n - 1 ELSE n]
           mid == [q \in Positions |->
                     IF q = "SHIFT" /\ "lshift" \in s.down THEN need[q] - 1 ELSE need[q]]
<1>1. suppress_guest_shift(s) = both
  BY Zenon DEF suppress_guest_shift
<1>2. "SHIFT" \in Positions /\ \A q \in Positions : need[q] \in 0 .. 100
  BY DEF Positions, Fits
<1>3. Count(s.down, "SHIFT") = (IF "lshift" \in s.down THEN 1 ELSE 0)
                                 + (IF "rshift" \in s.down THEN 1 ELSE 0)
  BY DEF Count
<1>4. \A q \in Positions :
         mid[q] = IF q = "SHIFT" /\ "lshift" \in s.down THEN need[q] - 1 ELSE need[q]
  BY DEF mid
<1> HIDE DEF mid
<1>5. Fits(left, c, mid) /\ SameKeys(s, left)
  <2>1. CASE "lshift" \in s.down
    <3>1. /\ need["SHIFT"] > 0 /\ mid["SHIFT"] = need["SHIFT"] - 1
          /\ \A q \in Positions \ {"SHIFT"} : mid[q] = need[q]
      BY <1>2, <1>3, <1>4, <2>1
    <3> QED BY <1>2, <2>1, <3>1, ReleaseFits
  <2>2. CASE "lshift" \notin s.down
    BY <1>4, <2>2 DEF Fits, SameKeys
  <2> QED BY <2>1, <2>2
<1> HIDE DEF left
<1>6. Fits(both, c, less) /\ SameKeys(s, both)
  <2>1. CASE "rshift" \in s.down
    <3>1. /\ mid["SHIFT"] > 0 /\ less["SHIFT"] = mid["SHIFT"] - 1
          /\ \A q \in Positions \ {"SHIFT"} : less[q] = mid[q]
      BY <1>2, <1>3, <1>4, <2>1
    <3>2. /\ Fits(msx_keyboard_release(left, "SHIFT"), c, less)
          /\ SameKeys(left, msx_keyboard_release(left, "SHIFT"))
      BY <1>2, <1>5, <3>1, ReleaseFits
    <3> QED BY <1>5, <2>1, <3>2 DEF SameKeys
  <2>2. CASE "rshift" \notin s.down
    <3>1. \A q \in Positions : less[q] = mid[q]
      BY <1>2, <1>3, <1>4, <2>2
    <3> QED BY <1>5, <2>2, <3>1 DEF Fits
  <2> QED BY <2>1, <2>2
<1> QED BY <1>1, <1>6

\* The other way round.
LEMMA Restored ==
    ASSUME NEW s, NEW c, NEW need, Fits(s, c, need), need["SHIFT"] < 90, NEW more,
           more["SHIFT"] = need["SHIFT"] + Count(s.down, "SHIFT"),
           \A q \in Positions \ {"SHIFT"} : more[q] = need[q]
    PROVE  Fits(restore_guest_shift(s), c, more) /\ SameKeys(s, restore_guest_shift(s))
<1> DEFINE left == IF "lshift" \in s.down THEN msx_keyboard_press(s, "SHIFT") ELSE s
           both == IF "rshift" \in s.down THEN msx_keyboard_press(left, "SHIFT") ELSE left
           mid == [q \in Positions |->
                     IF q = "SHIFT" /\ "lshift" \in s.down THEN need[q] + 1 ELSE need[q]]
<1>1. restore_guest_shift(s) = both
  BY Zenon DEF restore_guest_shift
<1>2. "SHIFT" \in Positions /\ \A q \in Positions : need[q] \in 0 .. 100
  BY DEF Positions, Fits
<1>3. Count(s.down, "SHIFT") = (IF "lshift" \in s.down THEN 1 ELSE 0)
                                 + (IF "rshift" \in s.down THEN 1 ELSE 0)
  BY DEF Count
<1>4. \A q \in Positions :
         mid[q] = IF q = "SHIFT" /\ "lshift" \in s.down THEN need[q] + 1 ELSE need[q]
  BY DEF mid
<1> HIDE DEF mid
<1>5. Fits(left, c, mid) /\ SameKeys(s, left)
  <2>1. CASE "lshift" \in s.down
    <3>1. /\ need["SHIFT"] < 100 /\ mid["SHIFT"] = need["SHIFT"] + 1
          /\ \A q \in Positions \ {"SHIFT"} : mid[q] = need[q]
      BY <1>2, <1>3, <1>4, <2>1
    <3> QED BY <1>2, <2>1, <3>1, PressFits
  <2>2. CASE "lshift" \notin s.down
    BY <1>4, <2>2 DEF Fits, SameKeys
  <2> QED BY <2>1, <2>2
<1> HIDE DEF left
<1>6. Fits(both, c, more) /\ SameKeys(s, both)
  <2>1. CASE "rshift" \in s.down
    <3>1. /\ mid["SHIFT"] < 100 /\ more["SHIFT"] = mid["SHIFT"] + 1
          /\ \A q \in Positions \ {"SHIFT"} : more[q] = mid[q]
      BY <1>2, <1>3, <1>4, <2>1
    <3>2. /\ Fits(msx_keyboard_press(left, "SHIFT"), c, more)
          /\ SameKeys(left, msx_keyboard_press(left, "SHIFT"))
      BY <1>2, <1>5, <3>1, PressFits
    <3> QED BY <1>5, <2>1, <3>2 DEF SameKeys
  <2>2. CASE "rshift" \notin s.down
    <3>1. \A q \in Positions : more[q] = mid[q]
      BY <1>2, <1>3, <1>4, <2>2
    <3> QED BY <1>5, <2>2, <3>1 DEF Fits
  <2> QED BY <2>1, <2>2
<1> QED BY <1>1, <1>6

\* The guest function key, of which there is one.
LEMMA FunctionPressed ==
    ASSUME NEW s, NEW c, Matrix(s, c), "f7" \notin s.guest_special
    PROVE  /\ Matrix(FunctionDown(s, "f7"), c) /\ SamePaste(s, FunctionDown(s, "f7"))
           /\ FunctionDown(s, "f7").down = s.down \cup {"f7"}
<1> DEFINE down == s.down \cup {"f7"}
           alone == IF s.guest_special_count = 0 THEN suppress_guest_shift(s) ELSE s
           now == WithKeys(alone, alone.down \cup {"f7"}, alone.guest_special \cup {"f7"},
                           alone.guest_special_count + 1)
           t == msx_keyboard_press(now, "SELECT")
           hidden == [p \in Positions |-> IF p = "SHIFT" THEN Needs(s)[p] - Count(s.down, p)
                                          ELSE Needs(s)[p]]
<1>1. FunctionDown(s, "f7") = t
  BY PositionsKnown, Zenon DEF FunctionDown, WithKeys
<1>2. /\ s \in Input /\ s.down \in SUBSET Key /\ "f7" \notin s.down
      /\ s.guest_special = {} /\ s.guest_special_count = 0 /\ Fits(s, c, Needs(s))
  BY MatrixTyped
<1>3. /\ "SHIFT" \in Positions /\ "SELECT" \in Positions
      /\ "SELECT" # "SHIFT" /\ "f7" \in Key
  BY DEF Positions, Key
<1>4. /\ Needs(s)["SHIFT"] >= Count(s.down, "SHIFT")
      /\ hidden["SHIFT"] = Needs(s)["SHIFT"] - Count(s.down, "SHIFT")
      /\ \A q \in Positions \ {"SHIFT"} : hidden[q] = Needs(s)[q]
  <2>1. Needs(s)["SHIFT"] = Count(s.down, "SHIFT")
                              + (IF "SHIFT" \in PasteHolds(s) THEN 1 ELSE 0)
    BY <1>2, <1>3 DEF Needs, Pressing, ByKeys
  <2>2. Count(s.down, "SHIFT") \in 0 .. 2
    BY <1>3, CountsSmall
  <2> QED BY <1>3, <2>1, <2>2
<1> HIDE DEF hidden
<1>5. Fits(alone, c, hidden) /\ SameKeys(s, alone)
  BY <1>2, <1>4, Suppressed
<1> HIDE DEF alone
<1>6. /\ alone \in Input /\ alone.down = s.down /\ alone.guest_special = {}
      /\ alone.guest_special_count = 0 /\ SamePaste(s, alone)
  BY <1>2, <1>5 DEF Fits, SameKeys, SamePaste
<1>7. /\ Fits(now, c, hidden) /\ SamePaste(s, now) /\ now.down = down
      /\ now.guest_special = {"f7"} /\ now.guest_special_count = 1 /\ now \in Input
  <2>1. now = WithKeys(alone, down, {"f7"}, 1)
    BY <1>6
  <2>2. down \in SUBSET Key /\ {"f7"} \in SUBSET {"f7"} /\ 1 \in Nat
    BY <1>2, <1>3
  <2> HIDE DEF now, down
  <2>3. /\ WithKeys(alone, down, {"f7"}, 1) \in Input /\ Fits(WithKeys(alone, down, {"f7"}, 1), c, hidden)
        /\ SamePaste(alone, WithKeys(alone, down, {"f7"}, 1))
        /\ WithKeys(alone, down, {"f7"}, 1).down = down
        /\ WithKeys(alone, down, {"f7"}, 1).guest_special = {"f7"}
        /\ WithKeys(alone, down, {"f7"}, 1).guest_special_count = 1
    BY <1>5, <1>6, <2>2, KeysAre
  <2> QED BY <1>5, <1>6, <2>1, <2>3 DEF SamePaste
<1> HIDE DEF now
<1>8. PasteHolds(now) = PasteHolds(s)
  BY <1>7 DEF SamePaste, PasteHolds
<1>9. /\ Count(down, "SELECT") = 1 /\ Count(s.down, "SELECT") = 0
      /\ \A q \in Positions \ {"SELECT"} : Count(down, q) = Count(s.down, q)
      /\ \A q \in Positions : Count(s.down, q) \in 0 .. 2
  <2>1. \A q \in Positions : Count(s.down, q) \in 0 .. 2
    BY CountsSmall
  <2> QED BY <1>2, <2>1 DEF Count, Positions
<1> HIDE DEF down
<1>10. /\ hidden["SELECT"] < 100 /\ Needs(now)["SELECT"] = hidden["SELECT"] + 1
       /\ \A q \in Positions \ {"SELECT"} : Needs(now)[q] = hidden[q]
  <2>1. \A q \in Positions : Needs(now)[q] = (IF q = "SHIFT" THEN 0 ELSE Count(down, q))
                                + (IF q \in PasteHolds(s) THEN 1 ELSE 0)
    BY <1>7, <1>8 DEF Needs, Pressing, ByKeys
  <2>2. \A q \in Positions : Needs(s)[q] = Count(s.down, q)
                                + (IF q \in PasteHolds(s) THEN 1 ELSE 0)
    BY <1>2 DEF Needs, Pressing, ByKeys
  <2> QED BY <1>3, <1>4, <1>9, <2>1, <2>2
<1>11. Fits(t, c, Needs(now)) /\ SameKeys(now, t)
  BY <1>3, <1>7, <1>10, PressFits
<1> HIDE DEF t
<1>12. Fits(t, c, Needs(t))
  <2>1. t \in Input
    BY <1>11 DEF Fits
  <2>2. \A q \in Positions : Needs(t)[q] = Needs(now)[q]
    BY <1>7, <1>11, <2>1, NeedsKept DEF SameKeys
  <2> QED BY <1>11, <2>2 DEF Fits
<1>13. "f7" \in down /\ down \cap {"f7"} = {"f7"}
  BY DEF down
<1>14. Matrix(t, c)
  BY <1>7, <1>11, <1>12, <1>13 DEF Matrix, SameKeys
<1> QED BY <1>1, <1>7, <1>11, <1>14 DEF SameKeys, SamePaste, down

\* The other way round.
LEMMA FunctionReleased ==
    ASSUME NEW s, NEW c, Matrix(s, c), "f7" \in s.guest_special
    PROVE  /\ Matrix(FunctionUp(s, "f7"), c) /\ SamePaste(s, FunctionUp(s, "f7"))
           /\ FunctionUp(s, "f7").down = s.down \ {"f7"}
<1> DEFINE down == s.down \ {"f7"}
           up == msx_keyboard_release(s, "SELECT")
           free == WithKeys(up, up.down \ {"f7"}, up.guest_special \ {"f7"},
                            IF up.guest_special_count > 0 THEN up.guest_special_count - 1
                            ELSE 0)
           t == IF free.guest_special_count = 0 THEN restore_guest_shift(free) ELSE free
           less == [p \in Positions |-> IF p = "SELECT" THEN Needs(s)[p] - 1 ELSE Needs(s)[p]]
<1>1. FunctionUp(s, "f7") = t
  BY PositionsKnown, Zenon DEF FunctionUp, WithKeys
<1>2. /\ s \in Input /\ s.down \in SUBSET Key /\ "f7" \in s.down
      /\ s.guest_special = {"f7"} /\ s.guest_special_count = 1 /\ Fits(s, c, Needs(s))
  BY MatrixTyped
<1>3. /\ "SHIFT" \in Positions /\ "SELECT" \in Positions /\ "SELECT" # "SHIFT"
  BY DEF Positions
<1>4. /\ Count(s.down, "SELECT") = 1 /\ Count(down, "SELECT") = 0
      /\ \A q \in Positions \ {"SELECT"} : Count(down, q) = Count(s.down, q)
      /\ \A q \in Positions : Count(s.down, q) \in 0 .. 2
  <2>1. \A q \in Positions : Count(s.down, q) \in 0 .. 2
    BY CountsSmall
  <2> QED BY <1>2, <2>1 DEF Count, Positions
<1>5. \A q \in Positions : Needs(s)[q] = (IF q = "SHIFT" THEN 0 ELSE Count(s.down, q))
                              + (IF q \in PasteHolds(s) THEN 1 ELSE 0)
  BY <1>2 DEF Needs, Pressing, ByKeys
<1>6. /\ Needs(s)["SELECT"] > 0 /\ less["SELECT"] = Needs(s)["SELECT"] - 1
      /\ \A q \in Positions \ {"SELECT"} : less[q] = Needs(s)[q]
  BY <1>3, <1>4, <1>5
<1> HIDE DEF less
<1>7. Fits(up, c, less) /\ SameKeys(s, up)
  BY <1>2, <1>3, <1>6, ReleaseFits
<1> HIDE DEF up
<1>8. /\ up \in Input /\ up.down = s.down /\ up.guest_special = {"f7"}
      /\ up.guest_special_count = 1 /\ SamePaste(s, up)
  BY <1>2, <1>7 DEF Fits, SameKeys, SamePaste
<1>9. /\ Fits(free, c, less) /\ SamePaste(s, free) /\ free.down = down
      /\ free.guest_special = {} /\ free.guest_special_count = 0 /\ free \in Input
  <2> DEFINE none == {}
             zero == 0
  <2>1. free = WithKeys(up, down, none, zero)
    BY <1>8
  <2>2. down \in SUBSET Key /\ none \in SUBSET {"f7"} /\ zero \in Nat
    BY <1>2
  <2> HIDE DEF free, down, t, none, zero
  <2>3. /\ WithKeys(up, down, none, zero) \in Input
        /\ Fits(WithKeys(up, down, none, zero), c, less)
        /\ SamePaste(up, WithKeys(up, down, none, zero))
        /\ WithKeys(up, down, none, zero).down = down
        /\ WithKeys(up, down, none, zero).guest_special = none
        /\ WithKeys(up, down, none, zero).guest_special_count = zero
    <3>1. up \in Input /\ Fits(up, c, less)
      BY <1>7, <1>8
    <3> HIDE <1>1, <1>2, <1>3, <1>4, <1>5, <1>6
    <3> QED BY <3>1, <2>2, KeysAre
  <2> QED BY <1>7, <1>8, <2>1, <2>3 DEF SamePaste, none, zero
<1> HIDE DEF free
<1>10. PasteHolds(free) = PasteHolds(s)
  BY <1>9 DEF SamePaste, PasteHolds
<1>11. "f7" \notin down /\ down \cap {"f7"} = {}
  OBVIOUS
<1> HIDE DEF down
<1>12. /\ less["SHIFT"] < 90
       /\ Needs(free)["SHIFT"] = less["SHIFT"] + Count(free.down, "SHIFT")
       /\ \A q \in Positions \ {"SHIFT"} : Needs(free)[q] = less[q]
  <2>1. \A q \in Positions : Needs(free)[q] = Count(down, q)
                                + (IF q \in PasteHolds(s) THEN 1 ELSE 0)
    BY <1>9, <1>10 DEF Needs, Pressing, ByKeys
  <2> QED BY <1>3, <1>4, <1>5, <1>6, <1>9, <2>1
<1>13. Fits(t, c, Needs(free)) /\ SameKeys(free, t)
  BY <1>9, <1>12, Restored
<1> HIDE DEF t
<1>14. Fits(t, c, Needs(t))
  <2>1. t \in Input
    BY <1>13 DEF Fits
  <2>2. \A q \in Positions : Needs(t)[q] = Needs(free)[q]
    BY <1>9, <1>13, <2>1, NeedsKept DEF SameKeys
  <2> QED BY <1>13, <2>2 DEF Fits
<1>15. Matrix(t, c)
  BY <1>9, <1>11, <1>13, <1>14 DEF Matrix, SameKeys
<1> QED BY <1>1, <1>9, <1>13, <1>15 DEF SameKeys, SamePaste, down

\* A key event, of any key: down, first or again.
LEMMA KeyGoesDown ==
    ASSUME NEW s, NEW c, Matrix(s, c), NEW k \in Key, NEW shift \in BOOLEAN,
           NEW repeat \in BOOLEAN
    PROVE  LET t == kbd_handle(s, k, TRUE, shift, repeat)
           IN  /\ Matrix(t, c) /\ SamePaste(s, t) /\ t.down \subseteq s.down \cup {k}
<1> DEFINE t == kbd_handle(s, k, TRUE, shift, repeat)
           now == WithKeys(s, s.down \cup {k}, s.guest_special, s.guest_special_count)
           plain == [s EXCEPT !.down = s.down \cup {k}]
<1>1. t = IF k \in DOMAIN guest_function_position
          THEN IF shift /\ k \notin s.guest_special THEN FunctionDown(s, k) ELSE s
          ELSE IF repeat \/ k \in s.down THEN s
          ELSE IF k \in Shifts /\ s.guest_special_count > 0 THEN plain
          ELSE msx_keyboard_press(plain, regular_position[k])
  BY Zenon DEF kbd_handle, kbd_handle_guest_function
<1>2. plain = now
  <2>1. s \in Input
    BY MatrixTyped
  <2> QED BY <2>1 DEF Input, WithKeys
<1>3. /\ k \in DOMAIN guest_function_position <=> k = "f7"
      /\ k # "f7" => k \in DOMAIN regular_position
  BY PositionsKnown DEF Key
<1>4. SamePaste(s, s)
  BY DEF SamePaste
<1> HIDE DEF t, now, plain
<1>5. CASE t = s
  BY <1>4, <1>5 DEF t
<1>6. CASE k = "f7" /\ "f7" \notin s.guest_special /\ t = FunctionDown(s, "f7")
  <2>1. Matrix(t, c) /\ SamePaste(s, t) /\ t.down = s.down \cup {"f7"}
    BY <1>6, FunctionPressed
  <2> QED BY <1>6, <2>1 DEF t
<1>7. CASE /\ k # "f7" /\ ~repeat /\ k \notin s.down
           /\ t = IF k \in Shifts /\ s.guest_special_count > 0 THEN now
                  ELSE msx_keyboard_press(now, regular_position[k])
  BY <1>3, <1>7, RegularDown DEF t, now
<1>8. \/ t = s
      \/ (k = "f7" /\ "f7" \notin s.guest_special /\ t = FunctionDown(s, "f7"))
      \/ /\ k # "f7" /\ ~repeat /\ k \notin s.down
         /\ t = IF k \in Shifts /\ s.guest_special_count > 0 THEN now
                ELSE msx_keyboard_press(now, regular_position[k])
  BY <1>1, <1>2, <1>3
<1> QED BY <1>5, <1>6, <1>7, <1>8

\* A key event: up.
LEMMA KeyGoesUp ==
    ASSUME NEW s, NEW c, Matrix(s, c), NEW k \in Key, NEW shift \in BOOLEAN
    PROVE  LET t == kbd_handle(s, k, FALSE, shift, FALSE)
           IN  /\ Matrix(t, c) /\ SamePaste(s, t) /\ t.down \subseteq s.down \ {k}
               /\ s.down = {} => t = s
<1> DEFINE t == kbd_handle(s, k, FALSE, shift, FALSE)
           now == WithKeys(s, s.down \ {k}, s.guest_special, s.guest_special_count)
           plain == [s EXCEPT !.down = s.down \ {k}]
<1>1. t = IF k \in DOMAIN guest_function_position
          THEN IF k \in s.guest_special THEN FunctionUp(s, k) ELSE plain
          ELSE IF k \notin s.down THEN s
          ELSE IF k \in Shifts /\ s.guest_special_count > 0 THEN plain
          ELSE msx_keyboard_release(plain, regular_position[k])
  BY Zenon DEF kbd_handle, kbd_handle_guest_function
<1>2. /\ s \in Input /\ s.guest_special = s.down \cap {"f7"}
  BY MatrixTyped
<1>3. plain = now
  BY <1>2 DEF Input, WithKeys
<1>4. /\ k \in DOMAIN guest_function_position <=> k = "f7"
      /\ k # "f7" => k \in DOMAIN regular_position
  BY PositionsKnown DEF Key
<1>5. SamePaste(s, s)
  BY DEF SamePaste
<1>6. k \notin s.down => plain = s
  <2>1. k \notin s.down => s.down \ {k} = s.down
    OBVIOUS
  <2> QED BY <1>2, <2>1 DEF Input
<1> HIDE DEF t, now, plain
<1>7. CASE t = s /\ k \notin s.down
  BY <1>5, <1>7 DEF t
<1>8. CASE k = "f7" /\ "f7" \in s.guest_special /\ t = FunctionUp(s, "f7")
  <2>1. Matrix(t, c) /\ SamePaste(s, t) /\ t.down = s.down \ {"f7"}
    BY <1>8, FunctionReleased
  <2>2. s.down # {}
    BY <1>2, <1>8
  <2> QED BY <1>8, <2>1, <2>2 DEF t
<1>9. CASE /\ k # "f7" /\ k \in s.down
           /\ t = IF k \in Shifts /\ s.guest_special_count > 0 THEN now
                  ELSE msx_keyboard_release(now, regular_position[k])
  BY <1>4, <1>9, RegularUp DEF t, now
<1>10. \/ (t = s /\ k \notin s.down)
       \/ (k = "f7" /\ "f7" \in s.guest_special /\ t = FunctionUp(s, "f7"))
       \/ /\ k # "f7" /\ k \in s.down
          /\ t = IF k \in Shifts /\ s.guest_special_count > 0 THEN now
                 ELSE msx_keyboard_release(now, regular_position[k])
  BY <1>1, <1>2, <1>3, <1>4, <1>6
<1> QED BY <1>7, <1>8, <1>9, <1>10

\* The strokes of a text, with those of one more character.
Grown(text, strokes, n) ==
    IF text[n] \in DOMAIN keymap THEN Append(strokes, Stroke(text[n])) ELSE strokes
Growing(text, f) ==
    f = [n \in 0 .. Len(text) |-> IF n = 0 THEN <<>> ELSE Grown(text, f[n - 1], n)]

\* There is a function that grows so; the least number without one is none.
LEMMA GrowingExists ==
    ASSUME NEW text, Len(text) \in Nat
    PROVE  \E f : Growing(text, f)
<1> DEFINE L == Len(text)
           G(k, f) == f = [n \in 0 .. k |-> IF n = 0 THEN <<>> ELSE Grown(text, f[n - 1], n)]
           S == {k \in 0 .. L : \E f : G(k, f)}
<1>1. 0 \in S
  <2> DEFINE f == [n \in 0 .. 0 |-> <<>>]
             h == [n \in 0 .. 0 |-> IF n = 0 THEN <<>> ELSE Grown(text, f[n - 1], n)]
  <2>1. f = [n \in 0 .. 0 |-> f[n]] /\ h = [n \in 0 .. 0 |-> h[n]]
    OBVIOUS
  <2>2. \A n \in 0 .. 0 : f[n] = h[n]
    OBVIOUS
  <2>3. h = [n \in 0 .. 0 |-> IF n = 0 THEN <<>> ELSE Grown(text, f[n - 1], n)]
    OBVIOUS
  <2> HIDE DEF f, h
  <2>4. f = h
    BY ONLY <2>1, <2>2
  <2>5. G(0, f)
    BY ONLY <2>3, <2>4
  <2>6. 0 \in 0 .. L
    OBVIOUS
  <2> HIDE DEF G
  <2> QED BY ONLY <2>5, <2>6
<1>2. ASSUME NEW k \in 0 .. (L - 1), k \in S
      PROVE  k + 1 \in S
  <2>1. PICK f : G(k, f)
    BY <1>2
  <2> DEFINE g == [n \in 0 .. (k + 1) |-> IF n = k + 1 THEN Grown(text, f[k], k + 1) ELSE f[n]]
             h == [n \in 0 .. (k + 1) |-> IF n = 0 THEN <<>> ELSE Grown(text, g[n - 1], n)]
  <2>2. \A n \in 0 .. k : g[n] = f[n]
    OBVIOUS
  <2>3. \A n \in 0 .. k : f[n] = IF n = 0 THEN <<>> ELSE Grown(text, f[n - 1], n)
    BY <2>1
  <2>4. ASSUME NEW n \in 0 .. (k + 1) PROVE g[n] = h[n]
    <3>1. CASE n = k + 1
      <4>1. g[n] = Grown(text, f[k], k + 1) /\ n # 0 /\ n - 1 = k /\ g[k] = f[k]
        BY <3>1
      <4>2. h[n] = Grown(text, g[n - 1], n)
        BY <4>1
      <4> HIDE DEF g, h
      <4> QED BY <3>1, <4>1, <4>2
    <3>2. CASE n = 0
      BY <2>2, <2>3, <3>2
    <3>3. CASE n \in 1 .. k
      <4>1. g[n] = f[n] /\ g[n - 1] = f[n - 1] /\ f[n] = Grown(text, f[n - 1], n)
        BY <2>2, <2>3, <3>3
      <4>2. h[n] = Grown(text, g[n - 1], n)
        BY <3>3
      <4> HIDE DEF g, h
      <4> QED BY <4>1, <4>2
    <3> QED BY <3>1, <3>2, <3>3
  <2>5. g = [n \in 0 .. (k + 1) |-> g[n]] /\ h = [n \in 0 .. (k + 1) |-> h[n]]
    OBVIOUS
  <2>6. h = [n \in 0 .. (k + 1) |-> IF n = 0 THEN <<>> ELSE Grown(text, g[n - 1], n)]
    OBVIOUS
  <2> HIDE DEF g, h
  <2>7. g = h
    BY ONLY <2>4, <2>5
  <2>8. G(k + 1, g)
    BY ONLY <2>6, <2>7
  <2>9. k + 1 \in 0 .. L
    OBVIOUS
  <2> HIDE DEF G
  <2> QED BY ONLY <2>8, <2>9
<1> HIDE DEF S
<1>3. L \in S
  <2>1. \A k \in 0 .. L : k \in S
    BY <1>1, <1>2, UpTo
  <2> QED BY <2>1
<1> QED BY <1>3 DEF S, Growing

\* The keystrokes that a guest may see.
StrokeSet == [keys : SUBSET Positions, with : SUBSET Positions]

\* The key of a character, and its stroke.
LEMMA StrokeKnown ==
    ASSUME NEW ch \in DOMAIN keymap
    PROVE  /\ keymap[ch] \in HeldKeys /\ keymap[ch] # NotHeld
           /\ keymap[ch].position \in {"RETURN", "V"} /\ keymap[ch].shift \in BOOLEAN
           /\ Stroke(ch) \in StrokeSet
<1>1. keymap[ch] \in HeldKeys
  BY DEF HeldKeys
<1>2. /\ keymap[ch].position \in {"RETURN", "V"} /\ keymap[ch].shift \in BOOLEAN
  <2>1. CASE ch = "n"
    BY <2>1, KeymapKnown
  <2>2. CASE ch = "v"
    BY <2>2, KeymapKnown
  <2>3. CASE ch = "V"
    BY <2>3, KeymapKnown
  <2> QED BY <2>1, <2>2, <2>3, KeymapKnown
<1>3. keymap[ch] # NotHeld
  BY KeymapKnown DEF NotHeld
<1>4. Stroke(ch) \in StrokeSet
  BY <1>2 DEF Stroke, StrokeSet, Positions
<1> QED BY <1>1, <1>2, <1>3, <1>4

\* The strokes of a text, character by character (StrokesUpTo).
LEMMA StrokesAre ==
    ASSUME NEW text, Len(text) \in Nat
    PROVE  /\ StrokesUpTo(text)[0] = <<>>
           /\ \A n \in 1 .. Len(text) :
                 StrokesUpTo(text)[n] = Grown(text, StrokesUpTo(text)[n - 1], n)
           /\ \A n \in 0 .. Len(text) : StrokesUpTo(text)[n] \in Seq(StrokeSet)
<1> DEFINE f == CHOOSE f : Growing(text, f)
           S == {n \in 0 .. Len(text) : f[n] \in Seq(StrokeSet)}
<1>1. Growing(text, f)
  BY GrowingExists
<1>2. StrokesUpTo(text) = f
  BY Zenon DEF StrokesUpTo, Growing, Grown
<1> HIDE DEF f
<1>3. f[0] = <<>> /\ \A n \in 1 .. Len(text) : f[n] = Grown(text, f[n - 1], n)
  BY <1>1 DEF Growing
<1>4. 0 \in S
  <2>1. <<>> \in Seq(StrokeSet)
    OBVIOUS
  <2>2. f[0] \in Seq(StrokeSet)
    BY <1>3, <2>1
  <2>3. 0 \in 0 .. Len(text)
    OBVIOUS
  <2> QED BY <2>2, <2>3
<1>5. ASSUME NEW k \in 0 .. (Len(text) - 1), k \in S PROVE k + 1 \in S
  <2>1. k + 1 \in 1 .. Len(text) /\ (k + 1) - 1 = k
    OBVIOUS
  <2>2. f[k + 1] = Grown(text, f[k], k + 1) /\ f[k] \in Seq(StrokeSet)
    BY <1>3, <1>5, <2>1
  <2>3. f[k + 1] \in Seq(StrokeSet)
    BY <2>2, StrokeKnown DEF Grown
  <2> QED BY <2>1, <2>3
<1> HIDE DEF S
<1>6. \A n \in 0 .. Len(text) : n \in S
  BY <1>4, <1>5, UpTo
<1>7. \A n \in 0 .. Len(text) : f[n] \in Seq(StrokeSet)
  BY <1>6 DEF S
<1> QED BY <1>2, <1>3, <1>7

\* What is typed so far is a part of what comes, and all of it where only
\* characters without a key follow.
LEMMA StrokesGrow ==
    ASSUME NEW text, Len(text) \in Nat, NEW n \in 0 .. Len(text), NEW m \in n .. Len(text)
    PROVE  LET u == StrokesUpTo(text)
           IN  /\ Len(u[n]) <= Len(u[m]) /\ u[n] = SubSeq(u[m], 1, Len(u[n]))
               /\ (\A j \in n .. (m - 1) : text[j + 1] \notin DOMAIN keymap) => u[m] = u[n]
<1> DEFINE u == StrokesUpTo(text)
           P(i) == /\ Len(u[n]) <= Len(u[i]) /\ u[n] = SubSeq(u[i], 1, Len(u[n]))
                   /\ (\A j \in n .. (i - 1) : text[j + 1] \notin DOMAIN keymap) => u[i] = u[n]
           S == {k \in 0 .. (Len(text) - n) : P(n + k)}
<1>1. /\ \A i \in 1 .. Len(text) : u[i] = Grown(text, u[i - 1], i)
      /\ \A i \in 0 .. Len(text) : u[i] \in Seq(StrokeSet)
  BY StrokesAre
<1> HIDE DEF u
<1>2. 0 \in S
  <2>1. n + 0 = n /\ 0 \in 0 .. (Len(text) - n) /\ u[n] \in Seq(StrokeSet)
    BY <1>1
  <2>2. u[n] = SubSeq(u[n], 1, Len(u[n])) /\ Len(u[n]) <= Len(u[n])
    BY <2>1
  <2> QED BY <2>1, <2>2
<1>3. ASSUME NEW k \in 0 .. ((Len(text) - n) - 1), k \in S PROVE k + 1 \in S
  <2> DEFINE i == n + k
  <2>1. /\ i \in n .. (Len(text) - 1) /\ n + (k + 1) = i + 1 /\ (i + 1) - 1 = i
        /\ i \in 0 .. Len(text) /\ i + 1 \in 1 .. Len(text) /\ k + 1 \in 0 .. (Len(text) - n)
    OBVIOUS
  <2>2. P(i)
    BY <1>3
  <2> HIDE DEF i
  <2>3. u[i + 1] = Grown(text, u[i], i + 1)
    BY <1>1, <2>1
  <2>4. u[n] \in Seq(StrokeSet) /\ u[i] \in Seq(StrokeSet)
    BY <1>1, <2>1
  <2>5. CASE text[i + 1] \in DOMAIN keymap
    <3> DEFINE st == Stroke(text[i + 1])
    <3>1. u[i + 1] = Append(u[i], st) /\ st \in StrokeSet
      BY <2>3, <2>5, StrokeKnown DEF Grown
    <3> HIDE DEF st
    <3> DEFINE a == u[n]
               b == u[i]
    <3>2. /\ a \in Seq(StrokeSet) /\ b \in Seq(StrokeSet) /\ Len(a) <= Len(b)
          /\ a = SubSeq(b, 1, Len(a))
      BY <2>2, <2>4
    <3> HIDE DEF a, b
    <3>3. Len(a) <= Len(Append(b, st)) /\ a = SubSeq(Append(b, st), 1, Len(a))
      BY <3>1, <3>2
    <3>4. i \in n .. ((i + 1) - 1)
      BY <2>1
    <3>5. Len(u[n]) <= Len(u[i + 1]) /\ u[n] = SubSeq(u[i + 1], 1, Len(u[n]))
      BY <3>1, <3>3 DEF a, b
    <3>6. P(i + 1)
      BY <2>5, <3>4, <3>5
    <3> QED BY <2>1, <3>6
  <2>6. CASE text[i + 1] \notin DOMAIN keymap
    <3>1. u[i + 1] = u[i]
      BY <2>3, <2>6 DEF Grown
    <3>2. n .. (i - 1) \subseteq n .. ((i + 1) - 1)
      BY <2>1
    <3>3. P(i + 1)
      BY <2>2, <3>1, <3>2
    <3> QED BY <2>1, <3>3
  <2> QED BY <2>5, <2>6
<1> HIDE DEF S
<1>4. \A k \in 0 .. (Len(text) - n) : k \in S
  <2>1. Len(text) - n \in Nat
    OBVIOUS
  <2> QED BY <1>2, <1>3, <2>1, UpTo
<1>5. m - n \in 0 .. (Len(text) - n) /\ n + (m - n) = m
  OBVIOUS
<1>6. P(n + (m - n))
  <2> DEFINE d == m - n
  <2>1. d \in S
    BY <1>4, <1>5
  <2> HIDE DEF d
  <2>2. P(n + d)
    BY <2>1 DEF S
  <2> HIDE DEF P
  <2> QED BY <2>2 DEF d
<1>7. P(m)
  <2> HIDE DEF P
  <2> QED BY <1>5, <1>6
<1> QED BY <1>7 DEF u

\* Every text has a length.
LEMMA TextsKnown ==
    ASSUME KeyboardAssumption, NEW text \in Texts \cup {<<>>}
    PROVE  Len(text) \in Nat
BY DEF KeyboardAssumption

\* The next character that can be typed, or the end (NextCharacter).
LEMMA NextIs ==
    ASSUME KeyboardAssumption, NEW s \in Input, paste_active(s)
    PROVE  /\ NextCharacter(s) \in s.offset .. Len(s.text)
           /\ NextCharacter(s) # Len(s.text) => s.text[NextCharacter(s) + 1] \in DOMAIN keymap
           /\ \A j \in s.offset .. (NextCharacter(s) - 1) : s.text[j + 1] \notin DOMAIN keymap
<1> DEFINE L == Len(s.text)
           n == s.offset
           text == s.text
           S == {i \in n .. L : i = L \/ text[i + 1] \in DOMAIN keymap}
           Ok(i) == /\ i = L \/ text[i + 1] \in DOMAIN keymap
                    /\ \A j \in n .. i - 1 : text[j + 1] \notin DOMAIN keymap
<1>1. n \in Nat /\ L \in Nat /\ n < L
  <2>1. s.offset \in Nat /\ s.text \in Texts \cup {<<>>}
    BY DEF Input
  <2> QED BY <2>1, TextsKnown DEF paste_active
<1>2. NextCharacter(s) = CHOOSE i \in n .. L : Ok(i)
  BY Zenon DEF NextCharacter
<1> HIDE DEF L, n, text
<1>3. \E i \in n .. L : Ok(i)
  <2>1. S \in SUBSET Nat /\ L \in S
    BY <1>1
  <2>2. PICK i \in S : \A m \in S : i <= m
    BY <2>1, Least
  <2>3. i \in n .. L /\ (i = L \/ text[i + 1] \in DOMAIN keymap)
    BY <2>2
  <2>4. ASSUME NEW j \in n .. i - 1 PROVE text[j + 1] \notin DOMAIN keymap
    <3>1. j \in n .. L /\ ~(i <= j)
      BY <1>1, <2>3
    <3>2. j \notin S
      BY <2>2, <3>1
    <3> QED BY <3>1, <3>2
  <2> QED BY <2>3, <2>4
<1> HIDE DEF Ok
<1>4. NextCharacter(s) \in n .. L /\ Ok(NextCharacter(s))
  BY <1>2, <1>3
<1> QED BY <1>4 DEF Ok, L, n, text

\* The queue's hold alone.
WithHeld(s, offset, held, timer) ==
    [s EXCEPT !.offset = offset, !.held = held, !.timer = timer]

\* What the queue holds is not yet in the matrix.
LEMMA HeldAre ==
    ASSUME NEW s, NEW c, NEW need, Fits(s, c, need), NEW offset \in Nat,
           NEW held \in HeldKeys, NEW timer \in Nat
    PROVE  /\ Fits(WithHeld(s, offset, held, timer), c, need)
           /\ WithHeld(s, offset, held, timer).down = s.down
           /\ WithHeld(s, offset, held, timer).guest_special = s.guest_special
           /\ WithHeld(s, offset, held, timer).guest_special_count = s.guest_special_count
           /\ WithHeld(s, offset, held, timer).text = s.text
           /\ WithHeld(s, offset, held, timer).offset = offset
           /\ WithHeld(s, offset, held, timer).held = held
<1> DEFINE t == WithHeld(s, offset, held, timer)
<1>1. s \in Input
  BY DEF Fits
<1>2. /\ t \in Input /\ t.down = s.down /\ t.guest_special = s.guest_special
      /\ t.guest_special_count = s.guest_special_count /\ t.text = s.text
      /\ t.offset = offset /\ t.held = held /\ t.rows = s.rows /\ t.refs = s.refs
  BY <1>1 DEF Input, WithHeld
<1> HIDE DEF t
<1>3. Fits(t, c, need)
  BY <1>2 DEF Fits
<1> QED BY <1>2, <1>3 DEF t

\* The queue presses a character.
LEMMA CharacterPressed ==
    ASSUME NEW s, NEW c, Matrix(s, c), s.held = NotHeld, NEW at \in Nat,
           NEW key \in HeldKeys, key # NotHeld, NEW t,
           t = WithHeld(msx_keyboard_press(
                   IF key.shift THEN msx_keyboard_press(s, "SHIFT") ELSE s, key.position),
                   at, key, HOLD_FRAMES)
    PROVE  /\ Matrix(t, c) /\ t.down = s.down /\ t.text = s.text /\ t.offset = at
           /\ t.held = key
<1> DEFINE p == key.position
           shift == key.shift
           shifted == IF shift THEN msx_keyboard_press(s, "SHIFT") ELSE s
           both == msx_keyboard_press(shifted, p)
           base == [q \in Positions |-> ByKeys(s, q)]
           one == [q \in Positions |->
                      IF shift /\ q = "SHIFT" THEN base[q] + 1 ELSE base[q]]
           two == [q \in Positions |-> IF q = p THEN one[q] + 1 ELSE one[q]]
<1>1. /\ p \in {"RETURN", "V"} /\ p \in Positions /\ p # "SHIFT" /\ "SHIFT" \in Positions
      /\ shift \in BOOLEAN
  BY HeldKnown DEF Positions
<1>2. s \in Input /\ Fits(s, c, Needs(s))
  BY MatrixTyped
<1>3. \A q \in Positions : base[q] \in 0 .. 2 /\ Needs(s)[q] = base[q]
  BY <1>2, NeedsAre
<1>4. \A q \in Positions : one[q] = IF shift /\ q = "SHIFT" THEN base[q] + 1 ELSE base[q]
  OBVIOUS
<1>5. \A q \in Positions : two[q] = IF q = p THEN one[q] + 1 ELSE one[q]
  OBVIOUS
<1>6. \A q \in Positions : base[q] = ByKeys(s, q)
  OBVIOUS
<1>7. t = WithHeld(both, at, key, HOLD_FRAMES)
  BY Zenon
<1> HIDE DEF one, two, base, p
<1>8. Fits(s, c, base)
  BY <1>2, <1>3 DEF Fits
<1>9. Fits(shifted, c, one) /\ SameKeys(s, shifted)
  <2>1. CASE shift
    <3>1. /\ base["SHIFT"] < 100 /\ one["SHIFT"] = base["SHIFT"] + 1
          /\ \A q \in Positions \ {"SHIFT"} : one[q] = base[q]
      BY <1>1, <1>3, <1>4, <2>1
    <3>2. /\ Fits(msx_keyboard_press(s, "SHIFT"), c, one)
          /\ SameKeys(s, msx_keyboard_press(s, "SHIFT"))
      BY <1>1, <1>8, <3>1, PressFits
    <3> QED BY <2>1, <3>2
  <2>2. CASE ~shift
    <3>1. \A q \in Positions : one[q] = base[q]
      BY <1>4, <2>2
    <3> QED BY <1>8, <2>2, <3>1 DEF Fits, SameKeys
  <2> QED BY <2>1, <2>2
<1> HIDE DEF shifted
<1>10. Fits(both, c, two) /\ SameKeys(shifted, both)
  <2>1. /\ one[p] < 100 /\ two[p] = one[p] + 1
        /\ \A q \in Positions \ {p} : two[q] = one[q]
    BY <1>1, <1>3, <1>4, <1>5
  <2> QED BY <1>1, <1>9, <2>1, PressFits
<1> HIDE DEF both
<1>11. /\ Fits(t, c, two) /\ t.down = both.down /\ t.guest_special = both.guest_special
       /\ t.guest_special_count = both.guest_special_count /\ t.text = both.text
       /\ t.offset = at /\ t.held = key
  <2>1. HOLD_FRAMES \in Nat
    BY DEF HOLD_FRAMES
  <2> DEFINE n == HOLD_FRAMES
             u == WithHeld(both, at, key, n)
  <2>2. n \in Nat
    BY <2>1
  <2> HIDE DEF n
  <2>3. /\ Fits(u, c, two) /\ u.down = both.down /\ u.guest_special = both.guest_special
        /\ u.guest_special_count = both.guest_special_count /\ u.text = both.text
        /\ u.offset = at /\ u.held = key
    BY <1>10, <2>2, HeldAre
  <2> HIDE DEF u
  <2>4. t = u
    BY <1>7 DEF u, n
  <2> QED BY <2>3, <2>4
<1>12. /\ t.down = s.down /\ t.guest_special = s.guest_special
       /\ t.guest_special_count = s.guest_special_count /\ t.text = s.text
  BY <1>9, <1>10, <1>11 DEF SameKeys
<1>13. t \in Input
  BY <1>11 DEF Fits
<1>14. \A q \in Positions : Needs(t)[q] = two[q]
  <2>1. \A q \in Positions : ByKeys(t, q) = base[q]
    BY <1>6, <1>12 DEF ByKeys
  <2>2. \A q \in Positions : Needs(t)[q] =
            ByKeys(t, q) + (IF q = key.position \/ (key.shift /\ q = "SHIFT") THEN 1 ELSE 0)
    BY <1>11, <1>13, NeedsAre
  <2> DEFINE need == Needs(t)
  <2>3. \A q \in Positions : need[q] =
            base[q] + (IF q = p \/ (shift /\ q = "SHIFT") THEN 1 ELSE 0)
    BY <2>1, <2>2 DEF p
  <2> HIDE DEF need, shift
  <2>4. \A q \in Positions : need[q] = two[q]
    BY ONLY <1>1, <1>3, <1>4, <1>5, <2>3
  <2> QED BY <2>4 DEF need
<1>15. Fits(t, c, Needs(t))
  BY <1>11, <1>14 DEF Fits
<1> QED BY <1>11, <1>12, <1>15 DEF Matrix

\* What a paste has typed so far.
InPaste(s, text, typed) ==
    LET u == StrokesUpTo(text)
    IN  \/ /\ s.text = text /\ s.offset \in 0 .. Len(text)
           /\ s.held = NotHeld => typed = u[s.offset]
           /\ s.held # NotHeld => /\ s.offset < Len(text)
                                  /\ text[s.offset + 1] \in DOMAIN keymap
                                  /\ s.held = keymap[text[s.offset + 1]]
                                  /\ typed = u[s.offset + 1]
        \/ s.text = <<>> /\ s.offset = 0 /\ s.held = NotHeld /\ typed = u[Len(text)]

\* The strokes that the guest makes of the rows seen next.
StrokesOf(seen, rows) ==
    LET fresh == (rows \ seen) \ Modifiers
    IN  IF fresh = {} THEN <<>> ELSE <<[keys |-> fresh, with |-> rows \cap Modifiers]>>

\* What is pressed where no key is down and nothing was cut.
LEMMA RowsAre ==
    ASSUME NEW s, Matrix(s, {}), s.down = {}
    PROVE  s.rows = PasteHolds(s)
<1>1. s \in Input /\ Fits(s, {}, Needs(s)) /\ s.held \in HeldKeys /\ s.rows \subseteq Positions
  BY MatrixTyped DEF Input
<1>2. PasteHolds(s) \subseteq Positions
  BY <1>1, HeldKnown DEF PasteHolds, Positions
<1>3. ASSUME NEW p \in Positions PROVE p \in s.rows <=> p \in PasteHolds(s)
  <2>1. ByKeys(s, p) = 0
    <3>1. Count({}, p) = 0
      BY DEF Count, Positions
    <3> QED BY <3>1 DEF ByKeys
  <2>2. Needs(s)[p] = IF p \in PasteHolds(s) THEN 1 ELSE 0
    BY <2>1 DEF Needs, Pressing
  <2>3. (p \in s.rows <=> s.refs[p] > 0) /\ s.refs[p] = Needs(s)[p]
    BY <1>1 DEF Fits
  <2> QED BY <2>2, <2>3
<1> QED BY <1>1, <1>2, <1>3

\* The text of the queue and how far it is.
LEMMA TextKept ==
    ASSUME NEW s \in Input
    PROVE  /\ s.text \in Texts \cup {<<>>} /\ s.offset \in Nat /\ s.timer \in Nat
           /\ s.held \in HeldKeys
BY DEF Input

\* The queue waits, lets go, or presses the next character.
LEMMA TickIs ==
    ASSUME NEW s \in Input
    PROVE  \/ ~paste_active(s) /\ paste_tick(s) = s
           \/ /\ paste_active(s) /\ s.timer > 0
              /\ paste_tick(s) = WithText(s, s.text, s.offset, s.timer - 1)
           \/ /\ paste_active(s) /\ s.held # NotHeld
              /\ LET next == [release_held(s) EXCEPT !.offset = release_held(s).offset + 1]
                 IN  paste_tick(s) = IF paste_active(next)
                                     THEN [next EXCEPT !.timer = GAP_FRAMES]
                                     ELSE clear_text(next)
           \/ paste_active(s) /\ s.held = NotHeld /\ paste_tick(s) = PressNext(s)
<1> DEFINE next == [release_held(s) EXCEPT !.offset = release_held(s).offset + 1]
           b == paste_active(s)
           freed == IF paste_active(next) THEN [next EXCEPT !.timer = GAP_FRAMES]
                    ELSE clear_text(next)
           less == [s EXCEPT !.timer = s.timer - 1]
           press == PressNext(s)
<1>1. paste_tick(s) = CASE ~b -> s
                        [] b /\ s.timer > 0 -> less
                        [] b /\ s.timer = 0 /\ s.held # NotHeld -> freed
                        [] OTHER -> press
  BY Zenon DEF paste_tick
<1>2. s.timer \in Nat
  BY TextKept
<1>3. less = WithText(s, s.text, s.offset, s.timer - 1)
  BY DEF Input, WithText
<1> HIDE DEF freed, press, less, next
<1>4. b \in BOOLEAN
  BY DEF paste_active
<1> HIDE DEF b
<1>5. \/ ~b /\ paste_tick(s) = s
      \/ b /\ s.timer > 0 /\ paste_tick(s) = less
      \/ b /\ s.held # NotHeld /\ paste_tick(s) = freed
      \/ b /\ s.held = NotHeld /\ paste_tick(s) = press
  <2>1. CASE ~b
    BY <1>1, <2>1
  <2>2. CASE b /\ s.timer > 0
    BY <1>1, <1>2, <2>2
  <2>3. CASE b /\ s.timer = 0 /\ s.held # NotHeld
    BY <1>1, <2>3
  <2>4. CASE b /\ s.timer = 0 /\ s.held = NotHeld
    BY <1>1, <2>4
  <2> QED BY <1>2, <1>4, <2>1, <2>2, <2>3, <2>4
<1> QED BY <1>3, <1>5 DEF b, freed, press, next

\* The queue lets go of a character.
LEMMA CharacterFreed ==
    ASSUME KeyboardAssumption, NEW s, NEW c, Matrix(s, c), paste_active(s), NEW t,
           t = LET next == [release_held(s) EXCEPT !.offset = release_held(s).offset + 1]
               IN  IF paste_active(next) THEN [next EXCEPT !.timer = GAP_FRAMES]
                   ELSE clear_text(next)
    PROVE  /\ Matrix(t, c) /\ t.down = s.down /\ t.held = NotHeld
           /\ \/ t.text = s.text /\ t.offset = s.offset + 1 /\ t.offset <= Len(s.text)
              \/ t.text = <<>> /\ t.offset = 0 /\ s.offset + 1 = Len(s.text)
<1> DEFINE r == release_held(s)
           next == [r EXCEPT !.offset = r.offset + 1]
           gap == [next EXCEPT !.timer = GAP_FRAMES]
           n == s.offset
<1>1. /\ Matrix(r, c) /\ r.held = NotHeld /\ r.down = s.down
      /\ r.text = s.text /\ r.offset = s.offset /\ r.timer = s.timer
  BY HeldReleased
<1> HIDE DEF r
<1>2. r \in Input /\ s \in Input
  BY <1>1, MatrixTyped
<1>3. s.text \in Texts \cup {<<>>} /\ n \in Nat /\ Len(s.text) \in Nat /\ n < Len(s.text)
  BY <1>2, TextKept, TextsKnown DEF paste_active
<1>4. next.text = s.text /\ next.offset = n + 1
  BY <1>1, <1>2 DEF Input
<1>5. t = IF paste_active(next) THEN gap ELSE clear_text(next)
  BY DEF r
<1>6. /\ gap = WithText(r, s.text, n + 1, GAP_FRAMES)
      /\ clear_text(next) = WithText(r, <<>>, 0, 0)
  BY <1>1, <1>2 DEF Input, WithText, clear_text
<1>7. paste_active(next) <=> n + 1 < Len(s.text)
  BY <1>4 DEF paste_active
<1> HIDE DEF next, gap
<1>8. CASE paste_active(next)
  <2> DEFINE text == s.text
             m == n + 1
             g == GAP_FRAMES
             u == WithText(r, text, m, g)
  <2>1. t = u
    BY <1>5, <1>6, <1>8
  <2>2. text \in Texts \cup {<<>>} /\ m \in Nat /\ g \in Nat
    BY <1>3 DEF GAP_FRAMES
  <2> HIDE DEF text, m, g
  <2>3. /\ Matrix(u, c) /\ u.down = r.down /\ u.held = r.held /\ u.text = text
        /\ u.offset = m
    BY <1>1, <2>2, TextCleared
  <2> HIDE DEF u
  <2>4. m <= Len(s.text)
    BY <1>3, <1>7, <1>8 DEF m
  <2> QED BY <1>1, <2>1, <2>3, <2>4 DEF text, m
<1>9. CASE ~paste_active(next)
  <2> DEFINE u == WithText(r, <<>>, 0, 0)
  <2>1. t = u
    BY <1>5, <1>6, <1>9
  <2>2. /\ Matrix(u, c) /\ u.down = r.down /\ u.held = r.held /\ u.text = <<>>
        /\ u.offset = 0
    <3>1. Matrix(r, c)
      BY <1>1
    <3> QED BY ONLY <3>1, TextCleared
  <2> HIDE DEF u
  <2>3. n + 1 = Len(s.text)
    BY <1>3, <1>7, <1>9
  <2> QED BY <1>1, <2>1, <2>2, <2>3
<1> QED BY <1>8, <1>9

\* The queue presses the next character, or has none.
LEMMA NextPressed ==
    ASSUME KeyboardAssumption, NEW s, NEW c, Matrix(s, c), paste_active(s),
           s.held = NotHeld
    PROVE  LET at == NextCharacter(s)
               t == PressNext(s)
           IN  /\ Matrix(t, c) /\ t.down = s.down
               /\ \/ /\ at = Len(s.text) /\ t.text = <<>> /\ t.offset = 0
                     /\ t.held = NotHeld
                  \/ /\ at \in s.offset .. (Len(s.text) - 1)
                     /\ s.text[at + 1] \in DOMAIN keymap
                     /\ t.text = s.text /\ t.offset = at
                     /\ t.held = keymap[s.text[at + 1]] /\ t.held # NotHeld
<1> DEFINE at == NextCharacter(s)
           t == PressNext(s)
           key == keymap[s.text[at + 1]]
           shifted == IF key.shift THEN msx_keyboard_press(s, "SHIFT") ELSE s
           pressed == msx_keyboard_press(shifted, key.position)
           v == [pressed EXCEPT !.offset = at, !.held = key, !.timer = HOLD_FRAMES]
<1>1. s \in Input /\ s.offset \in Nat /\ Len(s.text) \in Nat
  BY MatrixTyped, TextKept, TextsKnown
<1>2. /\ at \in s.offset .. Len(s.text)
      /\ at # Len(s.text) => s.text[at + 1] \in DOMAIN keymap
  BY <1>1, NextIs
<1>3. t = IF at = Len(s.text) THEN clear_text(s) ELSE v
  BY Zenon DEF PressNext
<1>4. v = WithHeld(pressed, at, key, HOLD_FRAMES)
  BY Zenon DEF WithHeld
<1>5. clear_text(s) = WithText(s, <<>>, 0, 0)
  BY Zenon DEF clear_text, WithText
<1> HIDE DEF at, t, v
<1>6. CASE at = Len(s.text)
  <2> DEFINE u == WithText(s, <<>>, 0, 0)
  <2>1. t = u
    BY <1>3, <1>5, <1>6
  <2>2. /\ Matrix(u, c) /\ u.down = s.down /\ u.held = s.held /\ u.text = <<>>
        /\ u.offset = 0
    BY TextCleared
  <2> HIDE DEF u
  <2> QED BY <1>6, <2>1, <2>2 DEF at, t
<1>7. CASE at # Len(s.text)
  <2>1. s.text[at + 1] \in DOMAIN keymap /\ at \in Nat /\ at \in s.offset .. (Len(s.text) - 1)
    BY <1>1, <1>2, <1>7
  <2>2. key \in HeldKeys /\ key # NotHeld
    BY <2>1, StrokeKnown
  <2>3. t = WithHeld(pressed, at, key, HOLD_FRAMES)
    BY <1>3, <1>4, <1>7
  <2> HIDE DEF key
  <2>4. /\ Matrix(t, c) /\ t.down = s.down /\ t.text = s.text /\ t.offset = at
        /\ t.held = key
    BY <2>1, <2>2, <2>3, CharacterPressed
  <2> QED BY <2>1, <2>2, <2>4 DEF at, t, key
<1> QED BY <1>6, <1>7

\* The queue keeps the matrix, and goes through its text without a loss.
LEMMA TickWorks ==
    ASSUME KeyboardAssumption, NEW s, NEW c, Matrix(s, c)
    PROVE  Matrix(paste_tick(s), c) /\ paste_tick(s).down = s.down
<1> DEFINE t == paste_tick(s)
           next == [release_held(s) EXCEPT !.offset = release_held(s).offset + 1]
           freed == IF paste_active(next) THEN [next EXCEPT !.timer = GAP_FRAMES]
                    ELSE clear_text(next)
<1>1. s \in Input
  BY MatrixTyped
<1>2. \/ ~paste_active(s) /\ t = s
      \/ /\ paste_active(s) /\ s.timer > 0
         /\ t = WithText(s, s.text, s.offset, s.timer - 1)
      \/ paste_active(s) /\ s.held # NotHeld /\ t = freed
      \/ paste_active(s) /\ s.held = NotHeld /\ t = PressNext(s)
  BY <1>1, TickIs
<1> HIDE DEF t
<1>3. CASE t = s
  BY <1>3 DEF t
<1>4. CASE s.timer > 0 /\ t = WithText(s, s.text, s.offset, s.timer - 1)
  <2> DEFINE text == s.text
             n == s.offset
             m == s.timer - 1
             u == WithText(s, text, n, m)
  <2>1. text \in Texts \cup {<<>>} /\ n \in Nat /\ m \in Nat
    BY <1>1, <1>4, TextKept
  <2>2. t = u
    BY <1>4
  <2> HIDE DEF text, n, m
  <2>3. Matrix(u, c) /\ u.down = s.down
    <3>1. Matrix(s, c)
      OBVIOUS
    <3> QED BY ONLY <2>1, <3>1, TextCleared
  <2> HIDE DEF u
  <2> QED BY <2>2, <2>3 DEF t
<1>5. CASE paste_active(s) /\ t = freed
  BY <1>5, CharacterFreed DEF t
<1>6. CASE paste_active(s) /\ s.held = NotHeld /\ t = PressNext(s)
  <2>1. Matrix(PressNext(s), c) /\ PressNext(s).down = s.down
    BY <1>6, NextPressed
  <2> QED BY <1>6, <2>1 DEF t
<1> QED BY <1>2, <1>3, <1>4, <1>5, <1>6

\* Where no position is pressed anew, the guest sees no stroke.
LEMMA NoStroke ==
    ASSUME NEW seen, NEW rows, rows \subseteq seen, NEW typed \in Seq(StrokeSet)
    PROVE  typed \o StrokesOf(seen, rows) = typed
<1>1. (rows \ seen) \ Modifiers = {}
  OBVIOUS
<1>2. StrokesOf(seen, rows) = <<>>
  BY <1>1 DEF StrokesOf
<1>3. typed \o <<>> = typed
  OBVIOUS
<1> QED BY <1>2, <1>3

\* A character pressed on a free matrix is its stroke.
LEMMA OneStroke ==
    ASSUME NEW ch \in DOMAIN keymap, NEW rows,
           rows = {keymap[ch].position} \cup (IF keymap[ch].shift THEN {"SHIFT"} ELSE {})
    PROVE  StrokesOf({}, rows) = <<Stroke(ch)>>
<1> DEFINE p == keymap[ch].position
           shift == keymap[ch].shift
           fresh == (rows \ {}) \ Modifiers
<1>1. p \in {"RETURN", "V"} /\ shift \in BOOLEAN
  BY StrokeKnown
<1>2. rows = {p} \cup (IF shift THEN {"SHIFT"} ELSE {})
  OBVIOUS
<1>3. Stroke(ch) = [keys |-> {p}, with |-> IF shift THEN {"SHIFT"} ELSE {}]
  BY Zenon DEF Stroke
<1> HIDE DEF p, shift
<1>4. fresh = {p} /\ fresh # {} /\ rows \cap Modifiers = IF shift THEN {"SHIFT"} ELSE {}
  BY <1>1, <1>2 DEF Modifiers
<1> HIDE DEF fresh
<1>5. StrokesOf({}, rows) = <<[keys |-> fresh, with |-> rows \cap Modifiers]>>
  BY <1>4 DEF StrokesOf, fresh
<1> QED BY <1>3, <1>4, <1>5

\* A tick of an undisturbed queue types on in its text.
LEMMA TickTypes ==
    ASSUME KeyboardAssumption, NEW s, Matrix(s, {}), s.down = {}, NEW text \in Texts,
           NEW typed, InPaste(s, text, typed)
    PROVE  /\ InPaste(paste_tick(s), text, typed \o StrokesOf(s.rows, paste_tick(s).rows))
           /\ typed \in Seq(StrokeSet)
<1> DEFINE t == paste_tick(s)
           next == [release_held(s) EXCEPT !.offset = release_held(s).offset + 1]
           freed == IF paste_active(next) THEN [next EXCEPT !.timer = GAP_FRAMES]
                    ELSE clear_text(next)
           L == Len(text)
           u == StrokesUpTo(text)
           more == StrokesOf(s.rows, t.rows)
<1>1. /\ s \in Input /\ L \in Nat /\ s.offset \in Nat /\ s.timer \in Nat
      /\ s.held \in HeldKeys
  BY MatrixTyped, TextKept, TextsKnown
<1>2. /\ u[0] = <<>> /\ \A n \in 1 .. L : u[n] = Grown(text, u[n - 1], n)
      /\ \A n \in 0 .. L : u[n] \in Seq(StrokeSet)
  BY <1>1, StrokesAre
<1>3. typed \in Seq(StrokeSet)
  <2>1. CASE s.text = text /\ s.offset \in 0 .. L /\ s.held = NotHeld /\ typed = u[s.offset]
    BY <1>2, <2>1
  <2>2. CASE s.offset < L /\ typed = u[s.offset + 1]
    <3>1. s.offset + 1 \in 0 .. L
      BY <1>1, <2>2
    <3> QED BY <1>2, <2>2, <3>1
  <2>3. CASE typed = u[L]
    <3>1. L \in 0 .. L
      BY <1>1
    <3> QED BY <1>2, <2>3, <3>1
  <2> QED BY <2>1, <2>2, <2>3 DEF InPaste
<1>4. Matrix(t, {}) /\ t.down = {}
  BY TickWorks
<1>5. s.rows = PasteHolds(s) /\ t.rows = PasteHolds(t)
  BY <1>4, RowsAre
<1>6. \/ ~paste_active(s) /\ t = s
      \/ /\ paste_active(s) /\ s.timer > 0
         /\ t = WithText(s, s.text, s.offset, s.timer - 1)
      \/ paste_active(s) /\ s.held # NotHeld /\ t = freed
      \/ paste_active(s) /\ s.held = NotHeld /\ t = PressNext(s)
  BY <1>1, TickIs
<1> HIDE DEF t, u
<1>7. ASSUME t.text = s.text, t.offset = s.offset, t.held = s.held
      PROVE  InPaste(t, text, typed \o more)
  <2>1. t.rows = s.rows
    BY <1>5, <1>7 DEF PasteHolds
  <2>2. typed \o more = typed
    BY <1>3, <2>1, NoStroke
  <2>3. InPaste(t, text, typed)
    BY <1>7 DEF InPaste
  <2> QED BY <2>2, <2>3
<1>8. ASSUME t.held = NotHeld
      PROVE  typed \o more = typed
  <2>1. t.rows = {}
    BY <1>5, <1>8 DEF PasteHolds, NotHeld
  <2>2. t.rows \subseteq s.rows
    BY <2>1
  <2> QED BY <1>3, <2>2, NoStroke
<1>9. paste_active(s) => s.text = text
  <2>1. s.text = <<>> => ~paste_active(s)
    BY <1>1 DEF paste_active
  <2> QED BY <2>1 DEF InPaste
<1>10. CASE t = s
  <2>1. t.text = s.text /\ t.offset = s.offset /\ t.held = s.held
    BY <1>10
  <2> QED BY <1>3, <1>7, <2>1 DEF t
<1>11. CASE s.timer > 0 /\ t = WithText(s, s.text, s.offset, s.timer - 1)
  <2>1. t.text = s.text /\ t.offset = s.offset /\ t.held = s.held
    BY <1>1, <1>11 DEF WithText, Input
  <2> QED BY <1>3, <1>7, <2>1 DEF t
<1>12. CASE paste_active(s) /\ s.held # NotHeld /\ t = freed
  <2>1. /\ t.held = NotHeld
        /\ \/ t.text = s.text /\ t.offset = s.offset + 1 /\ t.offset <= Len(s.text)
           \/ t.text = <<>> /\ t.offset = 0 /\ s.offset + 1 = Len(s.text)
    BY <1>12, CharacterFreed
  <2>2. s.text = text /\ typed = u[s.offset + 1]
    BY <1>9, <1>12 DEF InPaste, u
  <2>3. typed \o more = typed
    BY <1>8, <2>1
  <2>4. CASE t.text = s.text /\ t.offset = s.offset + 1 /\ t.offset <= Len(s.text)
    <3>1. t.offset \in 0 .. L /\ typed = u[t.offset]
      BY <1>1, <2>2, <2>4
    <3>2. InPaste(t, text, typed)
      BY <2>1, <2>2, <2>4, <3>1 DEF InPaste, u
    <3> QED BY <1>3, <2>3, <3>2 DEF t
  <2>5. CASE t.text = <<>> /\ t.offset = 0 /\ s.offset + 1 = Len(s.text)
    <3>1. InPaste(t, text, typed)
      BY <2>1, <2>2, <2>5 DEF InPaste, u
    <3> QED BY <1>3, <2>3, <3>1 DEF t
  <2> QED BY <2>1, <2>4, <2>5
<1>13. CASE paste_active(s) /\ s.held = NotHeld /\ t = PressNext(s)
  <2> DEFINE at == NextCharacter(s)
  <2>1. /\ at \in s.offset .. L
        /\ \A j \in s.offset .. (at - 1) : text[j + 1] \notin DOMAIN keymap
    BY <1>1, <1>9, <1>13, NextIs
  <2>2. \/ at = L /\ t.text = <<>> /\ t.offset = 0 /\ t.held = NotHeld
        \/ /\ at \in s.offset .. (L - 1) /\ text[at + 1] \in DOMAIN keymap
           /\ t.text = text /\ t.offset = at
           /\ t.held = keymap[text[at + 1]] /\ t.held # NotHeld
    BY <1>9, <1>13, NextPressed
  <2>3. typed = u[s.offset] /\ s.offset \in 0 .. L /\ s.text = text
    BY <1>1, <1>9, <1>13 DEF InPaste, u, paste_active
  <2> HIDE DEF at
  <2>4. u[at] = typed
    BY <1>1, <2>1, <2>3, StrokesGrow DEF u
  <2>5. CASE at = L /\ t.text = <<>> /\ t.offset = 0 /\ t.held = NotHeld
    <3>1. typed \o more = typed
      BY <1>8, <2>5
    <3>2. InPaste(t, text, typed)
      BY <2>4, <2>5 DEF InPaste, u
    <3> QED BY <1>3, <3>1, <3>2 DEF t
  <2>6. CASE /\ at \in s.offset .. (L - 1) /\ text[at + 1] \in DOMAIN keymap
             /\ t.text = text /\ t.offset = at
             /\ t.held = keymap[text[at + 1]] /\ t.held # NotHeld
    <3>1. at \in Nat /\ at < L /\ at + 1 \in 1 .. L /\ (at + 1) - 1 = at /\ at \in 0 .. L
      BY <1>1, <2>6
    <3>2. s.rows = {}
      BY <1>5, <1>13 DEF PasteHolds, NotHeld
    <3>3. t.rows = {keymap[text[at + 1]].position}
                      \cup (IF keymap[text[at + 1]].shift THEN {"SHIFT"} ELSE {})
      BY <1>5, <2>6 DEF PasteHolds
    <3>4. more = <<Stroke(text[at + 1])>>
      BY <2>6, <3>2, <3>3, OneStroke
    <3>5. u[at + 1] = Append(typed, Stroke(text[at + 1]))
      BY <1>2, <2>4, <2>6, <3>1 DEF Grown
    <3>6. Stroke(text[at + 1]) \in StrokeSet
      BY <2>6, StrokeKnown
    <3> DEFINE st == Stroke(text[at + 1])
    <3>7. Append(typed, st) = typed \o <<st>>
      <4> HIDE DEF st
      <4> QED OBVIOUS
    <3>8. typed \o more = u[at + 1]
      BY <3>4, <3>5, <3>7
    <3> HIDE DEF more
    <3>9. InPaste(t, text, typed \o more)
      BY <2>6, <3>1, <3>8 DEF InPaste, u
    <3> QED BY <1>3, <3>9 DEF t, more
  <2> QED BY <2>2, <2>5, <2>6
<1> QED BY <1>6, <1>10, <1>11, <1>12, <1>13

\* What the watch knows.
WatchSet == [alone : BOOLEAN, text : Texts \cup {<<>>}, typed : Seq(StrokeSet),
             seen : SUBSET Positions]

\* No key disturbs a paste: it has the matrix for itself.
ByItself(s, w, c, l, seer) ==
    /\ ~w.visible /\ s.down = {} /\ c = {} /\ l \in {"v", "none"}
    /\ seer.text \in Texts /\ seer.seen = s.rows
    /\ InPaste(s, seer.text, seer.typed)

\* The inductive invariant of the keyboard.
KeysInv ==
    /\ Matrix(input, cut)
    /\ window \in [visible : BOOLEAN, captured : BOOLEAN, paused : BOOLEAN]
    /\ fingers \subseteq Key /\ input.down \subseteq fingers /\ last \in Key \cup {"none"}
    /\ window.visible => input.down = {}
    /\ watch \in WatchSet
    /\ watch.alone => ByItself(input, window, cut, last, watch)

\* It implies what the run checks.
LEMMA KeysInvSays == KeyboardAssumption /\ KeysInv => KeysTrue
<1> SUFFICES ASSUME KeyboardAssumption, KeysInv PROVE KeysTrue
  OBVIOUS
<1>1. /\ Matrix(input, cut) /\ input \in Input /\ input.down \in SUBSET Key
      /\ Fits(input, cut, Needs(input)) /\ input.rows \subseteq Positions
      /\ fingers \in SUBSET Key /\ input.down \subseteq fingers
  BY MatrixTyped DEF KeysInv, Input
<1>2. NothingSticks
  <2>1. input.rows = {p \in Positions : input.refs[p] > 0}
    BY <1>1 DEF Fits
  <2>2. ASSUME NEW p \in Positions
        PROVE  /\ input.refs[p] <= Held(fingers, p) + Pasted(p)
               /\ p \in cut \/ input.refs[p] =
                     (IF p = "SHIFT" /\ input.guest_special_count > 0
                      THEN 0 ELSE Held(input.down, p)) + Pasted(p)
    <3>1. /\ Held(fingers, p) = Count(fingers, p)
          /\ Held(input.down, p) = Count(input.down, p)
      BY <1>1, HeldIs
    <3>2. Count(input.down, p) <= Count(fingers, p) /\ Count(fingers, p) \in 0 .. 2
      <4>1. Count(fingers, p) \in 0 .. 2
        BY CountsSmall
      <4> QED BY <1>1, <4>1 DEF Count, Positions
    <3>3. Needs(input)[p] = ByKeys(input, p) + Pasted(p)
      BY DEF Needs, Pressing, Pasted
    <3>4. /\ ByKeys(input, p) = IF p = "SHIFT" /\ input.guest_special_count > 0
                                THEN 0 ELSE Count(input.down, p)
          /\ ByKeys(input, p) \in 0 .. 2
      BY <1>1, NeedsAre DEF ByKeys
    <3>5. input.refs[p] <= Needs(input)[p] /\ (p \in cut \/ input.refs[p] = Needs(input)[p])
      BY <1>1 DEF Fits
    <3>6. Pasted(p) \in 0 .. 1 /\ input.refs[p] \in Nat
      BY <1>1 DEF Pasted, Input
    <3>7. ByKeys(input, p) <= Count(fingers, p)
      BY <3>2, <3>4
    <3> QED BY <3>1, <3>2, <3>3, <3>4, <3>5, <3>6, <3>7
  <2> QED BY <2>1, <2>2 DEF NothingSticks
<1>3. PastesItsText
  <2> SUFFICES ASSUME watch.alone
               PROVE  LET whole == Strokable(watch.text)
                      IN  /\ Len(watch.typed) <= Len(whole)
                          /\ watch.typed = SubSeq(whole, 1, Len(watch.typed))
                          /\ ~paste_active(input) => watch.typed = whole
    BY DEF PastesItsText
  <2> DEFINE text == watch.text
             typed == watch.typed
             L == Len(text)
             u == StrokesUpTo(text)
  <2>1. text \in Texts /\ InPaste(input, text, typed)
    BY DEF KeysInv, ByItself
  <2>2. L \in Nat
    BY <2>1, TextsKnown
  <2>3. Strokable(watch.text) = u[L]
    BY DEF Strokable
  <2> HIDE DEF text, typed
  <2>4. PICK n \in 0 .. L : typed = u[n] /\ (~paste_active(input) => n = L)
    <3>1. CASE input.text = text /\ input.offset \in 0 .. L /\ input.held = NotHeld
               /\ typed = u[input.offset]
      <4>1. ~paste_active(input) => input.offset = L
        BY <2>2, <3>1 DEF paste_active
      <4> QED BY <3>1, <4>1
    <3>2. CASE input.text = text /\ input.offset \in 0 .. L /\ input.offset < L
               /\ typed = u[input.offset + 1]
      <4>1. paste_active(input) /\ input.offset + 1 \in 0 .. L
        BY <2>2, <3>2 DEF paste_active
      <4> QED BY <3>2, <4>1
    <3>3. CASE typed = u[L]
      <4>1. L \in 0 .. L
        BY <2>2
      <4> QED BY <3>3, <4>1
    <3> QED BY <2>1, <3>1, <3>2, <3>3 DEF InPaste
  <2>5. L \in n .. L
    BY <2>2, <2>4
  <2>6. Len(u[n]) <= Len(u[L]) /\ u[n] = SubSeq(u[L], 1, Len(u[n]))
    BY <2>2, <2>4, <2>5, StrokesGrow
  <2> HIDE DEF u
  <2> QED BY <2>3, <2>4, <2>6 DEF typed
<1> QED BY <1>2, <1>3 DEF KeysTrue

\* It holds initially.
LEMMA KeysStart == KeyboardInit => KeysInv
<1> SUFFICES ASSUME KeyboardInit PROVE KeysInv
  OBVIOUS
<1> DEFINE none == [p \in Positions |-> 0]
<1>1. /\ input.down = {} /\ input.guest_special = {} /\ input.guest_special_count = 0
      /\ input.rows = {} /\ input.refs = none /\ input.text = <<>> /\ input.offset = 0
      /\ input.timer = 0 /\ input.held = NotHeld
  BY DEF KeyboardInit
<1>2. input \in Input
  <2>1. none \in [Positions -> Nat] /\ NotHeld \in HeldKeys
    BY DEF HeldKeys
  <2>2. input = [down |-> {}, guest_special |-> {}, guest_special_count |-> 0,
                 rows |-> {}, refs |-> none,
                 text |-> <<>>, offset |-> 0, timer |-> 0, held |-> NotHeld]
    BY DEF KeyboardInit
  <2> HIDE DEF none
  <2> QED BY <2>1, <2>2 DEF Input
<1>3. \A p \in Positions : Needs(input)[p] = 0
  <2> TAKE p \in Positions
  <2>1. ByKeys(input, p) = 0
    <3>1. Count({}, p) = 0
      BY DEF Count, Positions
    <3> QED BY <1>1, <3>1 DEF ByKeys
  <2>2. Needs(input)[p] = ByKeys(input, p)
    BY <1>1, <1>2, NeedsAre
  <2> QED BY <2>1, <2>2
<1>4. Fits(input, cut, Needs(input))
  BY <1>1, <1>2, <1>3 DEF Fits
<1>5. cut = {} /\ input.guest_special = input.down \cap {"f7"} /\ "f7" \notin input.down
  BY <1>1 DEF KeyboardInit
<1>6. Matrix(input, cut)
  BY <1>1, <1>4, <1>5 DEF Matrix
<1>7. watch \in WatchSet /\ ~watch.alone
  BY DEF KeyboardInit, Undisturbed, WatchSet
<1> QED BY <1>1, <1>6, <1>7 DEF KeysInv, KeyboardInit

\* A watch that begins, or has nothing to see.
LEMMA FreshWatch == Undisturbed \in WatchSet /\ ~Undisturbed.alone
BY DEF Undisturbed, WatchSet

\* A key that the user presses.
LEMMA PressIs ==
    ASSUME NEW k \in Key, Press(k), KeysInv
    PROVE  /\ fingers' \subseteq Key /\ fingers \subseteq fingers' /\ k \in fingers'
           /\ last' \in Key \cup {"none"} /\ last' = k
BY DEF Press, KeysInv

\* Ctrl+Return gives the mouse back: all keys go, the hold of the queue is cut.
LEMMA MouseGone ==
    ASSUME KeysInv, LetMouseGo
    PROVE  /\ Matrix(input', cut') /\ input'.down = {} /\ window'.visible = window.visible
           /\ window' \in [visible : BOOLEAN, captured : BOOLEAN, paused : BOOLEAN]
<1>1. Matrix(input, cut) /\ window \in [visible : BOOLEAN, captured : BOOLEAN, paused : BOOLEAN]
  BY DEF KeysInv
<1>2. /\ input' = kbd_release_all(input) /\ cut' = cut \cup PasteHolds(input)
      /\ window' = [window EXCEPT !.captured = FALSE]
  BY DEF LetMouseGo
<1>3. Matrix(input', cut') /\ input'.down = {}
  BY <1>1, <1>2, AllReleased
<1> QED BY <1>1, <1>2, <1>3

\* Each action keeps the invariant: a key that the settings take,
LEMMA KeyToSettingsKeeps ==
    ASSUME KeysInv, NEW k \in Key, KeyToSettings(k)
    PROVE  KeysInv'
<1>1. /\ fingers' \subseteq Key /\ fingers \subseteq fingers'
      /\ last' \in Key \cup {"none"}
  BY PressIs DEF KeyToSettings
<1>2. ~watch.alone
  BY DEF KeysInv, ByItself, KeyToSettings
<1> QED BY <1>1, <1>2 DEF KeysInv, KeyToSettings

\* the paste chord, with a text or without,
LEMMA PasteChordKeeps ==
    ASSUME KeyboardAssumption, KeysInv, NEW k \in Key, PasteChord(k)
    PROVE  KeysInv'
<1>1. /\ fingers' \subseteq Key /\ fingers \subseteq fingers'
      /\ last' \in Key \cup {"none"} /\ last' = "v"
  BY PressIs DEF PasteChord, IsPaste
<1>2. /\ ~window.visible /\ window' = window
      /\ window \in [visible : BOOLEAN, captured : BOOLEAN, paused : BOOLEAN]
      /\ Matrix(input, cut)
  BY DEF PasteChord, KeysInv
<1>3. ASSUME NEW text \in Texts, input' = paste_start(kbd_release_all(input), text),
             cut' = {}, watch' = [Undisturbed EXCEPT !.alone = TRUE, !.text = text]
      PROVE  KeysInv'
  <2>1. /\ Matrix(input', {}) /\ input'.down = {} /\ input'.held = NotHeld
        /\ input'.text = text /\ input'.offset = 0
    BY <1>2, <1>3, PasteStarted
  <2>2. /\ watch' \in WatchSet /\ watch'.text = text /\ watch'.typed = <<>>
        /\ watch'.seen = {} /\ watch'.alone
    <3> DEFINE w == [alone |-> TRUE, text |-> text, typed |-> <<>>, seen |-> {}]
    <3>1. watch' = w
      BY <1>3 DEF Undisturbed
    <3>2. <<>> \in Seq(StrokeSet) /\ {} \in SUBSET Positions
      OBVIOUS
    <3>3. /\ w \in WatchSet /\ w.text = text /\ w.typed = <<>> /\ w.seen = {} /\ w.alone
      BY <3>2 DEF WatchSet
    <3> HIDE DEF w
    <3> QED BY <3>1, <3>3
  <2>3. input'.rows = {}
    <3>1. input'.rows = PasteHolds(input')
      BY <2>1, RowsAre
    <3> QED BY <2>1, <3>1 DEF PasteHolds, NotHeld
  <2>4. InPaste(input', text, <<>>)
    <3>1. Len(text) \in Nat
      BY TextsKnown
    <3>2. StrokesUpTo(text)[0] = <<>> /\ 0 \in 0 .. Len(text)
      BY <3>1, StrokesAre
    <3> QED BY <2>1, <3>2 DEF InPaste
  <2>5. ByItself(input', window', cut', last', watch')
    BY <1>1, <1>2, <1>3, <2>1, <2>2, <2>3, <2>4 DEF ByItself
  <2> QED BY <1>1, <1>2, <1>3, <2>1, <2>2, <2>5 DEF KeysInv
<1>4. ASSUME input' = kbd_release_all(input), cut' = cut \cup PasteHolds(input),
             watch' = Undisturbed
      PROVE  KeysInv'
  <2>1. Matrix(input', cut') /\ input'.down = {}
    BY <1>2, <1>4, AllReleased
  <2> QED BY <1>1, <1>2, <1>4, <2>1, FreshWatch DEF KeysInv
<1> QED BY <1>3, <1>4 DEF PasteChord

\* a key down,
LEMMA KeyDownKeeps ==
    ASSUME KeysInv, NEW k \in Key, KeyDown(k)
    PROVE  KeysInv'
<1>1. /\ fingers' \subseteq Key /\ fingers \subseteq fingers' /\ k \in fingers'
      /\ last' \in Key \cup {"none"}
  BY PressIs DEF KeyDown
<1>2. watch' \in WatchSet /\ ~watch'.alone /\ ~window.visible
  BY FreshWatch DEF KeyDown
<1>3. CASE LetMouseGo
  <2>1. /\ Matrix(input', cut') /\ input'.down = {} /\ window'.visible = window.visible
        /\ window' \in [visible : BOOLEAN, captured : BOOLEAN, paused : BOOLEAN]
    BY <1>3, MouseGone
  <2> QED BY <1>1, <1>2, <2>1 DEF KeysInv
<1>4. CASE /\ input' = kbd_handle(input, k, TRUE, Shift, FALSE)
           /\ UNCHANGED <<window, cut>>
  <2>1. PICK shift \in BOOLEAN : input' = kbd_handle(input, k, TRUE, shift, FALSE)
    <3>1. Shift \in BOOLEAN
      BY DEF Shift
    <3> QED BY <1>4, <3>1
  <2>2. /\ Matrix(input', cut) /\ input'.down \subseteq input.down \cup {k}
    BY <2>1, KeyGoesDown DEF KeysInv
  <2> QED BY <1>1, <1>2, <1>4, <2>2 DEF KeysInv
<1> QED BY <1>3, <1>4 DEF KeyDown

\* A repeated key, the function key apart, does nothing.
LEMMA RepeatIgnored ==
    ASSUME NEW s, NEW k \in Key, k # "f7", NEW shift \in BOOLEAN
    PROVE  kbd_handle(s, k, TRUE, shift, TRUE) = s
<1>1. k \notin DOMAIN guest_function_position
  BY PositionsKnown
<1> QED BY <1>1 DEF kbd_handle

\* a repeated key,
LEMMA KeyRepeatKeeps ==
    ASSUME KeysInv, KeyRepeat
    PROVE  KeysInv'
<1>1. /\ last \in fingers /\ last \in Key /\ ~window.visible
      /\ fingers' = fingers /\ last' = last /\ watch' = watch
  BY DEF KeyRepeat, KeysInv
<1>2. CASE EndsCapture(last)
  <2>1. /\ Matrix(input', cut') /\ input'.down = {} /\ window'.visible = window.visible
        /\ window' \in [visible : BOOLEAN, captured : BOOLEAN, paused : BOOLEAN]
    BY <1>2, MouseGone DEF KeyRepeat
  <2>2. last = "return"
    BY <1>2 DEF EndsCapture
  <2>3. ~watch.alone
    BY <2>2 DEF KeysInv, ByItself
  <2> QED BY <1>1, <2>1, <2>3 DEF KeysInv
<1>3. CASE ~EndsCapture(last)
  <2>1. PICK shift \in BOOLEAN : input' = kbd_handle(input, last, TRUE, shift, TRUE)
    <3>1. Shift \in BOOLEAN
      BY DEF Shift
    <3>2. input' = kbd_handle(input, last, TRUE, Shift, TRUE)
      BY <1>3 DEF KeyRepeat
    <3> QED BY <3>1, <3>2
  <2>2. /\ Matrix(input', cut) /\ input'.down \subseteq input.down \cup {last}
        /\ last # "f7" => input' = input
    <3>1. Matrix(input', cut) /\ input'.down \subseteq input.down \cup {last}
      BY <1>1, <2>1, KeyGoesDown DEF KeysInv
    <3>2. last # "f7" => input' = input
      BY <1>1, <2>1, RepeatIgnored
    <3> QED BY <3>1, <3>2
  <2>3. window' = window /\ cut' = cut
    BY <1>3 DEF KeyRepeat
  <2>4. watch.alone => input' = input
    <3>1. watch.alone => last = "v"
      BY <1>1 DEF KeysInv, ByItself, Key
    <3> QED BY <2>2, <3>1
  <2> QED BY <1>1, <2>2, <2>3, <2>4 DEF KeysInv
<1> QED BY <1>2, <1>3

\* a key up,
LEMMA KeyUpKeeps ==
    ASSUME KeysInv, NEW k \in Key, KeyUp(k)
    PROVE  KeysInv'
<1>1. /\ fingers' = fingers \ {k} /\ last' \in {last, "none"} /\ window' = window
      /\ cut' = cut /\ watch' = watch
  BY DEF KeyUp
<1>2. CASE window.visible
  <2>1. input' = input
    BY <1>2 DEF KeyUp
  <2> QED BY <1>1, <1>2, <2>1 DEF KeysInv, ByItself
<1>3. CASE ~window.visible
  <2>1. PICK shift \in BOOLEAN : input' = kbd_handle(input, k, FALSE, shift, FALSE)
    <3>1. Shift \in BOOLEAN
      BY DEF Shift
    <3>2. input' = kbd_handle(input, k, FALSE, Shift, FALSE)
      BY <1>3 DEF KeyUp
    <3> QED BY <3>1, <3>2
  <2>2. /\ Matrix(input', cut) /\ input'.down \subseteq input.down \ {k}
        /\ input.down = {} => input' = input
    BY <2>1, KeyGoesUp DEF KeysInv
  <2>3. watch.alone => input' = input
    BY <2>2 DEF KeysInv, ByItself
  <2>4. watch.alone => ByItself(input', window', cut', last', watch')
    BY <1>1, <2>3 DEF KeysInv, ByItself
  <2> QED BY <1>1, <1>3, <2>2, <2>4 DEF KeysInv
<1> QED BY <1>2, <1>3

\* All keys and the queue let go.
LEMMA AllGone ==
    ASSUME NEW s, NEW c, Matrix(s, c)
    PROVE  LET t == paste_cancel(kbd_release_all(s))
           IN  Matrix(t, {}) /\ t.down = {}
<1> DEFINE r == kbd_release_all(s)
           t == paste_cancel(r)
           d == c \cup PasteHolds(s)
<1>1. Matrix(r, d) /\ r.down = {}
  BY AllReleased
<1> HIDE DEF r, d
<1>2. Matrix(t, d) /\ t.held = NotHeld /\ t.down = {}
  BY <1>1, Cancelled
<1> HIDE DEF t
<1>3. Matrix(t, {}) /\ t.down = {}
  BY <1>2, NothingCut
<1> QED BY <1>3 DEF t, r

\* So they do in a reset.
LEMMA ResetGone ==
    ASSUME NEW s, NEW c, Matrix(s, c)
    PROVE  LET t == msx_keyboard_clear(kbd_release_all(paste_cancel(s)))
           IN  Matrix(t, {}) /\ t.down = {}
<1> DEFINE p == paste_cancel(s)
           none == [q \in Positions |-> 0]
           u == [p EXCEPT !.down = {}, !.guest_special = {}, !.guest_special_count = 0]
           r == [u EXCEPT !.rows = {}, !.refs = none]
           t == [r EXCEPT !.rows = {}, !.refs = none]
<1>1. kbd_release_all(p) = r /\ msx_keyboard_clear(r) = t
  BY Zenon DEF kbd_release_all, msx_keyboard_clear
<1>2. Matrix(p, c) /\ p.held = NotHeld
  BY Cancelled
<1>3. p \in Input
  BY <1>2, MatrixTyped
<1> HIDE DEF p
<1>4. Matrix(r, c \cup PasteHolds(p)) /\ r.down = {} /\ r.held = NotHeld
  BY <1>1, <1>2, AllReleased
<1>5. Matrix(r, {})
  BY <1>4, NothingCut
<1>6. t = r
  BY Zenon
<1> HIDE DEF r, t
<1> QED BY <1>1, <1>4, <1>5, <1>6 DEF p

\* the loss of the focus,
LEMMA FocusLostKeeps ==
    ASSUME KeysInv, FocusLost
    PROVE  KeysInv'
<1>1. Matrix(input', {}) /\ input'.down = {}
  BY AllGone DEF KeysInv, FocusLost
<1>2. window' \in [visible : BOOLEAN, captured : BOOLEAN, paused : BOOLEAN]
  BY DEF KeysInv, FocusLost
<1> QED BY <1>1, <1>2, FreshWatch DEF KeysInv, FocusLost

\* the settings that open,
LEMMA SettingsTakeKeep ==
    ASSUME KeysInv, SettingsTakeKeys
    PROVE  KeysInv'
<1>1. Matrix(input', {}) /\ input'.down = {}
  BY AllGone DEF KeysInv, SettingsTakeKeys
<1>2. window' \in [visible : BOOLEAN, captured : BOOLEAN, paused : BOOLEAN]
  BY DEF KeysInv, SettingsTakeKeys
<1> QED BY <1>1, <1>2, FreshWatch DEF KeysInv, SettingsTakeKeys

\* the settings that close,
LEMMA SettingsLeaveKeep ==
    ASSUME KeysInv, SettingsLeaveKeys
    PROVE  KeysInv'
<1>1. /\ window.visible /\ ~watch.alone /\ watch' = watch
      /\ window' \in [visible : BOOLEAN, captured : BOOLEAN, paused : BOOLEAN]
      /\ last' \in Key \cup {"none"}
  BY DEF KeysInv, SettingsLeaveKeys, ByItself
<1> QED BY <1>1 DEF KeysInv, SettingsLeaveKeys

\* a reset,
LEMMA ResetKeeps ==
    ASSUME KeysInv, ResetKeyboard
    PROVE  KeysInv'
<1>1. Matrix(input', {}) /\ input'.down = {}
  BY ResetGone DEF KeysInv, ResetKeyboard
<1>2. /\ window' \in [visible : BOOLEAN, captured : BOOLEAN, paused : BOOLEAN]
  BY DEF KeysInv, ResetKeyboard
<1> QED BY <1>1, <1>2, FreshWatch DEF KeysInv, ResetKeyboard

\* a click and the pause,
LEMMA ClickPauseKeep ==
    ASSUME KeysInv, Click \/ Pause
    PROVE  KeysInv'
<1>1. /\ ~window.visible /\ window'.visible = window.visible
      /\ window' \in [visible : BOOLEAN, captured : BOOLEAN, paused : BOOLEAN]
      /\ input' = input /\ fingers' = fingers /\ last' \in {last, "none"}
      /\ cut' = cut /\ watch' = watch
  BY DEF KeysInv, Click, Pause
<1>2. watch.alone => ByItself(input', window', cut', last', watch')
  BY <1>1 DEF KeysInv, ByItself
<1> QED BY <1>1, <1>2 DEF KeysInv

\* A cut position that nothing presses any more needs nothing.
LEMMA CutsEnd ==
    ASSUME NEW s, NEW c, Matrix(s, c), NEW d,
           d = {p \in c : \/ p \in PasteHolds(s)
                          \/ \E k \in s.down \cap DOMAIN regular_position :
                                 regular_position[k] = p}
    PROVE  Matrix(s, d)
<1>1. /\ s \in Input /\ s.down \in SUBSET Key /\ Fits(s, c, Needs(s))
      /\ c \subseteq {"SHIFT", "RETURN", "V"}
  BY MatrixTyped DEF Matrix
<1>2. ASSUME NEW p \in Positions, p \in c, p \notin d
      PROVE  s.refs[p] = Needs(s)[p]
  <2>1. p \notin PasteHolds(s) /\ p \in {"SHIFT", "RETURN", "V"}
    BY <1>1, <1>2
  <2>2. \A k \in s.down : k \in DOMAIN regular_position => regular_position[k] # p
    BY <1>2
  <2>3. /\ p = "SHIFT" => "lshift" \notin s.down /\ "rshift" \notin s.down
        /\ p = "RETURN" => "return" \notin s.down
        /\ p = "V" => "v" \notin s.down
    BY <2>2, PositionsKnown
  <2>4. Count(s.down, p) = 0
    BY <2>1, <2>3 DEF Count
  <2>5. ByKeys(s, p) = 0
    BY <2>4 DEF ByKeys
  <2>6. Needs(s)[p] = 0
    BY <2>1, <2>5 DEF Needs, Pressing
  <2>7. s.refs[p] \in Nat /\ s.refs[p] <= Needs(s)[p]
    BY <1>1 DEF Fits, Input
  <2> QED BY <2>6, <2>7
<1>3. Fits(s, d, Needs(s))
  BY <1>1, <1>2 DEF Fits
<1>4. d \subseteq c
  OBVIOUS
<1> QED BY <1>1, <1>3, <1>4 DEF Matrix

\* and a frame.
LEMMA FrameKeeps ==
    ASSUME KeyboardAssumption, KeysInv, Frame
    PROVE  KeysInv'
<1> DEFINE next == IF window.paused \/ window.visible THEN input ELSE paste_tick(input)
           left == {p \in cut : \/ p \in PasteHolds(next)
                                \/ \E k \in next.down \cap DOMAIN regular_position :
                                       regular_position[k] = p}
           seer == [watch EXCEPT !.typed = watch.typed \o StrokesOf(watch.seen, next.rows),
                                 !.seen = next.rows]
<1>1. /\ input' = next /\ cut' = left
      /\ watch' = IF window.paused \/ ~watch.alone THEN watch ELSE seer
      /\ window' = window /\ fingers' = fingers /\ last' = last
  BY DEF Frame, Scan, Strokes, StrokesOf
<1>2. Matrix(input, cut)
  BY DEF KeysInv
<1>3. Matrix(next, cut) /\ next.down = input.down
  BY <1>2, TickWorks
<1>4. watch.alone => ByItself(input, window, cut, last, watch)
  BY DEF KeysInv
<1>5. watch.alone /\ window.paused => next = input
  OBVIOUS
<1>6. watch.alone /\ ~window.paused => next = paste_tick(input)
  BY <1>4 DEF ByItself
<1> HIDE DEF next
<1>7. Matrix(next, left)
  BY <1>3, CutsEnd
<1>8. cut = {} => left = {}
  OBVIOUS
<1> HIDE DEF left
<1>9. CASE ~watch.alone
  <2>1. watch' = watch
    BY <1>1, <1>9
  <2> QED BY <1>1, <1>3, <1>7, <1>9, <2>1 DEF KeysInv
<1>10. CASE watch.alone /\ window.paused
  <2>1. watch' = watch /\ next = input
    BY <1>1, <1>5, <1>10
  <2>2. ByItself(next, window, left, last, watch)
    BY <1>4, <1>8, <1>10, <2>1 DEF ByItself
  <2> QED BY <1>1, <1>3, <1>7, <2>1, <2>2 DEF KeysInv
<1>11. CASE watch.alone /\ ~window.paused
  <2>1. /\ input.down = {} /\ cut = {} /\ watch.text \in Texts /\ watch.seen = input.rows
        /\ InPaste(input, watch.text, watch.typed) /\ Matrix(input, {})
    BY <1>2, <1>4, <1>11 DEF ByItself
  <2> DEFINE text == watch.text
             typed == watch.typed
             rows == next.rows
             more == StrokesOf(input.rows, rows)
             new == typed \o more
             v == [watch EXCEPT !.typed = new, !.seen = rows]
  <2>2. InPaste(next, text, new) /\ typed \in Seq(StrokeSet)
    BY <1>6, <1>11, <2>1, TickTypes
  <2>3. rows \in SUBSET Positions
    BY <1>3, MatrixTyped DEF Input
  <2>4. more \in Seq(StrokeSet)
    <3> DEFINE fresh == (rows \ input.rows) \ Modifiers
               with == rows \cap Modifiers
               stroke == [keys |-> fresh, with |-> with]
    <3>1. fresh \in SUBSET Positions /\ with \in SUBSET Positions
      BY <2>3
    <3>2. more = IF fresh = {} THEN <<>> ELSE <<stroke>>
      BY DEF StrokesOf
    <3> HIDE DEF fresh, with, more
    <3>3. stroke \in StrokeSet
      BY <3>1 DEF StrokeSet
    <3> HIDE DEF stroke
    <3>4. <<>> \in Seq(StrokeSet) /\ <<stroke>> \in Seq(StrokeSet)
      BY <3>3
    <3> QED BY <3>2, <3>4
  <2> HIDE DEF more
  <2>5. new \in Seq(StrokeSet)
    BY <2>2, <2>4
  <2>6. watch' = v
    BY <1>1, <1>11, <2>1 DEF more
  <2> HIDE DEF new
  <2>7. v \in WatchSet /\ v.alone = watch.alone /\ v.text = text /\ v.typed = new /\ v.seen = rows
    <3>1. watch \in WatchSet
      BY DEF KeysInv
    <3> QED BY <2>3, <2>5, <3>1 DEF WatchSet
  <2> HIDE DEF v, text, rows
  <2>8. ByItself(next, window, left, last, v)
    BY <1>3, <1>4, <1>8, <1>11, <2>1, <2>2, <2>7 DEF ByItself, text, rows
  <2> QED BY <1>1, <1>3, <1>7, <2>6, <2>7, <2>8 DEF KeysInv
<1> QED BY <1>9, <1>10, <1>11

\* For any texts in the clipboard and any number of keys held: no key sticks in
\* the matrix and an undisturbed paste is its text (KeysTrue; kbd.c, paste.c).
THEOREM KeysAreTrue == ASSUME KeyboardAssumption PROVE KeyboardSpec => []KeysTrue
<1>1. KeyboardInit => KeysInv
  BY KeysStart
<1>2. KeysInv /\ [KeyboardNext]_keyvars => KeysInv'
  <2> SUFFICES ASSUME KeysInv, [KeyboardNext]_keyvars PROVE KeysInv'
    OBVIOUS
  <2>1. ASSUME NEW k \in Key, KeyToSettings(k) PROVE KeysInv'
    BY <2>1, KeyToSettingsKeeps
  <2>2. ASSUME NEW k \in Key, PasteChord(k) PROVE KeysInv'
    BY <2>2, PasteChordKeeps
  <2>3. ASSUME NEW k \in Key, KeyDown(k) PROVE KeysInv'
    BY <2>3, KeyDownKeeps
  <2>4. ASSUME NEW k \in Key, KeyUp(k) PROVE KeysInv'
    BY <2>4, KeyUpKeeps
  <2>5. CASE KeyRepeat
    BY <2>5, KeyRepeatKeeps
  <2>6. CASE FocusLost
    BY <2>6, FocusLostKeeps
  <2>7. CASE SettingsTakeKeys
    BY <2>7, SettingsTakeKeep
  <2>8. CASE SettingsLeaveKeys
    BY <2>8, SettingsLeaveKeep
  <2>9. CASE ResetKeyboard
    BY <2>9, ResetKeeps
  <2>10. CASE Click \/ Pause
    BY <2>10, ClickPauseKeep
  <2>11. CASE Frame
    BY <2>11, FrameKeeps
  <2>12. CASE UNCHANGED keyvars
    BY <2>12 DEF keyvars, KeysInv
  <2> QED BY <2>1, <2>2, <2>3, <2>4, <2>5, <2>6, <2>7, <2>8, <2>9, <2>10, <2>11, <2>12
          DEF KeyboardNext
<1>3. KeysInv => KeysTrue
  BY KeysInvSays
<1> QED BY <1>1, <1>2, <1>3, PTL DEF KeyboardSpec

---------------------------------------------------------------------------
(* The mouse (Mouse).                                                      *)

\* What one report holds.
Latched == -Largest..Largest

\* A byte and its nibbles, of which the guest makes it again, with its sign.
LEMMA Nibbles ==
    ASSUME MouseAssumption, NEW l \in Latched
    PROVE  /\ Byte \in Nat /\ Largest \in Nat
           /\ (l % Byte) \div Nibble \in Int /\ l % Nibble \in Int
           /\ Signed(((l % Byte) \div Nibble) * Nibble + (l % Nibble)) = l
<1>1. Nibble \in Nat /\ Nibble >= 2
  BY DEF MouseAssumption
<1> DEFINE n == Nibble
           b == n * n
<1>2. b \in Nat /\ b >= 4
  BY <1>1
<1>3. Byte = b /\ Largest = b \div 2 - 1
  BY DEF Byte, Largest
<1>4. n \in Nat /\ n >= 2
  BY <1>1
<1> HIDE DEF n
<1> DEFINE m == l % b
           q == m \div n
           r == l % n
           k == l \div b
<1>5. l \in Int /\ b \in Nat /\ b >= 4 /\ l >= -(b \div 2 - 1) /\ l <= b \div 2 - 1
  BY <1>2, <1>3 DEF Latched
<1>6. k \in Int /\ m \in Int /\ l = k * b + m /\ 0 <= m /\ m < b
  BY ONLY <1>5
<1> HIDE DEF m
<1>7. q \in Int /\ m = q * n + (m % n) /\ m % n \in 0..(n - 1)
  BY ONLY <1>4, <1>6
<1> HIDE DEF b, q, k
<1>8. r = m % n
  <2> DEFINE p == k * n + q
             t == m % n
  <2>1. l = p * n + t /\ p \in Int
    <3>1. n \in Int /\ k \in Int /\ q \in Int /\ t \in Int /\ l = k * b + (q * n + t)
      BY ONLY <1>4, <1>6, <1>7
    <3> HIDE DEF t
    <3>2. k * (n * n) + (q * n + t) = (k * n + q) * n + t
      BY ONLY <3>1
    <3> QED BY ONLY <3>1, <3>2 DEF b
  <2>2. t \in 0..(n - 1) /\ n \in Nat \ {0}
    BY <1>4, <1>7
  <2> HIDE DEF p, t
  <2>3. (p * n + t) % n = t
    BY ONLY <2>1, <2>2, Division
  <2> QED BY <2>1, <2>3 DEF t
<1>9. q * n + r = m
  BY <1>7, <1>8
<1>10. IF m > b \div 2 - 1 THEN m - b = l ELSE m = l
  <2>1. k = 0 \/ k = -1
    <3>1. k >= 1 => k * b >= b
      BY ONLY <1>5, <1>6
    <3>2. k <= -2 => k * b <= -2 * b
      BY ONLY <1>5, <1>6
    <3> QED BY ONLY <1>5, <1>6, <3>1, <3>2
  <2>2. CASE k = 0
    BY ONLY <1>5, <1>6, <2>2
  <2>3. CASE k = -1
    BY ONLY <1>5, <1>6, <2>3
  <2> QED BY <2>1, <2>2, <2>3
<1>11. r \in Int
  BY <1>7, <1>8
<1>12. Signed(q * n + r) = l
  <2>1. Signed(m) = IF m > Largest THEN m - Byte ELSE m
    BY DEF Signed
  <2> QED BY <2>1, <1>3, <1>9, <1>10
<1> QED BY <1>2, <1>3, <1>5, <1>7, <1>11, <1>12 DEF n, m, q, b

\* The phases of the transfer.
PhaseSet == {"X_HIGH_1", "X_LOW_1", "Y_HIGH_1", "Y_LOW_1",
             "X_HIGH_2", "X_LOW_2", "Y_HIGH_2", "Y_LOW_2"}

\* Each phase and the next (Following).
LEMMA PhasesFollow ==
    /\ Following("Y_LOW_2") = "X_HIGH_1" /\ Following("X_HIGH_1") = "X_LOW_1"
    /\ Following("X_LOW_1") = "Y_HIGH_1" /\ Following("Y_HIGH_1") = "Y_LOW_1"
    /\ Following("Y_LOW_1") = "X_HIGH_2" /\ Following("X_HIGH_2") = "X_LOW_2"
    /\ Following("X_LOW_2") = "Y_HIGH_2" /\ Following("Y_HIGH_2") = "Y_LOW_2"
<1>1. ASSUME NEW i \in 1..8
      PROVE  Following(Phases[i]) = Phases[(i % 8) + 1]
  <2> DEFINE j == CHOOSE j \in 1..8 : Phases[j] = Phases[i]
  <2>1. j \in 1..8 /\ Phases[j] = Phases[i]
    OBVIOUS
  <2> HIDE DEF j
  <2>2. j = i
    BY ONLY <2>1, i \in 1..8 DEF Phases
  <2> QED BY <2>2 DEF Following, j
<1>2. /\ Phases[1] = "X_HIGH_1" /\ Phases[2] = "X_LOW_1" /\ Phases[3] = "Y_HIGH_1"
      /\ Phases[4] = "Y_LOW_1" /\ Phases[5] = "X_HIGH_2" /\ Phases[6] = "X_LOW_2"
      /\ Phases[7] = "Y_HIGH_2" /\ Phases[8] = "Y_LOW_2"
  BY DEF Phases
<1>3. \A i \in 1..8 : Following(Phases[i]) = Phases[(i % 8) + 1]
  BY <1>1
<1>4. /\ Following(Phases[1]) = Phases[2] /\ Following(Phases[2]) = Phases[3]
      /\ Following(Phases[3]) = Phases[4] /\ Following(Phases[4]) = Phases[5]
      /\ Following(Phases[5]) = Phases[6] /\ Following(Phases[6]) = Phases[7]
      /\ Following(Phases[7]) = Phases[8] /\ Following(Phases[8]) = Phases[1]
  BY ONLY <1>3
<1> QED BY ONLY <1>2, <1>4

\* The state of the mouse.
MouseState == [enabled : BOOLEAN, phase : PhaseSet, latched : [Axis -> Latched],
               pending : [Axis -> Int], fractional : [Axis -> 0..1],
               buttons_pressed : SUBSET Button, age : {"fresh", "late"}]

\* The phase a write meets: after a pause the mouse starts over.
Met(m) == IF m.age = "late" THEN "Y_LOW_2" ELSE m.phase

\* What a write with a level of the strobe makes of the mouse.
Written(m, now, strobe) ==
    /\ now \in MouseState
    /\ now.enabled = m.enabled /\ now.buttons_pressed = m.buttons_pressed
    /\ now.fractional = m.fractional
    /\ ~m.enabled => now = m
    /\ m.enabled =>
        /\ now.age = "fresh"
        /\ strobe /\ Met(m) = "Y_LOW_2" =>
              /\ now.phase = "X_HIGH_1"
              /\ \A a \in Axis : now.pending[a] + now.latched[a] = m.pending[a]
        /\ ~(strobe /\ Met(m) = "Y_LOW_2") => now.pending = m.pending
        /\ ~(strobe /\ Met(m) \in {"Y_LOW_1", "Y_LOW_2"}) => now.latched = m.latched
        /\ strobe =>
              /\ Met(m) = "X_LOW_1" => now.phase = "Y_HIGH_1"
              /\ Met(m) = "Y_LOW_1" => now.phase = "X_HIGH_2"
              /\ Met(m) = "X_LOW_2" => now.phase = "Y_HIGH_2"
              /\ Met(m) \in {"X_HIGH_1", "Y_HIGH_1", "X_HIGH_2", "Y_HIGH_2"} =>
                    now.phase = Met(m)
        /\ ~strobe =>
              /\ Met(m) = "X_HIGH_1" => now.phase = "X_LOW_1"
              /\ Met(m) = "Y_HIGH_1" => now.phase = "Y_LOW_1"
              /\ Met(m) = "X_HIGH_2" => now.phase = "X_LOW_2"
              /\ Met(m) = "Y_HIGH_2" => now.phase = "Y_LOW_2"
              /\ Met(m) \in {"X_LOW_1", "Y_LOW_1", "X_LOW_2", "Y_LOW_2"} =>
                    now.phase = Met(m)

\* A motion is cut to what a report holds.
LEMMA Clamped ==
    ASSUME MouseAssumption, NEW d \in Int
    PROVE  msx_mouse_clamp_delta(d) \in Latched /\ 0 \in Latched
<1>1. Largest \in Nat
  <2>1. 0 \in Latched => Largest \in Nat
    BY Nibbles
  <2>2. Nibble * Nibble >= 4 /\ Nibble * Nibble \in Nat
    BY DEF MouseAssumption
  <2> QED BY <2>2 DEF Largest, Byte
<1> QED BY <1>1 DEF msx_mouse_clamp_delta, Latched

\* What is latched is taken from what is pending (msx_mouse_latch).
LEMMA Latches ==
    ASSUME MouseAssumption, NEW m \in MouseState
    PROVE  /\ msx_mouse_latch(m) \in MouseState
           /\ \A a \in Axis : msx_mouse_latch(m).pending[a]
                                + msx_mouse_latch(m).latched[a] = m.pending[a]
           /\ msx_mouse_latch(m).enabled = m.enabled
           /\ msx_mouse_latch(m).buttons_pressed = m.buttons_pressed
           /\ msx_mouse_latch(m).fractional = m.fractional
           /\ msx_mouse_latch(m).phase = m.phase /\ msx_mouse_latch(m).age = m.age
<1> DEFINE delta == [a \in Axis |-> msx_mouse_clamp_delta(m.pending[a])]
           left == [a \in Axis |-> m.pending[a] - delta[a]]
           n == [m EXCEPT !.latched = delta, !.pending = left]
<1>1. msx_mouse_latch(m) = n
  BY Zenon DEF msx_mouse_latch
<1>2. m.pending \in [Axis -> Int]
  BY DEF MouseState
<1>3. delta \in [Axis -> Latched]
  BY <1>2, Clamped
<1>4. Latched \subseteq Int
  <2>1. Largest \in Nat
    BY Clamped, Nibbles
  <2> QED BY <2>1 DEF Latched
<1> HIDE DEF delta
<1>5. left \in [Axis -> Int] /\ \A a \in Axis : left[a] + delta[a] = m.pending[a]
  <2>1. \A a \in Axis : m.pending[a] \in Int /\ delta[a] \in Int
    BY <1>2, <1>3, <1>4
  <2> QED BY <2>1
<1> HIDE DEF left
<1>6. /\ n \in MouseState /\ n.pending = left /\ n.latched = delta
      /\ n.enabled = m.enabled /\ n.buttons_pressed = m.buttons_pressed
      /\ n.fractional = m.fractional /\ n.phase = m.phase /\ n.age = m.age
  BY <1>3, <1>5 DEF MouseState
<1> HIDE DEF n
<1> QED BY <1>1, <1>5, <1>6

\* A write to the port, by the phase and the strobe (msx_mouse_write_port).
LEMMA PortWritten ==
    ASSUME MouseAssumption, NEW m \in MouseState, NEW strobe \in BOOLEAN
    PROVE  Written(m, msx_mouse_write_port(m, strobe), strobe)
<1> DEFINE now == [m EXCEPT !.age = "fresh", !.phase = Met(m)]
           next == [now EXCEPT !.phase = Following(Met(m))]
           cleared == [next EXCEPT !.latched = None]
           latch == msx_mouse_latch(next)
           w == msx_mouse_write_port(m, strobe)
<1>1. Met(m) \in PhaseSet
  BY DEF Met, MouseState, PhaseSet
<1>2. Following(Met(m)) \in PhaseSet
  BY <1>1, PhasesFollow DEF PhaseSet
<1>3. now \in MouseState /\ next \in MouseState
  BY <1>1, <1>2 DEF MouseState
<1>4. None \in [Axis -> Latched]
  BY Clamped DEF None
<1>5. cleared \in MouseState
  BY <1>3, <1>4 DEF MouseState
<1> DEFINE high == {"X_HIGH_1", "Y_HIGH_1", "X_HIGH_2", "Y_HIGH_2"}
           p == Met(m)
<1>6. w = CASE ~m.enabled -> m
            [] m.enabled /\ p \in high -> (IF strobe THEN now ELSE next)
            [] m.enabled /\ p \in {"X_LOW_1", "X_LOW_2"} -> (IF strobe THEN next ELSE now)
            [] m.enabled /\ p = "Y_LOW_1" -> (IF strobe THEN cleared ELSE now)
            [] m.enabled /\ p = "Y_LOW_2" -> (IF strobe THEN latch ELSE now)
  BY Zenon DEF msx_mouse_write_port, Met
<1>7. /\ now.enabled = m.enabled /\ now.buttons_pressed = m.buttons_pressed
      /\ now.fractional = m.fractional /\ now.pending = m.pending
      /\ now.latched = m.latched /\ now.age = "fresh" /\ now.phase = p
      /\ next.enabled = m.enabled /\ next.buttons_pressed = m.buttons_pressed
      /\ next.fractional = m.fractional /\ next.pending = m.pending
      /\ next.latched = m.latched /\ next.age = "fresh" /\ next.phase = Following(p)
      /\ cleared.enabled = m.enabled /\ cleared.buttons_pressed = m.buttons_pressed
      /\ cleared.fractional = m.fractional /\ cleared.pending = m.pending
      /\ cleared.age = "fresh" /\ cleared.phase = Following(p)
  BY DEF MouseState
<1> HIDE DEF now, next, cleared
<1>8. /\ latch \in MouseState /\ latch.enabled = m.enabled
      /\ latch.buttons_pressed = m.buttons_pressed
      /\ latch.fractional = m.fractional /\ latch.age = "fresh"
      /\ latch.phase = Following(p)
      /\ \A a \in Axis : latch.pending[a] + latch.latched[a] = m.pending[a]
  BY <1>3, <1>7, Latches
<1>9. p \in PhaseSet /\ m.enabled \in BOOLEAN
  BY <1>1 DEF MouseState
<1> HIDE DEF latch, w, p
<1>10. CASE ~m.enabled
  <2>1. w = m
    BY ONLY <1>6, <1>10
  <2> QED BY <2>1, <1>10 DEF Written, w
<1>11. CASE m.enabled /\ p \in high
  <2>1. w = IF strobe THEN now ELSE next
    BY ONLY <1>6, <1>11
  <2> QED BY <2>1, <1>3, <1>7, <1>11, PhasesFollow DEF Written, w, p
<1>12. CASE m.enabled /\ p \in {"X_LOW_1", "X_LOW_2"}
  <2>1. w = IF strobe THEN next ELSE now
    BY ONLY <1>6, <1>12
  <2> QED BY <2>1, <1>3, <1>7, <1>12, PhasesFollow DEF Written, w, p
<1>13. CASE m.enabled /\ p = "Y_LOW_1"
  <2>1. w = IF strobe THEN cleared ELSE now
    BY ONLY <1>6, <1>13
  <2> QED BY <2>1, <1>3, <1>5, <1>7, <1>13, PhasesFollow DEF Written, w, p
<1>14. CASE m.enabled /\ p = "Y_LOW_2"
  <2>1. w = IF strobe THEN latch ELSE now
    BY ONLY <1>6, <1>14
  <2> QED BY <2>1, <1>3, <1>7, <1>8, <1>14, PhasesFollow DEF Written, w, p
<1> QED BY <1>9, <1>10, <1>11, <1>12, <1>13, <1>14 DEF PhaseSet

\* The guest in its report: the phase it has reached, and what it has put
\* together of what the mouse holds for this report.
HeldInStep ==
    program # Torn =>
        /\ ~mouse.enabled => program = 0
        /\ mouse.enabled => IF mouse.age = "late" THEN program = 0
                            ELSE /\ program = 0 => mouse.phase = "Y_LOW_2"
                                 /\ program = 1 => mouse.phase = "X_HIGH_1"
                                 /\ program = 2 => mouse.phase = "X_LOW_1"
                                 /\ program = 3 => mouse.phase = "Y_HIGH_1"
                                 /\ program = 4 => mouse.phase = "Y_LOW_1"
                                 /\ program = 5 => mouse.phase = "X_HIGH_2"
                                 /\ program = 6 => mouse.phase = "X_LOW_2"
                                 /\ program = 7 => mouse.phase = "Y_HIGH_2"

\* The two nibbles of a report.
High(l) == ((l % Byte) \div Nibble) * Nibble
Low(l) == l % Nibble

\* What the driver has been told of a report by its step.
SoFar ==
    /\ program = 1 => told["x"] = High(mouse.latched["x"])
    /\ program \in {2, 3} =>
          told["x"] = High(mouse.latched["x"]) + Low(mouse.latched["x"])
    /\ program = 3 => told["y"] = High(mouse.latched["y"])

\* The types of the mouse, its host and its driver.
MouseType ==
    /\ mouse \in MouseState
    /\ host \in [captured : BOOLEAN, visible : BOOLEAN, down : SUBSET Button]
    /\ program \in {Torn} \cup 0..7
    /\ told \in [Axis -> Int] /\ owed \in [Axis -> Int]

\* The motion that is owed, axis by axis.
OwedOf(p, m, a) == m.fractional[a] - 2 * m.pending[a]
                      - 2 * (IF p \in 1..3 THEN m.latched[a] ELSE 0)

\* What the guest was not told yet is what the mouse still holds.
OwesAll(o, p, m) == p # Torn => \A a \in Axis : o[a] = OwedOf(p, m, a)
WholeMotion(o, p, m) ==
    p # Torn =>
        LET under_way == IF p \in 1..3 THEN m.latched ELSE None
        IN  o = [a \in Axis |-> m.fractional[a] - 2 * (m.pending[a] + under_way[a])]

\* The inductive invariant of the mouse.
MouseInv ==
    /\ MouseType /\ HeldInStep /\ SoFar /\ OwesAll(owed, program, mouse)
    /\ mouse.buttons_pressed \subseteq host.down
    /\ ~host.captured => mouse.buttons_pressed = {}

\* The numbers of an axis.
LEMMA MouseNumbers ==
    ASSUME MouseAssumption, NEW m \in MouseState, NEW a \in Axis
    PROVE  m.latched[a] \in Int /\ m.pending[a] \in Int /\ m.fractional[a] \in Int
<1>1. Largest \in Nat
  BY Clamped, Nibbles
<1>2. Latched \subseteq Int
  BY <1>1 DEF Latched
<1>3. /\ m.latched \in [Axis -> Latched] /\ m.pending \in [Axis -> Int]
      /\ m.fractional \in [Axis -> 0..1]
  BY DEF MouseState
<1>4. m.latched[a] \in Latched /\ m.pending[a] \in Int /\ m.fractional[a] \in 0..1
  BY <1>3, Zenon
<1>5. m.fractional[a] \in Int
  BY ONLY <1>4
<1> QED BY <1>2, <1>4, <1>5, Zenon

\* WholeMotion, axis by axis.
LEMMA OwedIs ==
    ASSUME MouseAssumption, NEW m \in MouseState, NEW p, NEW o \in [Axis -> Int]
    PROVE  WholeMotion(o, p, m) <=> OwesAll(o, p, m)
<1> DEFINE way == IF p \in 1..3 THEN m.latched ELSE None
           due == [a \in Axis |-> m.fractional[a] - 2 * (m.pending[a] + way[a])]
<1>1. \A a \in Axis : /\ m.latched[a] \in Int /\ m.pending[a] \in Int
                      /\ m.fractional[a] \in Int
  BY MouseNumbers
<1>2. \A a \in Axis : way[a] = IF p \in 1..3 THEN m.latched[a] ELSE 0
  BY DEF None
<1>3. WholeMotion(o, p, m) <=> (p # Torn => o = due)
  BY Zenon DEF WholeMotion
<1> HIDE DEF way
<1>4. \A a \in Axis : due[a] = OwedOf(p, m, a)
  <2>1. \A a \in Axis : due[a] = m.fractional[a] - 2 * (m.pending[a] + way[a])
    OBVIOUS
  <2> HIDE DEF due
  <2> QED BY ONLY <1>1, <1>2, <2>1 DEF OwedOf
<1>5. due = [a \in Axis |-> due[a]]
  OBVIOUS
<1> HIDE DEF due
<1>6. o = due <=> \A a \in Axis : o[a] = due[a]
  BY ONLY <1>5, o \in [Axis -> Int]
<1> QED BY ONLY <1>3, <1>4, <1>6 DEF OwesAll

\* A mouse without its input (msx_mouse_clear_input).
LEMMA ClearedMouse ==
    ASSUME MouseAssumption, NEW m \in MouseState
    PROVE  /\ msx_mouse_clear_input(m) \in MouseState
           /\ msx_mouse_clear_input(m).buttons_pressed = {}
           /\ msx_mouse_clear_input(m).enabled = m.enabled
           /\ msx_mouse_clear_input(m).phase = m.phase
           /\ msx_mouse_clear_input(m).age = m.age
<1>1. None \in [Axis -> Latched] /\ None \in [Axis -> Int] /\ None \in [Axis -> 0..1]
  BY Clamped DEF None
<1> QED BY <1>1 DEF msx_mouse_clear_input, MouseState

\* A fresh mouse (msx_mouse_reset_state).
LEMMA FreshMouse ==
    ASSUME MouseAssumption, NEW e \in BOOLEAN
    PROVE  /\ msx_mouse_reset_state(e) \in MouseState
           /\ msx_mouse_reset_state(e).buttons_pressed = {}
           /\ msx_mouse_reset_state(e).enabled = e
           /\ msx_mouse_reset_state(e).phase = "Y_LOW_2"
           /\ msx_mouse_reset_state(e).age = "fresh"
           /\ msx_mouse_reset_state(e).latched = None
           /\ msx_mouse_reset_state(e).pending = None
           /\ msx_mouse_reset_state(e).fractional = None
<1>1. None \in [Axis -> Latched] /\ None \in [Axis -> Int] /\ None \in [Axis -> 0..1]
  BY Clamped DEF None
<1> QED BY <1>1 DEF msx_mouse_reset_state, MouseState, PhaseSet

\* What remains of the motion when no report is under way.
LEMMA RemainingIs ==
    ASSUME MouseAssumption, NEW m \in MouseState
    PROVE  /\ Remaining(m) \in [Axis -> Int]
           /\ \A a \in Axis : Remaining(m)[a] = m.fractional[a] - 2 * m.pending[a]
<1>1. \A a \in Axis : m.pending[a] \in Int /\ m.fractional[a] \in Int
  BY DEF MouseState
<1> QED BY <1>1 DEF Remaining

\* A report that is cut off: the guest starts over, or its report is torn.
LEMMA CutWorks ==
    ASSUME MouseAssumption, MouseInv, NEW m \in MouseState, Cut(m),
           m.buttons_pressed = {}, program = 0 => HeldInStep',
           host' \in [captured : BOOLEAN, visible : BOOLEAN, down : SUBSET Button]
    PROVE  MouseInv'
<1>1. /\ mouse' = m /\ owed' = Remaining(m) /\ told' = NoReport
      /\ program' \in {0, Torn} /\ (program = 0 <=> program' = 0)
  BY DEF Cut, Torn
<1>2. MouseType'
  <2>1. NoReport \in [Axis -> Int]
    BY DEF NoReport
  <2> QED BY <1>1, <2>1, RemainingIs DEF MouseType
<1>3. HeldInStep'
  BY <1>1 DEF HeldInStep, Torn
<1>4. SoFar'
  BY <1>1 DEF SoFar, Torn
<1>5. OwesAll(owed, program, mouse)'
  <2>1. program' \notin 1..3
    BY <1>1 DEF Torn
  <2>2. \A a \in Axis : m.pending[a] \in Int /\ m.fractional[a] \in Int
    BY MouseNumbers
  <2> QED BY <1>1, <2>1, <2>2, RemainingIs DEF OwesAll, OwedOf
<1>6. /\ (mouse.buttons_pressed \subseteq host.down)'
      /\ (~host.captured => mouse.buttons_pressed = {})'
  BY <1>1
<1> QED BY <1>2, <1>3, <1>4, <1>5, <1>6 DEF MouseInv

\* It implies what the run checks.
LEMMA MouseInvSays == MouseAssumption /\ MouseInv => MouseTrue
<1> SUFFICES ASSUME MouseAssumption, MouseInv PROVE MouseTrue
  OBVIOUS
<1>1. WholeMotion(owed, program, mouse)
  BY OwedIs DEF MouseInv, MouseType
<1>2. MotionWhole
  BY <1>1, Zenon DEF WholeMotion, MotionWhole
<1> QED BY <1>2 DEF MouseInv, MouseTrue, ButtonsTrue

\* The next nibble: the report is put together, or the zeroes after it.
LEMMA StepWorks ==
    ASSUME MouseAssumption, MouseInv, Step
    PROVE  MouseInv'
<1> DEFINE strobe == Strobe(program)
           now == msx_mouse_write_port(mouse, strobe)
           axis == IF program % 4 < 2 THEN "x" ELSE "y"
           nibble == msx_mouse_read_port(now)
           value == IF strobe THEN nibble * Nibble ELSE told[axis] + nibble
           report == IF program < 4 THEN [told EXCEPT ![axis] = value] ELSE told
<1>1. /\ mouse.enabled /\ program # Torn /\ mouse' = now
      /\ program' = (program + 1) % 8
      /\ told' = IF program = 3 THEN NoReport ELSE report
      /\ owed' = IF program # 3 THEN owed
                 ELSE [a \in Axis |-> owed[a] + 2 * Signed(report[a])]
      /\ host' = host
  BY Zenon DEF Step
<1>2. mouse \in MouseState /\ Written(mouse, now, strobe)
  <2>1. mouse \in MouseState
    BY DEF MouseInv, MouseType
  <2>2. strobe \in BOOLEAN
    BY Zenon DEF Strobe
  <2> QED BY <2>1, <2>2, PortWritten, Zenon
<1>3. program \in 0..7 /\ (strobe <=> program % 2 = 0)
  <2>1. program \in 0..7
    BY <1>1 DEF MouseInv, MouseType
  <2> QED BY <2>1 DEF Strobe
<1> HIDE DEF now, strobe
<1>4. /\ program = 0 => Met(mouse) = "Y_LOW_2"
      /\ program = 1 => Met(mouse) = "X_HIGH_1"
      /\ program = 2 => Met(mouse) = "X_LOW_1"
      /\ program = 3 => Met(mouse) = "Y_HIGH_1"
      /\ program = 4 => Met(mouse) = "Y_LOW_1"
      /\ program = 5 => Met(mouse) = "X_HIGH_2"
      /\ program = 6 => Met(mouse) = "X_LOW_2"
      /\ program = 7 => Met(mouse) = "Y_HIGH_2"
  BY <1>1, <1>3 DEF MouseInv, HeldInStep, Met
<1>5. /\ now \in MouseState /\ now.age = "fresh" /\ now.enabled = mouse.enabled
      /\ now.buttons_pressed = mouse.buttons_pressed
      /\ now.fractional = mouse.fractional
      /\ program = 0 => /\ now.phase = "X_HIGH_1"
                        /\ \A a \in Axis : now.pending[a] + now.latched[a] = mouse.pending[a]
      /\ program # 0 => now.pending = mouse.pending
      /\ program \notin {0, 4} => now.latched = mouse.latched
      /\ program = 1 => now.phase = "X_LOW_1"
      /\ program = 2 => now.phase = "Y_HIGH_1"
      /\ program = 3 => now.phase = "Y_LOW_1"
      /\ program = 4 => now.phase = "X_HIGH_2"
      /\ program = 5 => now.phase = "X_LOW_2"
      /\ program = 6 => now.phase = "Y_HIGH_2"
      /\ program = 7 => now.phase = "Y_LOW_2"
  <2>1. \/ (program = 0 /\ strobe)
        \/ (program = 1 /\ ~strobe)
        \/ (program = 2 /\ strobe)
        \/ (program = 3 /\ ~strobe)
        \/ (program = 4 /\ strobe)
        \/ (program = 5 /\ ~strobe)
        \/ (program = 6 /\ strobe)
        \/ (program = 7 /\ ~strobe)
    BY ONLY <1>3
  <2> QED BY ONLY <1>1, <1>2, <1>4, <2>1 DEF Written
<1>6. \A a \in Axis : /\ (now.latched[a] % Byte) \div Nibble \in Int
                      /\ now.latched[a] % Nibble \in Int
                      /\ now.latched[a] \in Int /\ now.pending[a] \in Int
                      /\ now.fractional[a] \in Int /\ mouse.pending[a] \in Int
                      /\ Signed(High(now.latched[a]) + Low(now.latched[a])) = now.latched[a]
  <2>1. \A a \in Axis : now.latched[a] \in Latched
    BY <1>5 DEF MouseState
  <2> QED BY <2>1, <1>2, <1>5, Nibbles, MouseNumbers DEF High, Low
<1>7. /\ now.phase \in {"X_HIGH_1", "X_HIGH_2"} =>
            nibble = (now.latched["x"] % Byte) \div Nibble
      /\ now.phase \in {"X_LOW_1", "X_LOW_2"} => nibble = now.latched["x"] % Nibble
      /\ now.phase \in {"Y_HIGH_1", "Y_HIGH_2"} =>
            nibble = (now.latched["y"] % Byte) \div Nibble
      /\ now.phase = "Y_LOW_1" => nibble = now.latched["y"] % Nibble
  BY DEF msx_mouse_read_port
<1> HIDE DEF nibble
<1>8. told \in [Axis -> Int] /\ owed \in [Axis -> Int] /\ Nibble \in Int
      /\ "x" \in Axis /\ "y" \in Axis
  BY DEF MouseInv, MouseType, Axis, MouseAssumption
<1>9. mouse' \in MouseState /\ host' = host
      /\ mouse'.buttons_pressed = mouse.buttons_pressed
  BY <1>1, <1>5
<1>10. /\ program' = 1 => program = 0 /\ now.phase = "X_HIGH_1"
       /\ program' = 2 => program = 1 /\ now.phase = "X_LOW_1"
       /\ program' = 3 => program = 2 /\ now.phase = "Y_HIGH_1"
       /\ program' = 4 => program = 3 /\ now.phase = "Y_LOW_1"
       /\ program' = 5 => program = 4 /\ now.phase = "X_HIGH_2"
       /\ program' = 6 => program = 5 /\ now.phase = "X_LOW_2"
       /\ program' = 7 => program = 6 /\ now.phase = "Y_HIGH_2"
       /\ program' = 0 => program = 7 /\ now.phase = "Y_LOW_2"
       /\ program' \in 0..7
  BY ONLY <1>1, <1>3, <1>5
<1>11. HeldInStep'
  BY ONLY <1>1, <1>5, <1>10 DEF HeldInStep, Torn
<1>12. /\ owed \in [Axis -> Int]
       /\ \A a \in Axis : owed[a] = mouse.fractional[a] - 2 * mouse.pending[a]
             - 2 * (IF program \in 1..3 THEN mouse.latched[a] ELSE 0)
  BY <1>1, <1>8 DEF MouseInv, OwesAll, OwedOf
<1>13. SoFar
  BY DEF MouseInv
<1>14. CASE program = 0
  <2>1. axis = "x" /\ value = High(now.latched["x"])
    BY <1>3, <1>5, <1>7, <1>14 DEF High
  <2>2. value \in Int
    BY ONLY <2>1, <1>6, <1>8 DEF High
  <2> HIDE DEF value, axis
  <2>3. /\ told' \in [Axis -> Int] /\ told'["x"] = High(now.latched["x"])
        /\ program' = 1 /\ owed' = owed
    BY ONLY <1>1, <1>8, <1>14, <2>1, <2>2
  <2>4. SoFar'
    BY ONLY <1>1, <2>3 DEF SoFar
  <2>5. OwesAll(owed, program, mouse)'
    BY ONLY <1>1, <1>5, <1>6, <1>12, <1>14, <2>3 DEF OwesAll, OwedOf
  <2> QED BY <1>8, <1>9, <1>10, <1>11, <2>3, <2>4, <2>5 DEF MouseInv, MouseType
<1>15. CASE program = 1
  <2>1. axis = "x" /\ value = High(now.latched["x"]) + Low(now.latched["x"])
    BY <1>3, <1>5, <1>7, <1>13, <1>15 DEF High, Low, SoFar
  <2>2. value \in Int
    BY ONLY <2>1, <1>6, <1>8 DEF High, Low
  <2> HIDE DEF value, axis
  <2>3. /\ told' \in [Axis -> Int] /\ program' = 2 /\ owed' = owed
        /\ told'["x"] = High(now.latched["x"]) + Low(now.latched["x"])
    BY ONLY <1>1, <1>8, <1>15, <2>1, <2>2
  <2>4. SoFar'
    BY ONLY <1>1, <2>3 DEF SoFar
  <2>5. OwesAll(owed, program, mouse)'
    BY ONLY <1>1, <1>5, <1>6, <1>12, <1>15, <2>3 DEF OwesAll, OwedOf
  <2> QED BY <1>8, <1>9, <1>10, <1>11, <2>3, <2>4, <2>5 DEF MouseInv, MouseType
<1>16. CASE program = 2
  <2>1. axis = "y" /\ value = High(now.latched["y"])
    BY <1>3, <1>5, <1>7, <1>16 DEF High
  <2>2. value \in Int
    BY ONLY <2>1, <1>6, <1>8 DEF High
  <2> HIDE DEF value, axis
  <2>3. /\ told' \in [Axis -> Int] /\ told'["y"] = High(now.latched["y"])
        /\ told'["x"] = told["x"] /\ program' = 3 /\ owed' = owed
    BY ONLY <1>1, <1>8, <1>16, <2>1, <2>2
  <2>4. SoFar'
    BY ONLY <1>1, <1>5, <1>13, <1>16, <2>3 DEF SoFar
  <2>5. OwesAll(owed, program, mouse)'
    BY ONLY <1>1, <1>5, <1>6, <1>12, <1>16, <2>3 DEF OwesAll, OwedOf
  <2> QED BY <1>8, <1>9, <1>10, <1>11, <2>3, <2>4, <2>5 DEF MouseInv, MouseType
<1>17. CASE program = 3
  <2>1. axis = "y" /\ value = High(now.latched["y"]) + Low(now.latched["y"])
    BY <1>3, <1>5, <1>7, <1>13, <1>17 DEF High, Low, SoFar
  <2>2. value \in Int
    BY ONLY <2>1, <1>6, <1>8 DEF High, Low
  <2> HIDE DEF value, axis
  <2>3. \A a \in Axis : report[a] = High(now.latched[a]) + Low(now.latched[a])
    <3>1. told["x"] = High(now.latched["x"]) + Low(now.latched["x"])
      BY ONLY <1>5, <1>13, <1>17 DEF SoFar
    <3> QED BY <1>8, <1>17, <2>1, <3>1 DEF Axis
  <2>4. \A a \in Axis : Signed(report[a]) = now.latched[a]
    BY ONLY <1>6, <2>3
  <2> HIDE DEF report
  <2>5. /\ told' = NoReport /\ program' = 4
        /\ owed' = [a \in Axis |-> owed[a] + 2 * Signed(report[a])]
    BY ONLY <1>1, <1>17
  <2>6. /\ told' \in [Axis -> Int] /\ owed' \in [Axis -> Int]
        /\ \A a \in Axis : owed'[a] = owed[a] + 2 * now.latched[a]
    BY ONLY <1>6, <1>8, <2>4, <2>5 DEF NoReport
  <2>7. SoFar'
    BY ONLY <2>5 DEF SoFar
  <2>8. OwesAll(owed, program, mouse)'
    BY ONLY <1>1, <1>5, <1>6, <1>12, <1>17, <2>5, <2>6 DEF OwesAll, OwedOf
  <2> QED BY <1>9, <1>10, <1>11, <2>6, <2>7, <2>8 DEF MouseInv, MouseType
<1>18. CASE program \in 4..7
  <2>1. told' = told /\ owed' = owed /\ program' \in {0, 5, 6, 7}
    BY ONLY <1>1, <1>18
  <2>2. SoFar'
    BY ONLY <2>1 DEF SoFar
  <2>3. OwesAll(owed, program, mouse)'
    BY ONLY <1>1, <1>5, <1>6, <1>12, <1>18, <2>1 DEF OwesAll, OwedOf
  <2> QED BY <1>8, <1>9, <1>10, <1>11, <2>1, <2>2, <2>3 DEF MouseInv, MouseType
<1> QED BY <1>3, <1>14, <1>15, <1>16, <1>17, <1>18

\* A write for the other port, which this one meets with the level it has.
LEMMA OtherWorks ==
    ASSUME MouseAssumption, MouseInv, OtherPortWrite
    PROVE  MouseInv'
<1> PICK strobe \in BOOLEAN : strobe = (program > 0 /\ Strobe(program - 1))
  BY Zenon DEF Strobe
<1> DEFINE now == msx_mouse_write_port(mouse, strobe)
<1>1. /\ program # Torn /\ mouse' = now
      /\ UNCHANGED <<host, program, told, owed>>
  BY Zenon DEF OtherPortWrite
<1>2. mouse \in MouseState /\ Written(mouse, now, strobe)
  BY PortWritten DEF MouseInv, MouseType
<1>3. program \in 0..7 /\ (strobe <=> program > 0 /\ (program - 1) % 2 = 0)
  BY <1>1 DEF MouseInv, MouseType, Strobe
<1> HIDE DEF now
<1>4. \/ (program = 0 /\ ~strobe)
      \/ (program = 1 /\ strobe)
      \/ (program = 2 /\ ~strobe)
      \/ (program = 3 /\ strobe)
      \/ (program = 4 /\ ~strobe)
      \/ (program = 5 /\ strobe)
      \/ (program = 6 /\ ~strobe)
      \/ (program = 7 /\ strobe)
  BY ONLY <1>3
<1>5. /\ now.pending = mouse.pending /\ now.latched = mouse.latched
      /\ now.fractional = mouse.fractional /\ now.enabled = mouse.enabled
      /\ now.buttons_pressed = mouse.buttons_pressed /\ now \in MouseState
      /\ mouse.enabled => now.phase = Met(mouse) /\ now.age = "fresh"
      /\ ~mouse.enabled => now = mouse
  BY <1>1, <1>2, <1>4 DEF Written, MouseInv, HeldInStep, Met
<1>6. HeldInStep'
  BY <1>1, <1>5 DEF MouseInv, HeldInStep, Met
<1>7. SoFar' /\ OwesAll(owed, program, mouse)'
  BY <1>1, <1>5 DEF MouseInv, SoFar, OwesAll, OwedOf
<1> QED BY <1>1, <1>5, <1>6, <1>7 DEF MouseInv, MouseType

\* A report that is broken off is lost, and the mouse starts over.
LEMMA WaitWorks ==
    ASSUME MouseAssumption, MouseInv, Wait
    PROVE  MouseInv'
<1> PICK strobe \in BOOLEAN : strobe = FALSE
  OBVIOUS
<1> DEFINE now == msx_mouse_write_port(mouse, strobe)
           late == [now EXCEPT !.age = "late"]
<1>1. /\ mouse' = late /\ program' = 0 /\ told' = NoReport /\ host' = host
      /\ owed' = IF program \in {Torn} \cup 1 .. 3 THEN Remaining(mouse) ELSE owed
  BY Zenon DEF Wait
<1>2. mouse \in MouseState /\ Written(mouse, now, strobe)
  BY PortWritten DEF MouseInv, MouseType
<1> HIDE DEF now
<1>3. /\ now.pending = mouse.pending /\ now.fractional = mouse.fractional
      /\ now.buttons_pressed = mouse.buttons_pressed /\ now \in MouseState
  BY <1>2 DEF Written
<1>4. /\ late \in MouseState /\ late.age = "late"
      /\ late.pending = mouse.pending /\ late.fractional = mouse.fractional
      /\ late.buttons_pressed = mouse.buttons_pressed
  BY <1>3 DEF MouseState
<1> HIDE DEF late
<1>5. \A a \in Axis : mouse.pending[a] \in Int /\ mouse.fractional[a] \in Int
  BY <1>2, MouseNumbers
<1>6. /\ owed' \in [Axis -> Int]
      /\ \A a \in Axis : owed'[a] = mouse.fractional[a] - 2 * mouse.pending[a]
  <2>1. CASE program \in {Torn} \cup 1..3
    BY <1>1, <1>2, <2>1, RemainingIs
  <2>2. CASE program \notin {Torn} \cup 1..3
    <3>1. program # Torn /\ owed' = owed /\ program \notin 1..3
      BY <1>1, <2>2
    <3> QED BY <1>5, <3>1 DEF MouseInv, MouseType, OwesAll, OwedOf
  <2> QED BY <2>1, <2>2
<1>7. MouseType'
  BY <1>1, <1>4, <1>6 DEF MouseInv, MouseType, NoReport
<1>8. HeldInStep' /\ SoFar'
  <2>1. mouse'.enabled \in BOOLEAN
    BY <1>1, <1>4 DEF MouseState
  <2> QED BY <2>1, <1>1, <1>4 DEF HeldInStep, SoFar
<1>9. OwesAll(owed, program, mouse)'
  BY <1>1, <1>4, <1>5, <1>6 DEF OwesAll, OwedOf
<1> QED BY <1>1, <1>4, <1>7, <1>8, <1>9 DEF MouseInv

\* A motion of the host is owed in full: the halves that are handed on and the
\* odd step that is kept make it up.
LEMMA MotionWorks ==
    ASSUME MouseAssumption, MouseInv, NEW d \in Int \X Int, Motion(d)
    PROVE  MouseInv'
<1> DEFINE by == [a \in Axis |-> IF a = "x" THEN d[1] ELSE d[2]]
           moved == msx_mouse_add_host_motion(mouse, by)
<1>1. /\ mouse' = (IF mouse.enabled THEN moved ELSE mouse)
      /\ owed' = (IF mouse.enabled THEN [a \in Axis |-> owed[a] + by[a]] ELSE owed)
      /\ program' = program /\ told' = told /\ host' = host
  BY Zenon DEF Motion
<1>2. by \in [Axis -> Int]
  OBVIOUS
<1> HIDE DEF by
<1> DEFINE scaled == [a \in Axis |-> msx_mouse_scale_axis(by[a], mouse.fractional[a])]
           more == [a \in Axis |-> mouse.pending[a] + scaled[a].quotient]
           odd == [a \in Axis |-> scaled[a].fractional]
           n == [mouse EXCEPT !.pending = more, !.fractional = odd]
<1>3. moved = n
  BY Zenon DEF msx_mouse_add_host_motion
<1>4. mouse \in MouseState
  BY DEF MouseInv, MouseType
<1>5. ASSUME NEW a \in Axis
      PROVE  /\ more[a] \in Int /\ odd[a] \in 0..1
             /\ odd[a] - 2 * more[a] = mouse.fractional[a] - 2 * mouse.pending[a] + by[a]
  <2> DEFINE t == by[a] + mouse.fractional[a]
             half == t \div 2
             rest == t % 2
  <2>1. by[a] \in Int /\ mouse.fractional[a] \in Int /\ mouse.pending[a] \in Int
    BY <1>2, <1>4, MouseNumbers
  <2>2. t \in Int /\ t = by[a] + mouse.fractional[a]
    BY ONLY <2>1
  <2>3. more[a] = mouse.pending[a] + -half /\ odd[a] = rest
    BY DEF msx_mouse_scale_axis
  <2> HIDE DEF t, more, odd
  <2>4. half \in Int /\ rest \in 0..1 /\ t = 2 * half + rest
    BY ONLY <2>2
  <2> HIDE DEF half, rest
  <2> QED BY ONLY <2>1, <2>2, <2>3, <2>4
<1>6. more = [a \in Axis |-> more[a]] /\ odd = [a \in Axis |-> odd[a]]
  OBVIOUS
<1> HIDE DEF more, odd
<1>7. more \in [Axis -> Int] /\ odd \in [Axis -> 0..1]
  BY ONLY <1>5, <1>6
<1>8. /\ n \in MouseState /\ n.pending = more /\ n.fractional = odd
      /\ n.latched = mouse.latched /\ n.enabled = mouse.enabled /\ n.phase = mouse.phase
      /\ n.age = mouse.age /\ n.buttons_pressed = mouse.buttons_pressed
  BY <1>4, <1>7 DEF MouseState
<1> HIDE DEF n, moved
<1>9. CASE mouse.enabled
  <2>1. mouse' = n /\ owed' = [a \in Axis |-> owed[a] + by[a]]
    BY <1>1, <1>3, <1>9
  <2>2. /\ owed' \in [Axis -> Int]
        /\ \A a \in Axis : owed'[a] = owed[a] + by[a]
    BY <1>2, <2>1 DEF MouseInv, MouseType
  <2>3. OwesAll(owed, program, mouse)'
    <3> SUFFICES ASSUME program # Torn, NEW a \in Axis
                 PROVE  owed'[a] = OwedOf(program, n, a)
      BY <1>1, <2>1 DEF OwesAll
    <3>1. owed[a] = OwedOf(program, mouse, a)
      BY DEF MouseInv, OwesAll
    <3>2. /\ owed[a] \in Int /\ by[a] \in Int /\ n.pending[a] \in Int
          /\ n.fractional[a] \in Int /\ n.latched[a] \in Int
          /\ mouse.pending[a] \in Int /\ mouse.fractional[a] \in Int
      BY <1>2, <1>4, <1>8, MouseNumbers DEF MouseInv, MouseType
    <3>3. n.fractional[a] - 2 * n.pending[a]
            = mouse.fractional[a] - 2 * mouse.pending[a] + by[a]
      BY <1>5, <1>8
    <3> QED BY ONLY <1>8, <2>2, <3>1, <3>2, <3>3 DEF OwedOf
  <2>4. MouseType' /\ HeldInStep' /\ SoFar'
    BY <1>1, <1>8, <2>1, <2>2 DEF MouseInv, MouseType, HeldInStep, SoFar
  <2> QED BY <1>1, <1>8, <2>1, <2>3, <2>4 DEF MouseInv
<1>10. CASE ~mouse.enabled
  BY <1>1, <1>10 DEF MouseInv, MouseType, HeldInStep, SoFar, OwesAll
<1> QED BY <1>9, <1>10

\* The buttons alone.
LEMMA ButtonsWork ==
    ASSUME MouseAssumption, MouseInv, NEW buttons \in SUBSET Button,
           mouse' = [mouse EXCEPT !.buttons_pressed = buttons],
           UNCHANGED <<program, told, owed>>,
           host' \in [captured : BOOLEAN, visible : BOOLEAN, down : SUBSET Button],
           buttons \subseteq host.down', ~host.captured' => buttons = {}
    PROVE  MouseInv'
<1> DEFINE n == [mouse EXCEPT !.buttons_pressed = buttons]
<1>1. mouse' = n
  OBVIOUS
<1>2. /\ n \in MouseState /\ n.buttons_pressed = buttons
      /\ n.pending = mouse.pending /\ n.latched = mouse.latched
      /\ n.fractional = mouse.fractional /\ n.enabled = mouse.enabled
      /\ n.phase = mouse.phase /\ n.age = mouse.age
  BY DEF MouseInv, MouseType, MouseState
<1> HIDE DEF n
<1>3. MouseType' /\ HeldInStep' /\ SoFar'
  BY <1>1, <1>2 DEF MouseInv, MouseType, HeldInStep, SoFar
<1>4. OwesAll(owed, program, mouse)'
  BY <1>1, <1>2 DEF MouseInv, OwesAll, OwedOf
<1> QED BY <1>1, <1>2, <1>3, <1>4 DEF MouseInv

\* The buttons of the guest follow those of the host.
LEMMA ClickWorks ==
    ASSUME MouseAssumption, MouseInv, NEW b \in Button, ButtonDown(b) \/ ButtonUp(b)
    PROVE  MouseInv'
<1>1. /\ UNCHANGED <<program, told, owed>>
      /\ mouse \in MouseState /\ mouse.buttons_pressed \subseteq host.down
      /\ mouse = [mouse EXCEPT !.buttons_pressed = @]
      /\ mouse.buttons_pressed \in SUBSET Button
      /\ host \in [captured : BOOLEAN, visible : BOOLEAN, down : SUBSET Button]
      /\ ~host.captured => mouse.buttons_pressed = {}
  BY DEF ButtonDown, ButtonUp, MouseInv, MouseType, MouseState
<1>2. CASE /\ host' = [host EXCEPT !.down = @ \cup {b}, !.captured = TRUE]
           /\ mouse' = [mouse EXCEPT !.buttons_pressed = @ \cup {b}]
  <2>1. /\ host' \in [captured : BOOLEAN, visible : BOOLEAN, down : SUBSET Button]
        /\ host'.captured /\ host'.down = host.down \cup {b}
    BY <1>1, <1>2
  <2> QED BY <1>1, <1>2, <2>1, ButtonsWork
<1>3. CASE /\ ~host.captured /\ host' = [host EXCEPT !.down = @ \cup {b}]
           /\ UNCHANGED mouse
  <2>1. /\ host' \in [captured : BOOLEAN, visible : BOOLEAN, down : SUBSET Button]
        /\ host'.down = host.down \cup {b}
    BY <1>1, <1>3
  <2> QED BY <1>1, <1>3, <2>1, ButtonsWork
<1>4. CASE /\ host' = [host EXCEPT !.down = @ \ {b}]
           /\ mouse' = IF host.captured THEN [mouse EXCEPT !.buttons_pressed = @ \ {b}]
                       ELSE mouse
  <2>1. /\ host' \in [captured : BOOLEAN, visible : BOOLEAN, down : SUBSET Button]
        /\ host'.captured = host.captured /\ host'.down = host.down \ {b}
    BY <1>1, <1>4
  <2>2. mouse' = [mouse EXCEPT !.buttons_pressed = mouse.buttons_pressed \ {b}]
    BY <1>1, <1>4
  <2>3. mouse.buttons_pressed \ {b} \in SUBSET Button
    BY <1>1
  <2> QED BY <1>1, <2>1, <2>2, <2>3, ButtonsWork
<1> QED BY <1>2, <1>3, <1>4 DEF ButtonDown, ButtonUp

\* What clears the input while the mouse is taken from the program.
LEMMA ClearWorks ==
    ASSUME MouseAssumption, MouseInv, Cut(msx_mouse_clear_input(mouse)),
           host' \in [captured : BOOLEAN, visible : BOOLEAN, down : SUBSET Button]
    PROVE  MouseInv'
<1> DEFINE m == msx_mouse_clear_input(mouse)
<1>1. mouse \in MouseState
  BY DEF MouseInv, MouseType
<1>2. /\ m \in MouseState /\ m.buttons_pressed = {} /\ m.enabled = mouse.enabled
      /\ m.phase = mouse.phase /\ m.age = mouse.age
  BY <1>1, ClearedMouse
<1>3. Cut(m)
  OBVIOUS
<1> HIDE DEF m
<1>4. program = 0 => HeldInStep'
  <2>1. mouse' = m /\ program' = IF program = 0 THEN 0 ELSE Torn
    BY <1>3 DEF Cut
  <2> QED BY <1>1, <1>2, <2>1 DEF MouseInv, HeldInStep, Torn
<1> QED BY <1>2, <1>3, <1>4, CutWorks

\* The settings and the release of the mouse.
LEMMA HostWorks ==
    ASSUME MouseAssumption, MouseInv,
           Release \/ SettingsTakeMouse \/ SettingsLeaveMouse
    PROVE  MouseInv'
<1>1. /\ host \in [captured : BOOLEAN, visible : BOOLEAN, down : SUBSET Button]
      /\ mouse.buttons_pressed \subseteq host.down
      /\ ~host.captured => mouse.buttons_pressed = {}
  BY DEF MouseInv, MouseType
<1>2. CASE Release
  <2>1. host' \in [captured : BOOLEAN, visible : BOOLEAN, down : SUBSET Button]
    BY <1>1, <1>2 DEF Release
  <2> QED BY <1>2, <2>1, ClearWorks DEF Release
<1>3. CASE SettingsTakeMouse
  <2>1. /\ host' \in [captured : BOOLEAN, visible : BOOLEAN, down : SUBSET Button]
        /\ host'.down = host.down /\ ~host'.captured
    BY <1>1, <1>3 DEF SettingsTakeMouse
  <2>2. CASE host.captured
    BY <1>3, <2>1, <2>2, ClearWorks DEF SettingsTakeMouse
  <2>3. CASE ~host.captured
    <3>1. UNCHANGED <<mouse, program, told, owed>>
      BY <1>3, <2>3 DEF SettingsTakeMouse
    <3> QED BY <1>1, <2>1, <2>3, <3>1 DEF MouseInv, MouseType, HeldInStep, SoFar, OwesAll
  <2> QED BY <2>2, <2>3
<1>4. CASE SettingsLeaveMouse
  <2>1. /\ host' \in [captured : BOOLEAN, visible : BOOLEAN, down : SUBSET Button]
        /\ host'.down = host.down /\ host'.captured = host.captured
        /\ UNCHANGED <<mouse, program, told, owed>>
    BY <1>1, <1>4 DEF SettingsLeaveMouse
  <2> QED BY <1>1, <2>1 DEF MouseInv, MouseType, HeldInStep, SoFar, OwesAll
<1> QED BY <1>2, <1>3, <1>4

\* The mouse is plugged or unplugged.
LEMMA EnabledWorks ==
    ASSUME MouseAssumption, MouseInv, msx_mouse_set_enabled
    PROVE  MouseInv'
<1> PICK e \in BOOLEAN : e = ~mouse.enabled
  BY Zenon
<1> DEFINE m == msx_mouse_reset_state(e)
<1>2. Cut(m) /\ host' = host
  BY Zenon DEF msx_mouse_set_enabled
<1>3. /\ m \in MouseState /\ m.buttons_pressed = {} /\ m.phase = "Y_LOW_2"
      /\ m.age = "fresh"
  BY FreshMouse, Zenon
<1> HIDE DEF m
<1>4. program = 0 => HeldInStep'
  <2>1. mouse' = m /\ program' = IF program = 0 THEN 0 ELSE Torn
    BY <1>2 DEF Cut
  <2> QED BY <1>3, <2>1 DEF HeldInStep, Torn
<1>5. host' \in [captured : BOOLEAN, visible : BOOLEAN, down : SUBSET Button]
  BY <1>2 DEF MouseInv, MouseType
<1> QED BY <1>2, <1>3, <1>4, <1>5, CutWorks

\* A fresh mouse, and a guest at the start of a report.
LEMMA FreshWorks ==
    ASSUME MouseAssumption, NEW e \in BOOLEAN,
           mouse = msx_mouse_reset_state(e), program = 0, told = NoReport, owed = None,
           host \in [captured : BOOLEAN, visible : BOOLEAN, down : SUBSET Button]
    PROVE  MouseInv
<1> DEFINE m == msx_mouse_reset_state(e)
<1>1. mouse = m
  OBVIOUS
<1>2. /\ m \in MouseState /\ m.buttons_pressed = {} /\ m.phase = "Y_LOW_2"
      /\ m.age = "fresh" /\ m.pending = None /\ m.fractional = None
  BY FreshMouse, Zenon
<1> HIDE DEF m
<1>3. MouseType
  BY <1>1, <1>2 DEF MouseType, NoReport, None
<1>4. HeldInStep /\ SoFar
  BY <1>1, <1>2 DEF HeldInStep, SoFar
<1>5. OwesAll(owed, program, mouse)
  BY <1>1, <1>2 DEF OwesAll, OwedOf, None
<1> QED BY <1>1, <1>2, <1>3, <1>4, <1>5 DEF MouseInv

\* For any size of a nibble and any motions: the guest is told the whole motion,
\* nibble by nibble, and no button sticks (MouseTrue; msx_mouse_* of msx.c).
THEOREM MouseIsTrue ==
    ASSUME MouseAssumption
    PROVE  MouseSpec => []MouseTrue
<1>1. MouseInit => MouseInv
  <2> SUFFICES ASSUME MouseInit PROVE MouseInv
    OBVIOUS
  <2>1. host \in [captured : BOOLEAN, visible : BOOLEAN, down : SUBSET Button]
    BY DEF MouseInit
  <2>2. mouse = msx_mouse_reset_state(TRUE) /\ program = 0 /\ told = NoReport /\ owed = None
    BY Zenon DEF MouseInit
  <2> QED BY <2>1, <2>2, FreshWorks, Zenon
<1>2. MouseInv /\ [MouseNext]_mousevars => MouseInv'
  <2> SUFFICES ASSUME MouseInv, [MouseNext]_mousevars PROVE MouseInv'
    OBVIOUS
  <2>1. ASSUME ResetMouse PROVE MouseInv'
    <3>1. mouse.enabled \in BOOLEAN
      BY DEF MouseInv, MouseType, MouseState
    <3> PICK e \in BOOLEAN : e = mouse.enabled
      BY <3>1
    <3>2. host' \in [captured : BOOLEAN, visible : BOOLEAN, down : SUBSET Button]
      BY <2>1 DEF ResetMouse, MouseInv, MouseType
    <3>3. /\ mouse' = msx_mouse_reset_state(e) /\ program' = 0
          /\ told' = NoReport /\ owed' = None
      BY <2>1, Zenon DEF ResetMouse
    <3> DEFINE m == msx_mouse_reset_state(e)
    <3>4. /\ m \in MouseState /\ m.buttons_pressed = {} /\ m.phase = "Y_LOW_2"
          /\ m.age = "fresh" /\ m.pending = None /\ m.fractional = None
      BY FreshMouse, Zenon
    <3>5. mouse' = m
      BY <3>3
    <3> HIDE DEF m
    <3>6. MouseType'
      BY <3>2, <3>3, <3>4, <3>5 DEF MouseType, NoReport, None
    <3>7. HeldInStep' /\ SoFar'
      BY <3>3, <3>4, <3>5 DEF HeldInStep, SoFar
    <3>8. OwesAll(owed, program, mouse)'
      BY <3>3, <3>4, <3>5 DEF OwesAll, OwedOf, None
    <3> QED BY <3>4, <3>5, <3>6, <3>7, <3>8 DEF MouseInv
  <2>2. ASSUME UNCHANGED mousevars PROVE MouseInv'
    BY <2>2 DEF mousevars, MouseInv, MouseType, HeldInStep, SoFar, OwesAll
  <2>3. ASSUME NEW d \in Deltas, Motion(d) PROVE MouseInv'
    BY <2>3, MotionWorks DEF MouseAssumption
  <2> QED
    BY <2>1, <2>2, <2>3, StepWorks, OtherWorks, WaitWorks, HostWorks, EnabledWorks,
       ClickWorks DEF MouseNext
<1>3. MouseInv => MouseTrue
  BY MouseInvSays
<1> QED BY <1>1, <1>2, <1>3, PTL DEF MouseSpec

---------------------------------------------------------------------------
(* The cassette (Cassette).                                                *)

\* The builder after each element of the file.
Build(data, f) ==
    /\ f = [n \in 0 .. Len(data) |->
              IF n = 0 THEN StartBuilder ELSE Element(data, f[n - 1], n)]

\* There is a function that does so; the least number of elements without one
\* is none.
LEMMA BuilderExists ==
    ASSUME NEW data, Len(data) \in Nat
    PROVE  \E f : Build(data, f)
<1> DEFINE L == Len(data)
           G(k, f) == f = [n \in 0 .. k |->
                              IF n = 0 THEN StartBuilder ELSE Element(data, f[n - 1], n)]
           S == {k \in 0 .. L : \E f : G(k, f)}
<1>1. 0 \in S
  <2> DEFINE f == [n \in 0 .. 0 |-> StartBuilder]
             h == [n \in 0 .. 0 |->
                      IF n = 0 THEN StartBuilder ELSE Element(data, f[n - 1], n)]
  <2>1. f = [n \in 0 .. 0 |-> f[n]] /\ h = [n \in 0 .. 0 |-> h[n]]
    OBVIOUS
  <2>2. \A n \in 0 .. 0 : f[n] = h[n]
    OBVIOUS
  <2>3. h = [n \in 0 .. 0 |->
                IF n = 0 THEN StartBuilder ELSE Element(data, f[n - 1], n)]
    OBVIOUS
  <2> HIDE DEF f, h
  <2>4. f = h
    BY ONLY <2>1, <2>2
  <2>5. G(0, f)
    BY ONLY <2>3, <2>4
  <2>6. 0 \in 0 .. L
    OBVIOUS
  <2> HIDE DEF G
  <2> QED BY ONLY <2>5, <2>6
<1>2. ASSUME NEW k \in 0 .. (L - 1), k \in S
      PROVE  k + 1 \in S
  <2>1. PICK f : G(k, f)
    BY <1>2
  <2> DEFINE g == [n \in 0 .. (k + 1) |->
                      IF n = k + 1 THEN Element(data, f[k], k + 1) ELSE f[n]]
             h == [n \in 0 .. (k + 1) |->
                      IF n = 0 THEN StartBuilder ELSE Element(data, g[n - 1], n)]
  <2>2. \A n \in 0 .. k : g[n] = f[n]
    OBVIOUS
  <2>3. \A n \in 0 .. k : f[n] = IF n = 0 THEN StartBuilder ELSE Element(data, f[n - 1], n)
    BY <2>1
  <2>4. ASSUME NEW n \in 0 .. (k + 1) PROVE g[n] = h[n]
    <3>1. CASE n = k + 1
      <4>1. g[n] = Element(data, f[k], k + 1) /\ n # 0 /\ n - 1 = k /\ g[k] = f[k]
        BY <3>1
      <4>2. h[n] = Element(data, g[n - 1], n)
        BY <4>1
      <4> HIDE DEF g, h
      <4> QED BY <3>1, <4>1, <4>2
    <3>2. CASE n = 0
      BY <2>2, <2>3, <3>2
    <3>3. CASE n \in 1 .. k
      <4>1. g[n] = f[n] /\ g[n - 1] = f[n - 1] /\ f[n] = Element(data, f[n - 1], n)
        BY <2>2, <2>3, <3>3
      <4>2. h[n] = Element(data, g[n - 1], n)
        BY <3>3
      <4> HIDE DEF g, h
      <4> QED BY <4>1, <4>2
    <3> QED BY <3>1, <3>2, <3>3
  <2>5. g = [n \in 0 .. (k + 1) |-> g[n]] /\ h = [n \in 0 .. (k + 1) |-> h[n]]
    OBVIOUS
  <2>6. h = [n \in 0 .. (k + 1) |->
                IF n = 0 THEN StartBuilder ELSE Element(data, g[n - 1], n)]
    OBVIOUS
  <2> HIDE DEF g, h
  <2>7. g = h
    BY ONLY <2>4, <2>5
  <2>8. G(k + 1, g)
    BY ONLY <2>6, <2>7
  <2>9. k + 1 \in 0 .. L
    OBVIOUS
  <2> HIDE DEF G
  <2> QED BY ONLY <2>8, <2>9
<1> HIDE DEF S
<1>3. L \in S
  <2>1. \A k \in 0 .. L : k \in S
    BY <1>1, <1>2, UpTo
  <2> QED BY <2>1
<1> QED BY <1>3 DEF S, Build

\* What build_msx_cas returns is the builder after the last element.
LEMMA BuilderIs ==
    ASSUME NEW data, Len(data) \in Nat
    PROVE  \E f : Build(data, f) /\ build_msx_cas(data) = f[Len(data)]
<1> DEFINE f == CHOOSE f : Build(data, f)
<1>1. Build(data, f)
  BY BuilderExists
<1>2. build_msx_cas(data) = f[Len(data)]
  BY Zenon DEF build_msx_cas, Build
<1> QED BY <1>1, <1>2

\* The kinds of a file, its parts on the tape and the state of the builder.
Types == {"ascii", "binary", "basic", "unknown"}
Part(data) == {data[i] : i \in DOMAIN data} \cup Leaders
Builder(data) ==
    [blocks : Seq(Part(data)), block : {"none", "first", "later"}, type : Types,
     first_type : Types, eof : BOOLEAN, data_bytes : Nat]

\* The tape of the file from a position on, up to another.
Played(blocks, data, first, n) ==
    /\ first \in 1 .. n /\ data[first] = Header
    /\ \A i \in 1 .. first - 1 : data[i] # Header
    /\ Len(blocks) = n - first + 1 /\ blocks[1] = "long"
    /\ \A i \in 1 .. n - first + 1 :
          IF data[i + first - 1] = Header THEN blocks[i] \in Leaders
          ELSE blocks[i] = data[i + first - 1]

\* The builder after the first n elements.
SoBuilt(data, n, b) ==
    /\ b \in Builder(data)
    /\ b.block = "none" => /\ b.blocks = <<>> /\ b.data_bytes = 0
                           /\ \A i \in 1 .. n : data[i] # Header
    /\ b.block # "none" => \E first \in 1 .. n : Played(b.blocks, data, first, n)

\* The kind of a file is one of them.
LEMMA TypeKnown ==
    ASSUME NEW data, NEW position PROVE detect_file_type(data, position) \in Types
BY DEF detect_file_type, TypeOf, Types

\* One more part of the file goes to the tape.
LEMMA Appended ==
    ASSUME NEW data, NEW n \in Nat, NEW blocks \in Seq(Part(data)), NEW first \in 1 .. n,
           Played(blocks, data, first, n), NEW part \in Part(data),
           IF data[n + 1] = Header THEN part \in Leaders ELSE part = data[n + 1]
    PROVE  Played(Append(blocks, part), data, first, n + 1)
<1> DEFINE more == Append(blocks, part)
<1>1. /\ Len(blocks) = n - first + 1 /\ Len(more) = Len(blocks) + 1
      /\ more[Len(blocks) + 1] = part
      /\ \A i \in 1 .. Len(blocks) : more[i] = blocks[i]
  BY DEF Played
<1> HIDE DEF more
<1>2. ASSUME NEW i \in 1 .. n + 1 - first + 1
      PROVE  IF data[i + first - 1] = Header THEN more[i] \in Leaders
             ELSE more[i] = data[i + first - 1]
  <2>1. CASE i = Len(blocks) + 1
    <3>1. i + first - 1 = n + 1 /\ more[i] = part
      BY <1>1, <2>1
    <3> QED BY <3>1
  <2>2. CASE i # Len(blocks) + 1
    <3>1. i \in 1 .. n - first + 1 /\ i \in 1 .. Len(blocks)
      BY <1>1, <2>2
    <3>2. more[i] = blocks[i]
      BY <1>1, <3>1
    <3> QED BY <3>1, <3>2 DEF Played
  <2> QED BY <2>1, <2>2
<1>3. 1 \in 1 .. Len(blocks)
  BY <1>1
<1> QED BY <1>1, <1>2, <1>3 DEF Played, more

\* One more element of the file is built (Element).
LEMMA ElementBuilds ==
    ASSUME NEW data, IsSequence(data), NEW n \in 0 .. Len(data) - 1, NEW b,
           SoBuilt(data, n, b)
    PROVE  SoBuilt(data, n + 1, Element(data, b, n + 1))
<1> DEFINE e == data[n + 1]
           type == detect_file_type(data, n + 2)
           ends == b.eof \/ e = EndOfFile
           first_type == IF b.first_type = "unknown" THEN type ELSE b.first_type
           long == Append(b.blocks, "long")
           short == Append(b.blocks, "short")
           byte == Append(b.blocks, e)
           started == [b EXCEPT !.blocks = long, !.block = "first", !.type = type,
                                !.eof = FALSE, !.first_type = first_type]
           next == [b EXCEPT !.blocks = short, !.block = "later", !.eof = FALSE]
           more == [b EXCEPT !.blocks = byte, !.data_bytes = b.data_bytes + 1,
                             !.eof = ends]
           made == Element(data, b, n + 1)
<1>1. /\ e = Header /\ b.block # "none" /\ Continues(b) => made = next
      /\ e = Header /\ ~(b.block # "none" /\ Continues(b)) => made = started
      /\ e # Header => made = IF b.block = "none" THEN b ELSE more
  <2>1. n + 1 + 1 = n + 2
    OBVIOUS
  <2> QED BY <2>1, Zenon DEF Element, Block, Program, builder_data
<1>2. /\ n \in Nat /\ n + 1 \in DOMAIN data /\ e \in Part(data)
      /\ "long" \in Part(data) /\ "short" \in Part(data)
  <2>1. data \in Seq({data[i] : i \in DOMAIN data})
    BY DEF IsSequence
  <2>2. n + 1 \in 1 .. Len(data) /\ n \in Nat
    BY <2>1
  <2> QED BY <2>1, <2>2 DEF Part, Leaders
<1>3. b \in Builder(data) /\ type \in Types
  BY TypeKnown DEF SoBuilt
<1> HIDE DEF e, type
<1>4. /\ long \in Seq(Part(data)) /\ short \in Seq(Part(data)) /\ byte \in Seq(Part(data))
      /\ ends \in BOOLEAN /\ first_type \in Types /\ b.data_bytes + 1 \in Nat
  <2>1. b.blocks \in Seq(Part(data)) /\ b.first_type \in Types /\ b.data_bytes \in Nat
    BY <1>3 DEF Builder
  <2> QED BY <1>2, <1>3, <2>1
<1> HIDE DEF long, short, byte, ends, first_type
<1>5. /\ started \in Builder(data) /\ started.block = "first" /\ started.blocks = long
      /\ next \in Builder(data) /\ next.block = "later" /\ next.blocks = short
  BY <1>3, <1>4 DEF Builder
<1>6. more \in Builder(data) /\ more.block = b.block /\ more.blocks = byte
  BY <1>3, <1>4 DEF Builder
<1>7. b.blocks \in Seq(Part(data))
  BY <1>3 DEF Builder
<1> HIDE DEF started, next, more, made
<1>8. ASSUME NEW part \in Part(data), b.block # "none",
             IF e = Header THEN part \in Leaders ELSE part = e
      PROVE  \E first \in 1 .. n + 1 :
                Played(Append(b.blocks, part), data, first, n + 1)
  <2>1. PICK first \in 1 .. n : Played(b.blocks, data, first, n)
    BY <1>8 DEF SoBuilt
  <2>2. Played(Append(b.blocks, part), data, first, n + 1)
    BY <1>2, <1>7, <1>8, <2>1, Appended DEF e
  <2>3. first \in 1 .. n + 1
    BY <1>2
  <2> QED BY <2>2, <2>3
<1>9. "long" \in Leaders /\ "short" \in Leaders
  BY DEF Leaders
<1>10. CASE e = Header /\ b.block # "none" /\ Continues(b)
  <2>1. made = next
    BY <1>1, <1>10
  <2> QED BY <1>2, <1>5, <1>8, <1>9, <1>10, <2>1 DEF SoBuilt, made, short
<1>11. CASE e = Header /\ b.block # "none" /\ ~Continues(b)
  <2>1. made = started
    BY <1>1, <1>11
  <2> QED BY <1>2, <1>5, <1>8, <1>9, <1>11, <2>1 DEF SoBuilt, made, long
<1>12. CASE e = Header /\ b.block = "none"
  <2>1. made = started
    BY <1>1, <1>12
  <2>2. b.blocks = <<>> /\ \A i \in 1 .. n : data[i] # Header
    BY <1>12 DEF SoBuilt
  <2>3. started.blocks = <<"long">>
    BY <1>5, <2>2 DEF long
  <2>4. Played(started.blocks, data, n + 1, n + 1)
    BY <1>2, <1>9, <1>12, <2>2, <2>3 DEF Played, e
  <2>5. n + 1 \in 1 .. n + 1
    BY <1>2
  <2> QED BY <1>5, <2>1, <2>4, <2>5 DEF SoBuilt, made
<1>13. CASE e # Header /\ b.block # "none"
  <2>1. made = more
    BY <1>1, <1>13
  <2> QED BY <1>2, <1>6, <1>8, <1>13, <2>1 DEF SoBuilt, made, byte
<1>14. CASE e # Header /\ b.block = "none"
  <2>1. made = b
    BY <1>1, <1>14
  <2>2. \A i \in 1 .. n + 1 : data[i] # Header
    BY <1>2, <1>14 DEF SoBuilt, e
  <2> QED BY <1>14, <2>1, <2>2 DEF SoBuilt, made
<1> QED BY <1>10, <1>11, <1>12, <1>13, <1>14

\* So the whole file is built,
LEMMA FileBuilt ==
    ASSUME NEW data, IsSequence(data)
    PROVE  SoBuilt(data, Len(data), build_msx_cas(data))
<1>1. Len(data) \in Nat
  BY DEF IsSequence
<1>2. PICK f : Build(data, f) /\ build_msx_cas(data) = f[Len(data)]
  BY <1>1, BuilderIs
<1>3. \A n \in 0 .. Len(data) :
         f[n] = IF n = 0 THEN StartBuilder ELSE Element(data, f[n - 1], n)
  BY <1>2 DEF Build
<1> DEFINE S == {n \in 0 .. Len(data) : SoBuilt(data, n, f[n])}
<1>4. 0 \in S
  <2>1. f[0] = StartBuilder /\ 0 \in 0 .. Len(data)
    BY <1>1, <1>3
  <2>2. SoBuilt(data, 0, StartBuilder)
    BY DEF SoBuilt, StartBuilder, Builder, Types
  <2> QED BY <2>1, <2>2
<1>5. ASSUME NEW k \in 0 .. (Len(data) - 1), k \in S PROVE k + 1 \in S
  <2>1. k + 1 \in 0 .. Len(data) /\ k + 1 # 0 /\ (k + 1) - 1 = k
    BY <1>1
  <2>2. f[k + 1] = Element(data, f[k], k + 1)
    BY <1>3, <2>1
  <2>3. SoBuilt(data, k, f[k])
    BY <1>5
  <2>4. SoBuilt(data, k + 1, f[k + 1])
    BY <2>2, <2>3, ElementBuilds
  <2> QED BY <2>1, <2>4
<1> HIDE DEF S
<1>6. \A k \in 0 .. Len(data) : k \in S
  BY <1>1, <1>4, <1>5, UpTo
<1>7. Len(data) \in S
  BY <1>1, <1>6
<1> QED BY <1>2, <1>7 DEF S

\* and the tape of a file that builds is the whole tape.
LEMMA WholeBuilt ==
    ASSUME NEW data, IsSequence(data), Builds(data)
    PROVE  WholeTape(build_msx_cas(data).blocks, data)
<1> DEFINE b == build_msx_cas(data)
           L == Len(data)
<1>1. SoBuilt(data, L, b) /\ b.data_bytes > 0
  BY FileBuilt DEF Builds
<1> HIDE DEF b
<1>2. b.block # "none"
  BY <1>1 DEF SoBuilt
<1>3. PICK first \in 1 .. L : Played(b.blocks, data, first, L)
  BY <1>1, <1>2 DEF SoBuilt
<1> DEFINE D == {data[i] : i \in DOMAIN data}
           played == SubSeq(data, first, L)
<1>4. data \in Seq(D) /\ L \in Nat /\ DOMAIN data = 1 .. L
  BY DEF IsSequence
<1> HIDE DEF D
<1>5. /\ Len(played) = L - first + 1
      /\ \A i \in 1 .. L - first + 1 : played[i] = data[i + first - 1]
  <2>1. Len(played) = L - first + 1
    BY <1>4
  <2>2. ASSUME NEW i \in 1 .. L - first + 1
        PROVE  played[i] = data[i + first - 1]
    BY <1>4
  <2> QED BY <2>1, <2>2
<1>6. b.blocks \in Seq(Part(data))
  BY <1>1 DEF SoBuilt, Builder
<1>7. DOMAIN b.blocks = 1 .. L - first + 1
  BY <1>3, <1>4, <1>6 DEF Played
<1> HIDE DEF played
<1>8. \A i \in DOMAIN b.blocks :
         IF played[i] = Header THEN b.blocks[i] \in Leaders ELSE b.blocks[i] = played[i]
  BY <1>3, <1>5, <1>7 DEF Played
<1> QED BY <1>3, <1>4, <1>5, <1>8 DEF WholeTape, Played, b, played

\* The samples of a tape are a number.
LEMMA Counted ==
    ASSUME TapeAssumption, NEW S, NEW blocks \in Seq(S)
    PROVE  SampleCount(blocks) \in Nat
<1> DEFINE At(part) == {i \in DOMAIN blocks : blocks[i] = part}
           L == Len(blocks)
           longs == Cardinality(At("long"))
           shorts == Cardinality(At("short"))
<1>1. IsFiniteSet(1 .. L) /\ Cardinality(1 .. L) = L /\ L \in Nat /\ DOMAIN blocks = 1 .. L
  <2>1. L \in Nat /\ DOMAIN blocks = 1 .. L
    OBVIOUS
  <2> HIDE DEF L
  <2> QED BY <2>1, FS_Interval
<1>2. /\ At("long") \subseteq 1 .. L /\ At("short") \subseteq 1 .. L
      /\ At("short") \subseteq (1 .. L) \ At("long")
  BY <1>1
<1> DEFINE A == At("long")
           B == At("short")
           rest == (1 .. L) \ A
<1>3. IsFiniteSet(A) /\ longs \in Nat /\ longs <= L
  <2>1. A \subseteq 1 .. L
    BY <1>2
  <2> HIDE DEF A, At
  <2> QED BY <1>1, <2>1, FS_Subset, FS_CardinalityType DEF A
<1>4. IsFiniteSet(rest) /\ Cardinality(rest) = L - longs
  <2>1. A \subseteq 1 .. L
    BY <1>2
  <2> DEFINE X == 1 .. L
  <2>2. Cardinality(X \ A) = Cardinality(X) - Cardinality(X \cap A) /\ IsFiniteSet(X \ A)
    <3> HIDE DEF X, A, At
    <3> QED BY <1>1, FS_Difference DEF X
  <2>3. X \cap A = A
    BY <2>1
  <2> QED BY <1>1, <2>2, <2>3
<1>5. shorts \in Nat /\ shorts <= L - longs
  <2>1. B \subseteq rest
    BY <1>2
  <2> HIDE DEF B, rest, A, At
  <2>2. Cardinality(B) \in Nat /\ Cardinality(B) <= Cardinality(rest)
    BY <1>4, <2>1, FS_Subset, FS_CardinalityType
  <2> QED BY <1>4, <2>2 DEF B
<1>6. SampleCount(blocks)
        = LongLeader * longs + ShortLeader * shorts + ByteSamples * (L - longs - shorts)
  BY DEF SampleCount
<1> HIDE DEF longs, shorts, L
<1> DEFINE bytes == L - longs - shorts
<1>7. bytes \in Nat
  BY <1>1, <1>3, <1>5
<1> HIDE DEF bytes
<1>8. /\ LongLeader * longs \in Nat /\ ShortLeader * shorts \in Nat
      /\ ByteSamples * bytes \in Nat
  BY <1>3, <1>5, <1>7 DEF TapeAssumption
<1> DEFINE p == LongLeader * longs
           q == ShortLeader * shorts
           r == ByteSamples * bytes
<1>9. SampleCount(blocks) = p + q + r
  BY <1>6 DEF bytes
<1> HIDE DEF p, q, r
<1>10. p \in Nat /\ q \in Nat /\ r \in Nat
  BY <1>8 DEF p, q, r
<1> QED BY <1>9, <1>10

\* The state of the player.
Tape ==
    [mounted : BOOLEAN, blocks : Seq(UNION {Part(Contents[f]) : f \in File}),
     sample_count : Nat, position : Nat, cycle_fraction : 0 .. CpuHz - 1,
     last_cycle : Nat, motor : BOOLEAN, file_type : Types]

\* The cycles that the tape has run and not been brought up to.
Behind(t, now) == IF t.mounted /\ t.motor THEN now - t.last_cycle ELSE 0

\* Where the tape is, to the fraction of a sample, in units of a cycle of the
\* CPU at the sample rate, and where the cycles it was to run have taken it.
InPlace(t, now, cs) ==
    /\ t.position <= t.sample_count /\ t.last_cycle <= now
    /\ ~t.mounted => t.sample_count = 0
    /\ t.position < t.sample_count =>
          LET there == t.position * CpuHz + t.cycle_fraction + Behind(t, now) * SampleRate
          IN  /\ cs * SampleRate <= there
              /\ cs < t.sample_count * CpuHz => cs * SampleRate = there
    /\ t.position = t.sample_count => t.sample_count * CpuHz <= cs * SampleRate

\* A tape that has been brought up to the cycle.
UpToDate(t, now, cs) ==
    /\ t.last_cycle = now /\ t.position <= t.sample_count
    /\ t.position < t.sample_count =>
          t.position * CpuHz + t.cycle_fraction = cs * SampleRate
    /\ t.position = t.sample_count => t.sample_count * CpuHz <= cs * SampleRate

\* All but where the tape is.
SameTape(t, u) ==
    /\ u.mounted = t.mounted /\ u.blocks = t.blocks /\ u.sample_count = t.sample_count
    /\ u.motor = t.motor /\ u.file_type = t.file_type

\* The tape is brought up to the CPU (cassette_sync): the samples and the rest of
\* the cycles are exactly those that have run.
LEMMA SyncWorks ==
    ASSUME TapeAssumption, NEW t \in Tape, NEW now \in Nat, NEW cs \in Nat,
           InPlace(t, now, cs)
    PROVE  /\ cassette_sync(t, now) \in Tape
           /\ SameTape(t, cassette_sync(t, now))
           /\ UpToDate(cassette_sync(t, now), now, cs)
<1> DEFINE H == CpuHz
           R == SampleRate
           delta == now - t.last_cycle
           left == t.sample_count - t.position
           whole == delta \div H
           rest == delta % H
           scaled == rest * R + t.cycle_fraction
           some == scaled \div H
           frac == scaled % H
           advance == whole * R + some
           here == [t EXCEPT !.last_cycle = now]
           there == t.position + advance
           at_end == [here EXCEPT !.position = t.sample_count, !.cycle_fraction = 0]
           moved == [here EXCEPT !.position = there, !.cycle_fraction = frac]
           full == whole >= (left + R - 1) \div R \/ advance >= left
           stays == delta <= 0 \/ ~t.mounted \/ ~t.motor \/ left <= 0
           goes == delta > 0 /\ t.mounted /\ t.motor /\ left > 0
           u == cassette_sync(t, now)
<1>1. u = CASE stays -> here [] goes -> (IF full THEN at_end ELSE moved)
  BY Zenon DEF cassette_sync
<1>2. H \in Nat \ {0} /\ R \in Nat \ {0}
  BY DEF TapeAssumption
<1>3. /\ t.last_cycle \in Nat /\ t.sample_count \in Nat /\ t.position \in Nat
      /\ t.cycle_fraction \in 0 .. H - 1 /\ t.mounted \in BOOLEAN /\ t.motor \in BOOLEAN
  BY DEF Tape
<1> HIDE DEF H, R
<1>4. delta \in Int /\ left \in Int /\ delta >= 0 /\ left >= 0
  BY <1>3 DEF InPlace
<1>5. whole \in Nat /\ rest \in 0 .. H - 1 /\ delta = whole * H + rest
  <2> HIDE DEF delta
  <2>1. whole \in Int /\ rest \in 0 .. H - 1 /\ delta = whole * H + rest
    BY ONLY <1>2, <1>4
  <2> HIDE DEF whole, rest
  <2>2. whole <= -1 => whole * H <= -H
    BY ONLY <1>2, <2>1
  <2> QED BY ONLY <1>2, <1>4, <2>1, <2>2
<1> HIDE DEF whole, rest
<1>6. scaled \in Nat
  BY ONLY <1>2, <1>3, <1>5
<1> HIDE DEF scaled
<1>7. some \in Nat /\ frac \in 0 .. H - 1 /\ scaled = some * H + frac
  <2>1. some \in Int /\ frac \in 0 .. H - 1 /\ scaled = some * H + frac
    BY ONLY <1>2, <1>6
  <2> HIDE DEF some, frac
  <2>2. some <= -1 => some * H <= -H
    BY ONLY <1>2, <2>1
  <2> QED BY ONLY <1>2, <1>6, <2>1, <2>2
<1> HIDE DEF some, frac
<1>8. advance \in Nat /\ there \in Nat
  <2>1. whole * R \in Nat
    BY ONLY <1>2, <1>5
  <2> QED BY ONLY <1>3, <1>7, <2>1
<1>9. there * H + frac = t.position * H + t.cycle_fraction + delta * R
  <2>1. there * H = t.position * H + (whole * H) * R + some * H
    BY ONLY <1>2, <1>3, <1>5, <1>7
  <2>2. delta * R = (whole * H) * R + rest * R
    <3> DEFINE w == whole * H
    <3>1. w \in Int /\ rest \in Int /\ R \in Int /\ delta = w + rest
      BY ONLY <1>2, <1>5
    <3> HIDE DEF w
    <3>2. delta * R = w * R + rest * R
      BY ONLY <3>1
    <3> QED BY ONLY <3>2 DEF w
  <2>3. scaled = rest * R + t.cycle_fraction
    BY DEF scaled
  <2> DEFINE a == there * H
             b == t.position * H
             c == (whole * H) * R
             d == some * H
             e == delta * R
             f == rest * R
  <2>4. a \in Int /\ b \in Int /\ c \in Int /\ d \in Int /\ e \in Int /\ f \in Int
    BY ONLY <1>2, <1>3, <1>4, <1>5, <1>7, <1>8
  <2>5. a = b + c + d /\ e = c + f /\ scaled = f + t.cycle_fraction /\ scaled = d + frac
    BY <1>7, <2>1, <2>2, <2>3
  <2> HIDE DEF a, b, c, d, e, f, there
  <2>6. a + frac = b + t.cycle_fraction + e
    BY ONLY <1>3, <1>7, <2>4, <2>5
  <2> QED BY <2>6 DEF a, b, e
<1>10. /\ here \in Tape /\ here.last_cycle = now /\ SameTape(t, here)
       /\ here.position = t.position /\ here.cycle_fraction = t.cycle_fraction
       /\ at_end \in Tape /\ at_end.last_cycle = now /\ SameTape(t, at_end)
       /\ at_end.position = t.sample_count
  <2>1. /\ here \in Tape /\ here.last_cycle = now /\ SameTape(t, here)
        /\ here.position = t.position /\ here.cycle_fraction = t.cycle_fraction
    BY DEF Tape, SameTape
  <2> HIDE DEF here
  <2>2. 0 \in 0 .. CpuHz - 1
    BY <1>2 DEF H
  <2>3. /\ at_end \in Tape /\ at_end.last_cycle = now /\ SameTape(t, at_end)
        /\ at_end.position = t.sample_count
    BY <1>3, <2>1, <2>2 DEF Tape, SameTape
  <2> QED BY <2>1, <2>3
<1> HIDE DEF advance, there
<1>11. /\ moved \in Tape /\ moved.last_cycle = now /\ SameTape(t, moved)
       /\ moved.position = there /\ moved.cycle_fraction = frac
  <2> HIDE DEF here
  <2>1. frac \in 0 .. CpuHz - 1
    BY <1>7 DEF H
  <2> QED BY <1>8, <1>10, <2>1 DEF Tape, SameTape
<1> HIDE DEF here, at_end, moved
<1>12. full <=> advance >= left
  <2> DEFINE q == (left + R - 1) \div R
             n == left + R - 1
             m == n % R
  <2>1. q \in Int /\ m \in 0 .. R - 1 /\ n = q * R + m /\ n = left + R - 1
    BY ONLY <1>2, <1>4
  <2> HIDE DEF q, n, m, left
  <2>2. whole >= q => whole * R >= q * R
    BY ONLY <1>2, <1>5, <2>1
  <2> DEFINE a == whole * R
             b == q * R
  <2>3. a \in Int /\ b \in Int /\ advance = a + some /\ (whole >= q => a >= b)
        /\ n = b + m
    BY <1>2, <1>5, <2>1, <2>2 DEF advance
  <2> HIDE DEF a, b
  <2>4. whole >= q => advance >= left
    BY ONLY <1>2, <1>4, <1>7, <1>8, <2>1, <2>3
  <2> QED BY <2>4 DEF q
<1>13. left > 0 <=> t.position < t.sample_count
  BY ONLY <1>3
<1>14. t.position < t.sample_count =>
          /\ (t.position + 1) * H <= t.sample_count * H
          /\ t.position * H + t.cycle_fraction < t.sample_count * H
  <2> DEFINE k == t.sample_count - t.position
             a == t.position * H
             b == t.sample_count * H
  <2>1. b = a + k * H /\ k \in Int /\ a \in Int /\ b \in Int
    BY ONLY <1>2, <1>3
  <2>2. k >= 1 => k * H >= H
    BY ONLY <1>2, <2>1
  <2>3. (t.position + 1) * H = a + H
    BY ONLY <1>2, <1>3
  <2>4. t.position < t.sample_count => k >= 1
    BY ONLY <1>3
  <2> DEFINE c == k * H
  <2>5. c \in Int
    BY ONLY <1>2, <2>1
  <2> HIDE DEF a, b, c, k
  <2>6. t.position < t.sample_count => a + H <= b /\ a + t.cycle_fraction < b
    BY ONLY <1>2, <1>3, <2>1, <2>2, <2>4, <2>5 DEF c
  <2> QED BY <2>3, <2>6 DEF a, b
<1>15. cs * R \in Nat
  BY ONLY <1>2, cs \in Nat
\* The cycles that do not count any more are enough for the whole tape.
<1>16. ~(cs < t.sample_count * H) => t.sample_count * H <= cs * R
  <2> DEFINE b == t.sample_count * H
  <2>1. b \in Nat
    BY ONLY <1>2, <1>3
  <2> HIDE DEF b
  <2>2. cs * R >= cs
    BY ONLY <1>2, cs \in Nat
  <2>3. ~(cs < b) => b <= cs * R
    BY ONLY <1>15, <2>1, <2>2, cs \in Nat
  <2> QED BY <2>3 DEF b
<1>17. InPlace(t, now, cs)
  OBVIOUS
<1>18. stays \/ goes
  BY ONLY <1>3, <1>4
<1>19. CASE stays
  <2>1. u = here
    BY ONLY <1>1, <1>3, <1>4, <1>19
  <2>2. /\ t.position <= t.sample_count
        /\ t.position = t.sample_count => t.sample_count * H <= cs * R
    BY <1>17 DEF InPlace, H, R
  <2>3. t.position < t.sample_count => t.position * H + t.cycle_fraction = cs * R
    <3> SUFFICES ASSUME t.position < t.sample_count
                 PROVE  t.position * H + t.cycle_fraction = cs * R
      OBVIOUS
    <3>1. Behind(t, now) = 0
      BY <1>3, <1>4, <1>13, <1>19 DEF Behind
    <3>2. Behind(t, now) * R = 0
      BY ONLY <1>2, <3>1
    <3> DEFINE a == t.position * H
               b == t.sample_count * H
               c == cs * R
    <3>3. a \in Int /\ b \in Int /\ c \in Int
      BY ONLY <1>2, <1>3, <1>15
    <3>4. /\ c <= a + t.cycle_fraction + 0
          /\ cs < b => c = a + t.cycle_fraction + 0
      BY <1>17, <3>2 DEF InPlace, H, R
    <3>5. /\ a + t.cycle_fraction < b
          /\ ~(cs < b) => b <= c
      BY <1>14, <1>16
    <3> HIDE DEF a, b, c
    <3>6. a + t.cycle_fraction = c
      BY ONLY <1>3, <3>3, <3>4, <3>5
    <3> QED BY <3>6 DEF a, c
  <2>4. UpToDate(here, now, cs)
    BY <1>10, <2>2, <2>3 DEF UpToDate, SameTape, H, R
  <2> QED BY <1>10, <2>1, <2>4 DEF u
<1>20. CASE goes
  <2>1. u = IF full THEN at_end ELSE moved
    BY ONLY <1>1, <1>4, <1>20
  <2>2. Behind(t, now) = delta /\ t.position < t.sample_count
    BY <1>13, <1>20 DEF Behind
  <2> DEFINE a == there * H
             b == t.sample_count * H
             c == cs * R
             d == t.position * H + t.cycle_fraction + delta * R
  <2>3. a \in Int /\ b \in Int /\ c \in Int /\ d \in Int /\ a + frac = d
    <3>1. t.position * H \in Int /\ delta * R \in Int /\ there * H \in Int
      BY ONLY <1>2, <1>3, <1>4, <1>8
    <3>2. d \in Int
      BY ONLY <1>3, <3>1
    <3> QED BY ONLY <1>2, <1>3, <1>9, <1>15, <3>1, <3>2
  <2>4. c <= d /\ (cs < b => c = d) /\ (~(cs < b) => b <= c)
    BY <1>16, <1>17, <2>2 DEF InPlace, H, R
  <2>5. there - t.sample_count = advance - left /\ there \in Int
    BY <1>3, <1>4, <1>8 DEF there
  <2>6. /\ advance >= left => a >= b
        /\ ~(advance >= left) => a + H <= b
    <3> DEFINE k == there - t.sample_count
    <3>1. k \in Int /\ (advance >= left <=> k >= 0) /\ a = b + k * H
      <4>1. k \in Int /\ (advance >= left <=> k >= 0)
        BY ONLY <1>3, <1>4, <1>8, <2>5
      <4>2. a = b + k * H
        BY ONLY <1>2, <1>3, <2>5
      <4> QED BY <4>1, <4>2
    <3> HIDE DEF k, a, b
    <3>2. k >= 0 => k * H >= 0
      BY ONLY <1>2, <3>1
    <3>3. k <= -1 => k * H <= -H
      BY ONLY <1>2, <3>1
    <3> DEFINE e == k * H
    <3>4. e \in Int /\ a = b + e /\ (k >= 0 => e >= 0) /\ (k <= -1 => e <= -H)
      BY ONLY <1>2, <3>1, <3>2, <3>3
    <3> HIDE DEF e
    <3> QED BY ONLY <1>2, <2>3, <3>1, <3>4
  <2> HIDE DEF a, b, c, d
  <2>7. CASE full
    <3>1. u = at_end
      BY ONLY <2>1, <2>7
    <3>2. b <= c
      <4>1. a >= b
        BY ONLY <1>12, <2>6, <2>7
      <4> QED BY ONLY <1>7, <2>3, <2>4, <4>1
    <3>3. UpToDate(at_end, now, cs)
      BY <1>3, <1>10, <3>2 DEF UpToDate, SameTape, H, R, b, c
    <3> QED BY <1>10, <3>1, <3>3 DEF u
  <2>8. CASE ~full
    <3>1. u = moved
      BY ONLY <2>1, <2>8
    <3>2. a + frac = c
      <4>1. a + H <= b
        BY ONLY <1>12, <2>6, <2>8
      <4> QED BY ONLY <1>2, <1>7, <2>3, <2>4, <4>1
    <3>3. there < t.sample_count
      BY <1>3, <1>4, <1>8, <1>12, <2>5, <2>8
    <3>4. UpToDate(moved, now, cs)
      BY <1>3, <1>8, <1>11, <3>2, <3>3 DEF UpToDate, SameTape, H, R, a, c
    <3> QED BY <1>11, <3>1, <3>4 DEF u
  <2> QED BY <2>7, <2>8
<1> QED BY <1>18, <1>19, <1>20

\* A tape at its start (AtStart).
LEMMA AtStartWorks ==
    ASSUME TapeAssumption, NEW t \in Tape, NEW now \in Nat, NEW cs \in Nat,
           InPlace(t, now, cs)
    PROVE  /\ AtStart(t, now) \in Tape /\ SameTape(t, AtStart(t, now))
           /\ AtStart(t, now).position = 0 /\ AtStart(t, now).cycle_fraction = 0
           /\ AtStart(t, now).last_cycle = now
<1> DEFINE u == cassette_sync(t, now)
           v == [u EXCEPT !.position = 0, !.cycle_fraction = 0]
<1>1. AtStart(t, now) = v
  BY Zenon DEF AtStart
<1>2. u \in Tape /\ SameTape(t, u) /\ u.last_cycle = now
  BY SyncWorks DEF UpToDate
<1> HIDE DEF u
<1>3. 0 \in 0 .. CpuHz - 1
  BY DEF TapeAssumption
<1>4. /\ v \in Tape /\ SameTape(t, v) /\ v.position = 0 /\ v.cycle_fraction = 0
      /\ v.last_cycle = now
  BY <1>2, <1>3 DEF Tape, SameTape
<1> HIDE DEF v
<1> QED BY <1>1, <1>4

\* A tape at its start, of which nothing has run.
LEMMA StartInPlace ==
    ASSUME TapeAssumption, NEW t \in Tape, t.position = 0, t.cycle_fraction = 0,
           NEW now \in Nat, t.last_cycle = now, ~t.mounted => t.sample_count = 0
    PROVE  InPlace(t, now, 0)
<1>1. CpuHz \in Nat \ {0} /\ SampleRate \in Nat \ {0}
  BY DEF TapeAssumption
<1>2. t.sample_count \in Nat
  BY DEF Tape
<1>3. Behind(t, now) = 0
  BY DEF Behind
<1>4. 0 * CpuHz = 0 /\ 0 * SampleRate = 0
  BY ONLY <1>1
<1>5. t.sample_count = 0 => t.sample_count * CpuHz = 0
  BY <1>4
<1> QED BY <1>1, <1>2, <1>3, <1>4, <1>5 DEF InPlace

\* A tape that is mounted (cassette_mount).
LEMMA MountWorks ==
    ASSUME TapeAssumption, NEW t \in Tape, NEW now \in Nat, NEW cs \in Nat,
           InPlace(t, now, cs), NEW f \in File, Builds(Contents[f])
    PROVE  /\ cassette_mount(t, Contents[f], now) \in Tape
           /\ InPlace(cassette_mount(t, Contents[f], now), now, 0)
           /\ WholeTape(cassette_mount(t, Contents[f], now).blocks, Contents[f])
<1> DEFINE data == Contents[f]
           built == build_msx_cas(data)
           blocks == built.blocks
           count == SampleCount(blocks)
           first_type == built.first_type
           u == AtStart(t, now)
           v == [u EXCEPT !.mounted = TRUE, !.blocks = blocks, !.sample_count = count,
                          !.file_type = first_type]
<1>1. cassette_mount(t, Contents[f], now) = v
  BY Zenon DEF cassette_mount
<1>2. u \in Tape /\ u.position = 0 /\ u.cycle_fraction = 0 /\ u.last_cycle = now
  BY AtStartWorks
<1>3. IsSequence(data)
  BY DEF TapeAssumption
<1>4. built \in Builder(data)
  BY <1>3, FileBuilt DEF SoBuilt
<1> HIDE DEF built
<1>5. blocks \in Seq(Part(data)) /\ first_type \in Types
  BY <1>4 DEF Builder
<1>6. WholeTape(blocks, data)
  BY <1>3, WholeBuilt DEF built
<1> HIDE DEF blocks, first_type
<1>7. count \in Nat
  BY <1>5, Counted
<1>8. blocks \in Seq(UNION {Part(Contents[g]) : g \in File})
  <2>1. Part(data) \subseteq UNION {Part(Contents[g]) : g \in File}
    OBVIOUS
  <2> HIDE DEF data
  <2> QED BY <1>5, <2>1
<1> HIDE DEF u, count, data
<1>9. /\ v \in Tape /\ v.position = 0 /\ v.cycle_fraction = 0 /\ v.last_cycle = now
      /\ v.mounted /\ v.blocks = blocks
  BY <1>2, <1>5, <1>7, <1>8 DEF Tape
<1> HIDE DEF v
<1>10. InPlace(v, now, 0)
  BY <1>9, StartInPlace
<1> QED BY <1>1, <1>6, <1>9, <1>10 DEF data

\* No tape (cassette_eject).
LEMMA EjectWorks ==
    ASSUME TapeAssumption, NEW t \in Tape, NEW now \in Nat, NEW cs \in Nat,
           InPlace(t, now, cs)
    PROVE  /\ cassette_eject(t, now) \in Tape /\ ~cassette_eject(t, now).mounted
           /\ InPlace(cassette_eject(t, now), now, 0)
<1> DEFINE u == AtStart(t, now)
           v == [u EXCEPT !.mounted = FALSE, !.blocks = <<>>, !.sample_count = 0,
                          !.file_type = "unknown"]
<1>1. cassette_eject(t, now) = v
  BY Zenon DEF cassette_eject
<1>2. u \in Tape /\ u.position = 0 /\ u.cycle_fraction = 0 /\ u.last_cycle = now
  BY AtStartWorks
<1> HIDE DEF u
<1>3. <<>> \in Seq(UNION {Part(Contents[g]) : g \in File}) /\ "unknown" \in Types
  BY DEF Types
<1>4. /\ v \in Tape /\ v.position = 0 /\ v.cycle_fraction = 0 /\ v.last_cycle = now
      /\ ~v.mounted /\ v.sample_count = 0
  BY <1>2, <1>3 DEF Tape
<1> HIDE DEF v
<1> QED BY <1>1, <1>4, StartInPlace

\* The inductive invariant of the cassette.
TapeInv ==
    /\ tape \in Tape /\ cycles \in Nat /\ ran \in Nat
    /\ tape_path \in File \cup {NoFile} /\ saved_path \in File \cup {NoFile}
    /\ InPlace(tape, cycles, ran)
    /\ tape.mounted => /\ tape_path \in File
                       /\ WholeTape(tape.blocks, Contents[tape_path])

\* It implies what the run checks.
LEMMA TapeInvSays == TapeAssumption /\ TapeInv => TapeTrue
<1> SUFFICES ASSUME TapeAssumption, TapeInv PROVE TapeTrue
  OBVIOUS
<1>1. TapeIsTheFile
  BY DEF TapeInv, TapeIsTheFile, TapeAssumption
<1>2. TapeWhereItRan
  <2> DEFINE now == cassette_sync(tape, cycles)
             there == (ran * SampleRate) \div CpuHz
  <2>1. /\ now \in Tape /\ now.sample_count = tape.sample_count
        /\ UpToDate(now, cycles, ran)
    BY SyncWorks DEF TapeInv, SameTape
  <2> HIDE DEF now
  <2>2. /\ now.position \in Nat /\ now.sample_count \in Nat
        /\ now.cycle_fraction \in 0 .. CpuHz - 1
    BY <2>1 DEF Tape
  <2>3. CpuHz \in Nat \ {0} /\ SampleRate \in Nat \ {0} /\ ran \in Nat
    BY DEF TapeAssumption, TapeInv
  <2>4. CASE now.position < now.sample_count
    <3>1. now.position * CpuHz + now.cycle_fraction = ran * SampleRate
      BY <2>1, <2>4 DEF UpToDate
    <3>2. (now.position * CpuHz + now.cycle_fraction) \div CpuHz = now.position
      <4>1. now.position \in Int /\ now.cycle_fraction \in 0..(CpuHz - 1)
        BY <2>2
      <4> QED BY <2>3, <4>1, Division, Zenon
    <3>3. there = now.position
      BY <3>1, <3>2
    <3> HIDE DEF there
    <3> QED BY <2>1, <2>4, <3>3 DEF TapeWhereItRan, now, there
  <2>5. CASE ~(now.position < now.sample_count)
    <3>1. now.position = now.sample_count
      BY <2>1, <2>2, <2>5 DEF UpToDate
    <3>2. now.sample_count * CpuHz <= ran * SampleRate
      BY <2>1, <3>1 DEF UpToDate
    <3> DEFINE c == ran * SampleRate
               n == now.sample_count
               b == n * CpuHz
               m == c % CpuHz
    <3>3. c \in Nat /\ b \in Nat
      BY ONLY <2>2, <2>3
    <3>4. b <= c
      BY <3>2
    <3> HIDE DEF c
    <3>5. there \in Int /\ m \in 0 .. CpuHz - 1 /\ c = there * CpuHz + m
      BY ONLY <2>3, <3>3 DEF c
    <3> HIDE DEF there, m
    <3> DEFINE d == n - there
    <3>6. ~(there < n)
      <4>1. d \in Int /\ b = there * CpuHz + d * CpuHz
        BY ONLY <2>2, <2>3, <3>5
      <4> HIDE DEF b
      <4>2. d >= 1 => d * CpuHz >= CpuHz
        BY ONLY <2>3, <4>1
      <4> DEFINE e == there * CpuHz
                 g == d * CpuHz
      <4>3. e \in Int /\ g \in Int /\ b = e + g /\ c = e + m /\ (d >= 1 => g >= CpuHz)
        BY ONLY <2>3, <3>5, <4>1, <4>2
      <4> HIDE DEF e, g, d
      <4>4. ~(d >= 1)
        BY ONLY <2>3, <3>3, <3>4, <3>5, <4>1, <4>3
      <4> QED BY <2>2, <3>5, <4>4 DEF d
    <3> QED BY <2>1, <3>1, <3>6 DEF TapeWhereItRan, now, there, c
  <2> QED BY <2>4, <2>5
<1> QED BY <1>1, <1>2 DEF TapeTrue

\* A tape that is up to date is in place, at this cycle and at the first one.
LEMMA UpToDateInPlace ==
    ASSUME TapeAssumption, NEW t \in Tape, NEW now \in Nat, NEW cs \in Nat,
           UpToDate(t, now, cs), ~t.mounted => t.sample_count = 0,
           NEW u \in Tape, u.position = t.position, u.cycle_fraction = t.cycle_fraction,
           u.sample_count = t.sample_count, u.mounted = t.mounted,
           NEW then \in Nat, u.last_cycle = then
    PROVE  InPlace(u, then, cs)
<1>1. CpuHz \in Nat \ {0} /\ SampleRate \in Nat \ {0}
  BY DEF TapeAssumption
<1>2. u.position \in Nat /\ u.cycle_fraction \in Int /\ then \in Nat
  BY <1>1 DEF Tape
<1>3. Behind(u, then) = 0
  BY <1>2 DEF Behind
<1>4. Behind(u, then) * SampleRate = 0
  BY ONLY <1>1, <1>3
<1> DEFINE a == u.position * CpuHz
           b == u.sample_count * CpuHz
           c == cs * SampleRate
           e == Behind(u, then) * SampleRate
<1>5. a \in Int /\ c \in Int
  BY ONLY <1>1, <1>2, cs \in Nat
<1>6. /\ u.position < u.sample_count => a + u.cycle_fraction = c
      /\ u.position = u.sample_count => b <= c
  BY DEF UpToDate
<1>7. /\ u.position <= u.sample_count /\ u.last_cycle <= then
      /\ ~u.mounted => u.sample_count = 0
  BY <1>2 DEF UpToDate
<1>8. e = 0
  BY <1>4
<1>9. InPlace(u, then, cs) <=>
        /\ u.position <= u.sample_count /\ u.last_cycle <= then
        /\ ~u.mounted => u.sample_count = 0
        /\ u.position < u.sample_count =>
              /\ c <= a + u.cycle_fraction + e
              /\ cs < b => c = a + u.cycle_fraction + e
        /\ u.position = u.sample_count => b <= c
  BY Zenon DEF InPlace
<1> HIDE DEF a, b, c, e
<1> QED BY ONLY <1>2, <1>5, <1>6, <1>7, <1>8, <1>9

\* The CPU runs on.
LEMMA ElapseWorks ==
    ASSUME TapeAssumption, TapeInv, NEW d \in Runs, Elapse(d)
    PROVE  TapeInv'
<1>1. /\ cycles' = cycles + d /\ tape' = tape
      /\ tape_path' = tape_path /\ saved_path' = saved_path
      /\ ran' = IF tape.mounted /\ tape.motor /\ ran < tape.sample_count * CpuHz
                THEN ran + d ELSE ran
  BY DEF Elapse
<1>2. /\ tape \in Tape /\ cycles \in Nat /\ ran \in Nat /\ d \in Nat
      /\ CpuHz \in Nat \ {0} /\ SampleRate \in Nat \ {0}
  BY DEF TapeInv, TapeAssumption
<1>3. /\ tape.sample_count \in Nat /\ tape.position \in Nat /\ tape.last_cycle \in Nat
      /\ tape.cycle_fraction \in 0 .. CpuHz - 1
      /\ tape.mounted \in BOOLEAN /\ tape.motor \in BOOLEAN
  BY <1>2 DEF Tape
<1> DEFINE now == cycles + d
           more == IF tape.mounted /\ tape.motor /\ ran < tape.sample_count * CpuHz
                   THEN ran + d ELSE ran
           k == Behind(tape, cycles)
           l == Behind(tape, now)
           runs == tape.mounted /\ tape.motor
           a == tape.position * CpuHz
           b == tape.sample_count * CpuHz
           c == ran * SampleRate
           m == more * SampleRate
           e == k * SampleRate
           g == l * SampleRate
           h == d * SampleRate
<1>4. InPlace(tape, cycles, ran)
  BY DEF TapeInv
<1>5. /\ tape.position <= tape.sample_count /\ tape.last_cycle <= cycles
      /\ ~tape.mounted => tape.sample_count = 0
      /\ tape.position < tape.sample_count =>
              /\ c <= a + tape.cycle_fraction + e
              /\ ran < b => c = a + tape.cycle_fraction + e
      /\ tape.position = tape.sample_count => b <= c
  BY <1>4, Zenon DEF InPlace
<1>6. InPlace(tape, now, more) <=>
        /\ tape.position <= tape.sample_count /\ tape.last_cycle <= now
        /\ ~tape.mounted => tape.sample_count = 0
        /\ tape.position < tape.sample_count =>
              /\ m <= a + tape.cycle_fraction + g
              /\ more < b => m = a + tape.cycle_fraction + g
        /\ tape.position = tape.sample_count => b <= m
  BY Zenon DEF InPlace
<1>7. now \in Nat /\ more \in Nat
  BY ONLY <1>2
<1>8. /\ runs => l = k + d
      /\ ~runs => l = k
      /\ k \in Int /\ l \in Int
  BY ONLY <1>2, <1>3 DEF Behind
<1>9. b \in Nat
  BY ONLY <1>2, <1>3
<1>10. more = IF runs /\ ran < b THEN ran + d ELSE ran
  OBVIOUS
<1>11. runs \in BOOLEAN
  OBVIOUS
<1> HIDE DEF k, l, more, runs
<1>12. (k + d) * SampleRate = e + h /\ (ran + d) * SampleRate = c + h
  BY ONLY <1>2, <1>8
<1>13. /\ l = k + d => g = e + h
       /\ l = k => g = e
       /\ more = ran + d => m = c + h
       /\ more = ran => m = c
  BY <1>12
<1>14. /\ a \in Int /\ c \in Int /\ m \in Int /\ e \in Int /\ g \in Int
       /\ h \in Nat
  BY ONLY <1>2, <1>3, <1>7, <1>8
<1> HIDE DEF a, b, c, m, e, g, h
<1>15. InPlace(tape, now, more)
  BY ONLY <1>2, <1>3, <1>5, <1>6, <1>8, <1>9, <1>10, <1>11, <1>13, <1>14
<1> QED BY <1>1, <1>2, <1>7, <1>15 DEF TapeInv, more

\* The tape up to date, with the motor as it is told.
LEMMA SyncedWorks ==
    ASSUME TapeAssumption, TapeInv, NEW motor \in BOOLEAN, NEW then \in Nat, NEW u,
           u = [cassette_sync(tape, cycles) EXCEPT !.motor = motor, !.last_cycle = then]
    PROVE  /\ u \in Tape /\ u.mounted = tape.mounted /\ u.blocks = tape.blocks
           /\ InPlace(u, then, ran)
<1> DEFINE t == cassette_sync(tape, cycles)
<1>1. t \in Tape /\ SameTape(tape, t) /\ UpToDate(t, cycles, ran)
  BY SyncWorks DEF TapeInv
<1>2. ~t.mounted => t.sample_count = 0
  BY <1>1 DEF TapeInv, InPlace, SameTape
<1> HIDE DEF t
<1> DEFINE v == [t EXCEPT !.motor = motor, !.last_cycle = then]
<1>3. /\ v \in Tape /\ v.position = t.position /\ v.cycle_fraction = t.cycle_fraction
      /\ v.sample_count = t.sample_count /\ v.mounted = t.mounted
      /\ v.blocks = t.blocks /\ v.last_cycle = then
  BY <1>1 DEF Tape
<1>4. u = v
  BY DEF t
<1> HIDE DEF v
<1>5. cycles \in Nat /\ ran \in Nat
  BY DEF TapeInv
<1>6. InPlace(v, then, ran)
  BY <1>1, <1>2, <1>3, <1>5, UpToDateInPlace
<1> QED BY <1>1, <1>3, <1>4, <1>6 DEF SameTape

\* The guest looks at the tape, switches the motor, or is reset.
LEMMA LookMotorResetWork ==
    ASSUME TapeAssumption, TapeInv, Look \/ Motor \/ msx_reset
    PROVE  TapeInv'
<1> DEFINE t == cassette_sync(tape, cycles)
<1>1. t \in Tape /\ SameTape(tape, t) /\ UpToDate(t, cycles, ran)
  BY SyncWorks DEF TapeInv
<1>2. cycles \in Nat /\ t.motor \in BOOLEAN /\ 0 \in Nat
  BY <1>1 DEF TapeInv, Tape
<1>3. /\ t = [t EXCEPT !.motor = t.motor, !.last_cycle = cycles]
      /\ \A on \in BOOLEAN : [t EXCEPT !.motor = on]
                                = [t EXCEPT !.motor = on, !.last_cycle = cycles]
  <2> HIDE DEF t
  <2>1. t.last_cycle = cycles
    BY <1>1 DEF UpToDate
  <2> QED BY <1>1, <2>1 DEF Tape
<1>4. \E motor \in BOOLEAN, then \in Nat :
         /\ tape' = [t EXCEPT !.motor = motor, !.last_cycle = then]
         /\ cycles' = then
  <2>1. CASE Look
    <3>1. tape' = t /\ cycles' = cycles
      BY <2>1, Zenon DEF Look
    <3> HIDE DEF t
    <3> QED BY <1>2, <1>3, <3>1
  <2>2. CASE Motor
    <3>1. PICK on \in BOOLEAN : tape' = [t EXCEPT !.motor = on]
      BY <2>2, Zenon DEF Motor, cassette_set_motor
    <3>2. cycles' = cycles
      BY <2>2 DEF Motor
    <3> HIDE DEF t
    <3> QED BY <1>2, <1>3, <3>1, <3>2
  <2>3. CASE msx_reset
    <3>1. tape' = [t EXCEPT !.motor = FALSE, !.last_cycle = 0] /\ cycles' = 0
      BY <2>3, Zenon DEF msx_reset, cassette_reset
    <3> HIDE DEF t
    <3> QED BY <3>1
  <2> QED BY <2>1, <2>2, <2>3
<1>5. PICK motor \in BOOLEAN, then \in Nat :
         /\ tape' = [t EXCEPT !.motor = motor, !.last_cycle = then]
         /\ cycles' = then
  BY <1>4
<1>6. /\ tape' \in Tape /\ tape'.mounted = tape.mounted /\ tape'.blocks = tape.blocks
      /\ InPlace(tape', then, ran)
  BY <1>5, SyncedWorks
<1>7. UNCHANGED <<tape_path, saved_path, ran>>
  BY DEF Look, Motor, msx_reset
<1> QED BY <1>5, <1>6, <1>7 DEF TapeInv

\* The settings: another tape, none, or this one from its start.
LEMMA SettingsWork ==
    ASSUME TapeAssumption, TapeInv,
           \/ \E f \in File : Insert(f)
           \/ Eject \/ Rewind \/ OpenSession \/ KeepTape \/ restore_cassette
    PROVE  TapeInv'
<1>1. /\ tape \in Tape /\ cycles \in Nat /\ ran \in Nat /\ InPlace(tape, cycles, ran)
      /\ tape_path \in File \cup {NoFile} /\ saved_path \in File \cup {NoFile}
  BY DEF TapeInv
<1>2. /\ cassette_eject(tape, cycles) \in Tape /\ ~cassette_eject(tape, cycles).mounted
      /\ InPlace(cassette_eject(tape, cycles), cycles, 0)
  BY <1>1, EjectWorks
<1>3. \A f \in File : Builds(Contents[f]) =>
          /\ cassette_mount(tape, Contents[f], cycles) \in Tape
          /\ InPlace(cassette_mount(tape, Contents[f], cycles), cycles, 0)
          /\ WholeTape(cassette_mount(tape, Contents[f], cycles).blocks, Contents[f])
  BY <1>1, MountWorks
<1>4. ASSUME NEW f \in File, Builds(Contents[f]), cycles' = cycles, ran' = 0,
             tape' = cassette_mount(tape, Contents[f], cycles), tape_path' = f,
             saved_path' = saved_path
      PROVE  TapeInv'
  BY <1>1, <1>3, <1>4 DEF TapeInv
<1>5. ASSUME cycles' = cycles, ran' = 0, tape' = cassette_eject(tape, cycles),
             tape_path' \in File \cup {NoFile}, saved_path' = saved_path
      PROVE  TapeInv'
  BY <1>1, <1>2, <1>5 DEF TapeInv
<1>6. ASSUME UNCHANGED <<tape, cycles, ran, tape_path>>,
             saved_path' \in File \cup {NoFile}
      PROVE  TapeInv'
  BY <1>6 DEF TapeInv
<1>7. ASSUME NEW f \in File, Insert(f) PROVE TapeInv'
  <2>1. cycles' = cycles /\ saved_path' = saved_path
    BY <1>7 DEF Insert
  <2>2. CASE UNCHANGED <<tape, tape_path, ran>>
    BY <1>1, <1>6, <2>1, <2>2
  <2>3. CASE /\ Builds(Contents[f])
             /\ tape' = cassette_mount(tape, Contents[f], cycles)
             /\ tape_path' = f /\ ran' = 0
    BY <1>4, <2>1, <2>3
  <2> QED BY <1>7, <2>2, <2>3 DEF Insert
<1>8. ASSUME Eject PROVE TapeInv'
  BY <1>5, <1>8 DEF Eject
<1>9. ASSUME Rewind PROVE TapeInv'
  <2> DEFINE u == AtStart(tape, cycles)
  <2>1. /\ tape' = u /\ ran' = 0
        /\ UNCHANGED <<cycles, tape_path, saved_path>>
    BY <1>9, Zenon DEF Rewind, cassette_rewind
  <2>2. /\ u \in Tape /\ SameTape(tape, u) /\ u.position = 0 /\ u.cycle_fraction = 0
        /\ u.last_cycle = cycles
    BY <1>1, AtStartWorks
  <2> HIDE DEF u
  <2>3. ~u.mounted => u.sample_count = 0
    BY <1>1, <2>2 DEF InPlace, SameTape
  <2>4. InPlace(u, cycles, 0)
    BY <1>1, <2>2, <2>3, StartInPlace
  <2> QED BY <1>1, <2>1, <2>2, <2>4 DEF TapeInv, SameTape
<1>10. ASSUME OpenSession \/ KeepTape PROVE TapeInv'
  BY <1>1, <1>6, <1>10 DEF OpenSession, KeepTape
<1>11. ASSUME restore_cassette PROVE TapeInv'
  <2>1. /\ tape_path' = saved_path /\ cycles' = cycles /\ saved_path' = saved_path
    BY <1>11 DEF restore_cassette
  <2>2. CASE tape_path = saved_path /\ tape.mounted = (saved_path # NoFile)
    <3>1. UNCHANGED <<tape, ran>>
      BY <1>11, <2>2 DEF restore_cassette
    <3> QED BY <1>1, <1>6, <2>1, <2>2, <3>1
  <2>3. CASE ~(tape_path = saved_path /\ tape.mounted = (saved_path # NoFile))
    <3>1. /\ ran' = 0
          /\ \/ tape' = cassette_eject(tape, cycles)
             \/ /\ saved_path # NoFile /\ Builds(Contents[saved_path])
                /\ tape' = cassette_mount(tape, Contents[saved_path], cycles)
      BY <1>11, <2>3 DEF restore_cassette
    <3> QED BY <1>1, <1>4, <1>5, <2>1, <3>1
  <2> QED BY <2>2, <2>3
<1> QED BY <1>7, <1>8, <1>9, <1>10, <1>11

\* The invariant holds initially.
LEMMA TapeStarts == TapeAssumption /\ TapeInit => TapeInv
<1> SUFFICES ASSUME TapeAssumption, TapeInit PROVE TapeInv
  OBVIOUS
<1>1. /\ tape_path \in File \cup {NoFile} /\ saved_path = tape_path /\ cycles = 0
      /\ ran = 0
  BY DEF TapeInit
<1>2. /\ Silent \in Tape /\ ~Silent.mounted /\ Silent.position = 0
      /\ Silent.cycle_fraction = 0 /\ Silent.last_cycle = 0 /\ Silent.sample_count = 0
  <2>1. 0 \in 0 .. CpuHz - 1
    BY DEF TapeAssumption
  <2> QED BY <2>1 DEF Silent, Tape, Types
<1>3. InPlace(Silent, 0, 0)
  BY <1>2, StartInPlace
<1>4. CASE tape = Silent
  BY <1>1, <1>2, <1>3, <1>4 DEF TapeInv
<1>5. CASE tape # Silent
  <2>1. /\ tape_path # NoFile /\ Builds(Contents[tape_path])
        /\ tape = cassette_mount(Silent, Contents[tape_path], 0)
    BY <1>5 DEF TapeInit
  <2>2. tape_path \in File
    BY <1>1, <2>1
  <2>3. /\ tape \in Tape /\ InPlace(tape, 0, 0)
        /\ WholeTape(tape.blocks, Contents[tape_path])
    BY <1>2, <1>3, <2>1, <2>2, MountWorks
  <2> QED BY <1>1, <2>2, <2>3 DEF TapeInv
<1> QED BY <1>4, <1>5

\* For any files, clock and sample rates: the tape under the head is the whole
\* file, and is where the time that the motor ran has brought it (TapeTrue;
\* cassette.c).
THEOREM TapeIsTrue ==
    ASSUME TapeAssumption
    PROVE  TapeSpec => []TapeTrue
<1>1. TapeInit => TapeInv
  BY TapeStarts
<1>2. TapeInv /\ [TapeNext]_tapevars => TapeInv'
  <2> SUFFICES ASSUME TapeInv, [TapeNext]_tapevars PROVE TapeInv'
    OBVIOUS
  <2>1. CASE UNCHANGED tapevars
    BY <2>1 DEF tapevars, TapeInv
  <2>2. CASE TapeNext
    BY <2>2, ElapseWorks, LookMotorResetWork, SettingsWork DEF TapeNext
  <2> QED BY <2>1, <2>2
<1>3. TapeInv => TapeTrue
  BY TapeInvSays
<1> QED BY <1>1, <1>2, <1>3, PTL DEF TapeSpec

---------------------------------------------------------------------------
(* Settings.                                                               *)


Excluding == {"msx_scsi", "cdx2"}

GoodConfig(c) ==
    /\ DOMAIN c = {"on", "rom", "image", "mode", "cart", "d0", "bank", "machine"}
    /\ c.on \subseteq kit
GoodMachine(m) ==
    /\ DOMAIN m = {"slot", "rom", "bay", "cart", "d0", "machine", "firmware"}
    /\ DOMAIN m.slot = Placed
    /\ \A d \in Excluding : m.slot[d] # -1 => d \in kit
GoodUi(u) ==
    DOMAIN u = {"visible", "dirty", "state", "device", "editing", "pending",
                "discard"}
Good(w) ==
    /\ DOMAIN w = {"c", "m", "ui", "fail", "ok", "fresh", "lost"}
    /\ w.fail = 0 /\ w.ok \in BOOLEAN /\ GoodConfig(w.c) /\ GoodMachine(w.m) /\ GoodUi(w.ui)

\* What happens to the machine alone.
Moves(w, v) == Good(v) /\ v.c = w.c /\ v.ui = w.ui

LEMMA PlacedDevices ==
    /\ Placed = {"sunrise_ide", "msx_scsi", "sd_mapper", "megaflash",
                 "cdx2", "rdf600", "rs232", "powergraph_v9990"}
    /\ Drives = {"sunrise_ide", "msx_scsi", "sd_mapper", "megaflash"}
    /\ Controllers = {"cdx2", "rdf600"}
BY DEF Placed, Drives, Controllers

LEMMA ExcludingPlaced == Excluding \subseteq Placed
BY DEF Excluding, Placed, Drives, Controllers

LEMMA FineMoves ==
    ASSUME NEW w, Good(w)
    PROVE  Moves(w, Fine(w)) /\ Fine(w).ok = TRUE /\ Fine(w).m = w.m
BY DEF Fine, Good, Moves

LEMMA FailedMoves ==
    ASSUME NEW w, Good(w)
    PROVE  Moves(w, Failed(w)) /\ Failed(w).ok = FALSE /\ Failed(w).m = w.m
BY DEF Failed, Good, Moves

LEMMA CalledMoves ==
    ASSUME NEW w, Good(w)
    PROVE  Moves(w, Called(w)) /\ Called(w).ok = TRUE /\ Called(w).m = w.m
<1>1. Called(w) = [w EXCEPT !.fail = 0, !.ok = TRUE]
  <2>1. (w.fail # 1) = TRUE /\ (IF w.fail > 0 THEN w.fail - 1 ELSE 0) = 0
    BY DEF Good
  <2> QED BY <2>1 DEF Called
<1> QED BY <1>1 DEF Good, Moves

LEMMA ShutBayMoves ==
    ASSUME NEW w, Good(w), NEW b
    PROVE  /\ Moves(w, ShutBay(w, b)) /\ ShutBay(w, b).ok = TRUE
           /\ ShutBay(w, b).m.slot = w.m.slot
<1> DEFINE x == IF w.m.bay[b] = NoDisk \/ DeviceOf[b] = "floppy" THEN Fine(w)
                                                                 ELSE Called(w)
<1>1. Moves(w, x) /\ x.ok = TRUE /\ x.m = w.m
  BY FineMoves, CalledMoves
<1> DEFINE y == [x EXCEPT !.m.bay[b] = NoDisk]
<1>2. ShutBay(w, b) = [y EXCEPT !.lost = @ \/ ~x.ok]
  BY DEF ShutBay
<1> HIDE DEF x
<1>3. Moves(w, y) /\ y.ok = TRUE /\ y.m.slot = w.m.slot
  BY <1>1 DEF Moves, Good, GoodMachine
<1> HIDE DEF y
<1> QED BY <1>2, <1>3 DEF Moves, Good

LEMMA EjectBayMoves ==
    ASSUME NEW w, Good(w), NEW b
    PROVE  /\ Moves(w, EjectBay(w, b)) /\ EjectBay(w, b).ok = TRUE
           /\ EjectBay(w, b).m.slot = w.m.slot
<1> DEFINE x == IF w.m.bay[b][2] = "rw" /\ b \notin w.fresh THEN Called(w) ELSE Fine(w)
<1>1. Moves(w, x) /\ x.ok = TRUE /\ x.m = w.m
  BY FineMoves, CalledMoves
<1>2. EjectBay(w, b) = ShutBay(x, b)
  BY <1>1 DEF EjectBay, Then
<1> HIDE DEF x
<1> QED BY <1>1, <1>2, ShutBayMoves DEF Moves

LEMMA MountBayMoves ==
    ASSUME NEW w, Good(w), NEW b, NEW path, NEW mode
    PROVE  /\ Moves(w, MountBay(w, b, path, mode))
           /\ MountBay(w, b, path, mode).m.slot = w.m.slot
           /\ DeviceOf[b] = "floppy" \/ Connected(w.m, DeviceOf[b])
                => MountBay(w, b, path, mode).ok = TRUE
<1> DEFINE c == Called(w)
           x == EjectBay(c, b)
           y == [x EXCEPT !.m.bay[b] = <<path, mode>>, !.fresh = @ \cup {b}]
<1>1. Moves(w, c) /\ c.ok = TRUE /\ c.m = w.m
  BY CalledMoves
<1> HIDE DEF c
<1>2. Moves(w, x) /\ x.ok = TRUE /\ x.m.slot = w.m.slot
  BY <1>1, EjectBayMoves DEF Moves
<1>3. MountBay(w, b, path, mode) = IF DeviceOf[b] # "floppy" /\ ~Connected(w.m, DeviceOf[b])
                                   THEN Failed(w) ELSE y
  BY <1>1, <1>2 DEF MountBay, Then, c
<1> HIDE DEF x
<1>4. Moves(w, y) /\ y.ok = TRUE /\ y.m.slot = w.m.slot
  BY <1>2 DEF Moves, Good, GoodMachine
<1> QED BY <1>3, <1>4, FailedMoves

\* Of one operation after the other.
LEMMA EjectBaysMoves ==
    ASSUME NEW w, Good(w), NEW S
    PROVE  LET v == InTurn(Fine(w), EjectBay, S)
           IN  Moves(w, v) /\ v.ok = TRUE /\ v.m.slot = w.m.slot
<1> DEFINE Nth(v, i) == IF i <= Len(S) THEN IF v.ok THEN EjectBay(v, S[i]) ELSE v ELSE v
           Ok(v) == Moves(w, v) /\ v.ok = TRUE /\ v.m.slot = w.m.slot
<1>1. ASSUME NEW v, Ok(v), NEW i PROVE Ok(Nth(v, i))
  BY <1>1, EjectBayMoves DEF Moves
<1>2. Ok(Fine(w))
  BY FineMoves
<1>3. InTurn(Fine(w), EjectBay, S) = Nth(Nth(Nth(Nth(Fine(w), 1), 2), 3), 4)
  BY DEF InTurn, OneByOne
<1> HIDE DEF Nth, Ok
<1>4. Ok(Nth(Nth(Nth(Nth(Fine(w), 1), 2), 3), 4))
  <2>1. Ok(Nth(Fine(w), 1))
    BY <1>1, <1>2
  <2>2. Ok(Nth(Nth(Fine(w), 1), 2))
    BY <1>1, <2>1
  <2>3. Ok(Nth(Nth(Nth(Fine(w), 1), 2), 3))
    BY <1>1, <2>2
  <2> QED BY <1>1, <2>3
<1> QED BY <1>3, <1>4 DEF Ok

LEMMA ShutBaysMoves ==
    ASSUME NEW w, Good(w), NEW x, Moves(w, x), x.ok = TRUE,
           x.m.slot = w.m.slot, NEW S
    PROVE  LET v == InTurn(x, ShutBay, S)
           IN  Moves(w, v) /\ v.ok = TRUE /\ v.m.slot = w.m.slot
<1> DEFINE Nth(v, i) == IF i <= Len(S) THEN IF v.ok THEN ShutBay(v, S[i]) ELSE v ELSE v
           Ok(v) == Moves(w, v) /\ v.ok = TRUE /\ v.m.slot = w.m.slot
<1>1. ASSUME NEW v, Ok(v), NEW i PROVE Ok(Nth(v, i))
  BY <1>1, ShutBayMoves DEF Moves
<1>2. Ok(x)
  OBVIOUS
<1>3. InTurn(x, ShutBay, S) = Nth(Nth(Nth(Nth(x, 1), 2), 3), 4)
  BY DEF InTurn, OneByOne
<1> HIDE DEF Nth, Ok
<1>4. Ok(Nth(Nth(Nth(Nth(x, 1), 2), 3), 4))
  <2>1. Ok(Nth(x, 1))
    BY <1>1, <1>2
  <2>2. Ok(Nth(Nth(x, 1), 2))
    BY <1>1, <2>1
  <2>3. Ok(Nth(Nth(Nth(x, 1), 2), 3))
    BY <1>1, <2>2
  <2> QED BY <1>1, <2>3
<1> QED BY <1>3, <1>4 DEF Ok

---------------------------------------------------------------------------
(* Taking out, putting in, moving.                                         *)

LEMMA EjectDeviceMoves ==
    ASSUME NEW w, Good(w), NEW d
    PROVE  Moves(w, EjectDevice(w, d)) /\ EjectDevice(w, d).ok = TRUE
<1>1. Moves(w, EjectMegaflash(w)) /\ EjectMegaflash(w).ok = TRUE
  <2> DEFINE x == IF Connected(w.m, "megaflash") THEN Called(w) ELSE Fine(w)
  <2>1. Moves(w, x) /\ x.ok = TRUE /\ x.m.slot = w.m.slot
    BY FineMoves, CalledMoves
  <2> DEFINE y == InTurn(x, ShutBay, BaysOf["megaflash"])
  <2>2. Moves(w, y) /\ y.ok = TRUE
    BY <2>1, ShutBaysMoves
  <2>3. EjectMegaflash(w) = [y EXCEPT !.m.slot["megaflash"] = -1]
    BY <2>2 DEF EjectMegaflash, Then
  <2> HIDE DEF x, y
  <2> QED BY ExcludingPlaced, <2>2, <2>3 DEF Moves, Good, GoodMachine, Excluding
<1>2. Moves(w, EjectSunrise(w)) /\ EjectSunrise(w).ok = TRUE
  <2> DEFINE x == EjectBay(w, "ide")
  <2>1. Moves(w, x) /\ x.ok = TRUE
    BY EjectBayMoves
  <2> DEFINE y == [x EXCEPT !.m.slot["sunrise_ide"] = -1]
  <2>2. EjectSunrise(w) = [y EXCEPT !.m.slot["rs232"] = -1]
    BY <2>1 DEF EjectSunrise, Then
  <2> HIDE DEF x
  <2>3. Moves(w, y) /\ y.ok = TRUE
    BY ExcludingPlaced, <2>1 DEF Moves, Good, GoodMachine, Excluding
  <2> HIDE DEF y
  <2> QED BY ExcludingPlaced, <2>2, <2>3 DEF Moves, Good, GoodMachine, Excluding
<1>3. Moves(w, EjectDrive(w, d)) /\ EjectDrive(w, d).ok = TRUE
  <2> DEFINE x == InTurn(Fine(w), EjectBay, BaysOf[d])
  <2>1. Moves(w, x) /\ x.ok = TRUE
    BY EjectBaysMoves
  <2>2. d \notin {"megaflash", "sunrise_ide"} => EjectDrive(w, d) = [x EXCEPT !.m.slot[d] = -1]
    BY <2>1 DEF EjectDrive, Then
  <2> HIDE DEF x
  <2>3. CASE d \notin {"megaflash", "sunrise_ide"}
    BY ExcludingPlaced, <2>1, <2>2, <2>3 DEF Moves, Good, GoodMachine, Excluding
  <2>4. CASE d \in {"megaflash", "sunrise_ide"}
    BY <2>4, <1>1, <1>2 DEF EjectDrive
  <2> QED BY <2>3, <2>4
<1>4. Moves(w, EjectController(w, d)) /\ EjectController(w, d).ok = TRUE
  <2>1. Moves(w, Fine(w)) /\ Fine(w).ok = TRUE /\ Fine(w).m = w.m
    BY FineMoves
  <2> DEFINE x == Fine(w)
  <2>2. EjectController(w, d) = IF w.m.slot[d] = -1 THEN x
                 ELSE [x EXCEPT !.m.slot[d] = -1, !.m.cart[w.m.slot[d]] = NoCart]
    BY DEF EjectController
  <2> HIDE DEF x
  <2> QED BY ExcludingPlaced, <2>1, <2>2 DEF x, Moves, Good, GoodMachine, Excluding
<1> QED BY <1>3, <1>4 DEF EjectDevice

LEMMA InstallCartMoves ==
    ASSUME NEW w, Good(w), NEW s, NEW content
    PROVE  /\ Moves(w, InstallCart(w, s, content)) /\ InstallCart(w, s, content).ok = TRUE
           /\ Moves(w, EjectCart(w, s)) /\ EjectCart(w, s).ok = TRUE
<1>1. Moves(w, ReleaseSlot(w, s)) /\ ReleaseSlot(w, s).ok = TRUE
  <2> DEFINE e == EjectBay(w, "scsi")
             x == IF w.m.slot["msx_scsi"] # s THEN Fine(w)
                  ELSE [e EXCEPT !.m.slot["msx_scsi"] = -1]
  <2>1. Moves(w, e) /\ e.ok = TRUE
    BY EjectBayMoves
  <2>2. ReleaseSlot(w, s) =
          [x EXCEPT !.m.slot = [d \in Placed |->
              IF d \in Controllers /\ x.m.slot[d] = s THEN -1 ELSE x.m.slot[d]]]
    <3>1. x = IF w.m.slot["msx_scsi"] # s THEN Fine(w)
              ELSE Then(EjectBay(w, "scsi"), LAMBDA v : [v EXCEPT !.m.slot["msx_scsi"] = -1])
      BY <2>1 DEF Then
    <3>2. x.ok = TRUE
      BY <2>1, FineMoves DEF Moves, Good
    <3> QED BY <3>1, <3>2 DEF ReleaseSlot, Then
  <2> HIDE DEF e
  <2>3. Moves(w, x) /\ x.ok = TRUE
    BY ExcludingPlaced, <2>1, FineMoves DEF Moves, Good, GoodMachine, Excluding
  <2> HIDE DEF x
  <2>4. Excluding \subseteq Placed
    BY DEF Excluding, Placed, Drives, Controllers
  <2> QED BY <2>2, <2>3, <2>4 DEF Moves, Good, GoodMachine
<1>2. ASSUME NEW c
      PROVE  Moves(w, InstallCart(w, s, c)) /\ InstallCart(w, s, c).ok = TRUE
  <2> DEFINE x == ReleaseSlot(w, s)
  <2>1. InstallCart(w, s, c) = [x EXCEPT !.m.cart[s] = c]
    BY <1>1 DEF InstallCart, Then
  <2> HIDE DEF x
  <2> QED BY <1>1, <2>1 DEF x, Moves, Good, GoodMachine
<1>3. Good(InstallCart(w, s, NoCart))
  BY <1>2 DEF Moves
<1>4. Moves(InstallCart(w, s, NoCart), Fine(InstallCart(w, s, NoCart)))
      /\ Fine(InstallCart(w, s, NoCart)).ok = TRUE
  BY <1>3, FineMoves
<1> QED BY <1>2, <1>4 DEF EjectCart, Moves

LEMMA LoadCartMoves ==
    ASSUME NEW w, Good(w), NEW s, NEW path
    PROVE  Moves(w, LoadCart(w, s, path)) /\ LoadCart(w, s, path).ok = TRUE
<1>1. Moves(w, Called(w)) /\ Called(w).ok = TRUE
  BY CalledMoves
<1>2. LoadCart(w, s, path) = InstallCart(Called(w), s, <<"user", path, FALSE>>)
  BY <1>1 DEF LoadCart, Then
<1> DEFINE x == Called(w)
<1>3. Moves(x, InstallCart(x, s, <<"user", path, FALSE>>))
      /\ InstallCart(x, s, <<"user", path, FALSE>>).ok = TRUE
  BY <1>1, InstallCartMoves DEF Moves
<1> HIDE DEF x
<1> QED BY <1>1, <1>2, <1>3 DEF x, Moves

\* The result of loading device d into slot s.
LoadedAt(v, d, s) == v.ok = TRUE /\ (d \in Placed => v.m.slot[d] = s)

\* A device that the user has is loaded, if it has a slot and a ROM.
LEMMA LoadDeviceMoves ==
    ASSUME NEW w, Good(w), ~(Excluding \subseteq kit), NEW d \in kit, NEW s,
           NEW rom, NEW bank, NEW d0
    PROVE  /\ Moves(w, LoadDevice(w, d, s, rom, bank, d0))
           /\ s # -1 /\ rom # Empty =>
                LoadedAt(LoadDevice(w, d, s, rom, bank, d0), d, s)
<1> DEFINE x == Called(w)
           y == InstallCart(x, s, <<d, rom, d = "cdx2" /\ bank>>)
           v == LoadDevice(w, d, s, rom, bank, d0)
<1>1. Moves(w, x) /\ x.ok = TRUE
  BY CalledMoves
<1>2. Moves(w, y) /\ y.ok = TRUE
  BY <1>1, InstallCartMoves DEF Moves
<1>3. ~(d = "msx_scsi" /\ w.m.slot["cdx2"] # -1)
      /\ ~(d = "cdx2" /\ Connected(w.m, "msx_scsi"))
  BY DEF Good, GoodMachine, Excluding, Connected
<1>4. v = IF s = -1 \/ rom = Empty THEN Failed(w)
          ELSE IF d \in Drives THEN LoadDrive(x, d, s, rom, d0)
          ELSE [y EXCEPT !.m.slot[d] = s]
  <2>1. Then(Called(w), LAMBDA u : IF d \in Drives THEN LoadDrive(u, d, s, rom, d0)
                  ELSE Then(InstallCart(u, s, <<d, rom, d = "cdx2" /\ bank>>),
                            LAMBDA t : [t EXCEPT !.m.slot[d] = s]))
           = IF d \in Drives THEN LoadDrive(x, d, s, rom, d0) ELSE [y EXCEPT !.m.slot[d] = s]
    BY <1>1, <1>2 DEF Then
  <2> QED BY <2>1, <1>3 DEF LoadDevice
<1> HIDE DEF x, y
<1>5. LET u == LoadDrive(x, d, s, rom, d0)
      IN  Moves(w, u) /\ u.ok = TRUE /\ (d \in Placed => u.m.slot[d] = s)
  BY ExcludingPlaced, <1>1 DEF LoadDrive, Moves, Good, GoodMachine, Excluding
<1>6. LET u == [y EXCEPT !.m.slot[d] = s]
      IN  Moves(w, u) /\ u.ok = TRUE /\ (d \in Placed => u.m.slot[d] = s)
  BY ExcludingPlaced, <1>2 DEF Moves, Good, GoodMachine, Excluding
<1> HIDE DEF v
<1> QED BY <1>4, <1>5, <1>6, FailedMoves DEF v, LoadedAt

\* The images of a device that is at work can be mounted.
LEMMA BaysAreOfTheDevice ==
    ASSUME NEW d \in DOMAIN BaysOf, NEW i \in 1 .. Len(BaysOf[d])
    PROVE  DeviceOf[BaysOf[d][i]] = d
<1>1. BaysOf = [e \in {"sunrise_ide", "msx_scsi", "sd_mapper", "megaflash", "floppy"} |->
                  BaysOf[e]]
      /\ BaysOf["sunrise_ide"] = <<"ide">> /\ BaysOf["msx_scsi"] = <<"scsi">>
      /\ BaysOf["sd_mapper"] = <<"sd_a", "sd_b">> /\ BaysOf["megaflash"] = <<"mf_a", "mf_b">>
      /\ BaysOf["floppy"] = <<"drive_a", "drive_b">>
  BY DEF BaysOf
<1>2. /\ ToSet(BaysOf["sunrise_ide"]) = {"ide"} /\ ToSet(BaysOf["msx_scsi"]) = {"scsi"}
      /\ ToSet(BaysOf["sd_mapper"]) = {"sd_a", "sd_b"}
      /\ ToSet(BaysOf["megaflash"]) = {"mf_a", "mf_b"}
      /\ ToSet(BaysOf["floppy"]) = {"drive_a", "drive_b"}
  <2>1. ASSUME NEW x PROVE ToSet(<<x>>) = {x}
    BY DEF ToSet
  <2>2. ASSUME NEW x, NEW y PROVE ToSet(<<x, y>>) = {x, y}
    BY DEF ToSet
  <2> QED BY <1>1, <2>1, <2>2
<1>3. d \in {"sunrise_ide", "msx_scsi", "sd_mapper", "megaflash", "floppy"}
  BY <1>1
<1> DEFINE b == BaysOf[d][i]
<1>4. b \in ToSet(BaysOf[d])
  BY DEF ToSet
<1>5. b \in Bay
  BY <1>4 DEF Bay
<1>6. \A e \in DOMAIN BaysOf : b \in ToSet(BaysOf[e]) => e = d
  BY <1>1, <1>2, <1>3, <1>4
<1>7. DeviceOf[b] = CHOOSE e \in DOMAIN BaysOf : b \in ToSet(BaysOf[e])
  BY <1>5 DEF DeviceOf
<1> QED BY <1>4, <1>6, <1>7

LEMMA MountAllMoves ==
    ASSUME NEW w, Good(w), NEW d \in DOMAIN BaysOf, NEW images, NEW c
    PROVE  LET v == MountAll(w, d, images, c)
           IN  /\ Moves(w, v)
               /\ w.ok /\ (d = "floppy" \/ (Connected(w.m, d) /\ d \in Drives)) => v.ok = TRUE
<1> DEFINE S == BaysOf[d]
           One(v, i) == IF images[S[i]] = Empty THEN v
                        ELSE MountBay(v, S[i], images[S[i]], ModeOf(c, S[i]))
           Nth(v, i) == IF i <= Len(S) THEN IF v.ok THEN One(v, i) ELSE v ELSE v
           may == w.ok /\ (d = "floppy" \/ (Connected(w.m, d) /\ d \in Drives))
           Ok(v) == Moves(w, v) /\ v.m.slot = w.m.slot /\ (may => v.ok = TRUE)
<1>1. ASSUME NEW v, Ok(v), NEW i \in 1 .. 4 PROVE Ok(Nth(v, i))
  <2>1. CASE i <= Len(S) /\ v.ok /\ images[S[i]] # Empty
    <3>1. Len(S) \in Nat
      <4>1. S \in {<<"ide">>, <<"scsi">>, <<"sd_a", "sd_b">>, <<"mf_a", "mf_b">>,
                   <<"drive_a", "drive_b">>}
        BY DEF BaysOf
      <4> QED BY <4>1
    <3>2. DeviceOf[S[i]] = d
      BY <2>1, <3>1, BaysAreOfTheDevice
    <3>3. may => DeviceOf[S[i]] = "floppy" \/ Connected(v.m, DeviceOf[S[i]])
      <4>1. Drives \cap Controllers = {}
        BY DEF Drives, Controllers
      <4> QED BY <1>1, <3>2, <4>1 DEF Connected
    <3>4. Good(v)
      BY <1>1 DEF Moves
    <3> DEFINE b == S[i]
               path == images[b]
               mode == ModeOf(c, b)
               u == MountBay(v, b, path, mode)
    <3>5. Moves(v, u) /\ u.m.slot = v.m.slot /\ (may => u.ok = TRUE)
      <4> HIDE DEF b, path, mode, may
      <4>1. may => DeviceOf[b] = "floppy" \/ Connected(v.m, DeviceOf[b])
        BY <3>3 DEF b
      <4>2. /\ Moves(v, MountBay(v, b, path, mode))
            /\ MountBay(v, b, path, mode).m.slot = v.m.slot
            /\ DeviceOf[b] = "floppy" \/ Connected(v.m, DeviceOf[b])
                 => MountBay(v, b, path, mode).ok = TRUE
        BY <3>4, MountBayMoves
      <4> QED BY <4>1, <4>2
    <3>6. Nth(v, i) = u
      BY <2>1
    <3> HIDE DEF u, Nth, may
    <3> QED BY <1>1, <3>5, <3>6 DEF Moves
  <2>2. CASE ~(i <= Len(S) /\ v.ok /\ images[S[i]] # Empty)
    <3>1. Nth(v, i) = v
      BY <2>2
    <3> HIDE DEF Nth
    <3> QED BY <1>1, <3>1
  <2> QED BY <2>1, <2>2
<1>2. Ok(w)
  BY DEF Moves
<1>3. MountAll(w, d, images, c) = Nth(Nth(Nth(Nth(w, 1), 2), 3), 4)
  BY DEF MountAll, InTurn, OneByOne
<1> HIDE DEF Nth, Ok, may
<1>4. Ok(Nth(Nth(Nth(Nth(w, 1), 2), 3), 4))
  <2>1. Ok(Nth(w, 1))
    BY <1>1, <1>2
  <2>2. Ok(Nth(Nth(w, 1), 2))
    BY <1>1, <2>1
  <2>3. Ok(Nth(Nth(Nth(w, 1), 2), 3))
    BY <1>1, <2>2
  <2> QED BY <1>1, <2>3
<1> QED BY <1>3, <1>4 DEF Ok, may

LEMMA RemountMoves ==
    ASSUME NEW w, Good(w), NEW bays, NEW mode
    PROVE  Moves(w, Remount(w, bays, mode))
<1> DEFINE Nth(v, i) == IF i <= Len(bays)
                        THEN IF v.ok THEN RemountBay(v, bays[i], mode) ELSE v ELSE v
<1>1. ASSUME NEW v, Moves(w, v), NEW i PROVE Moves(w, Nth(v, i))
  <2> DEFINE b == bays[i]
             path == v.c.image[b]
  <2>1. Moves(v, MountBay(v, b, path, mode))
    <3> HIDE DEF b, path
    <3>1. Good(v)
      BY <1>1 DEF Moves
    <3> QED BY <3>1, MountBayMoves
  <2>2. Moves(w, RemountBay(v, b, mode))
    BY <1>1, <2>1 DEF Moves, RemountBay
  <2> QED BY <1>1, <2>2
<1>2. Moves(w, w)
  BY DEF Moves
<1>3. Remount(w, bays, mode) = Nth(Nth(Nth(Nth(w, 1), 2), 3), 4)
  BY SMTT(60), ZenonT(120) DEF Remount, InTurn, OneByOne
<1> HIDE DEF Nth
<1>4. Moves(w, Nth(Nth(Nth(Nth(w, 1), 2), 3), 4))
  <2>1. Moves(w, Nth(Nth(w, 1), 2))
    BY <1>1, <1>2
  <2> QED BY <1>1, <2>1
<1> QED BY <1>3, <1>4

LEMMA ReplaceDeviceMoves ==
    ASSUME NEW w, Good(w), NEW d, NEW p
    PROVE  Moves(w, ReplaceDevice(w, d, p))
<1>1. Moves(w, ReplaceDrive(w, d, p))
  <2> DEFINE x == Called(w)
  <2>1. Moves(w, x) /\ x.ok = TRUE
    BY CalledMoves
  <2>2. \E bay, fresh, d0 : ~Connected(w.m, d) \/ ReplaceDrive(w, d, p) =
             [x EXCEPT !.m.rom[d] = p.rom, !.m.d0 = d0, !.m.bay = bay, !.fresh = fresh]
    BY <2>1 DEF ReplaceDrive, Then
  <2> HIDE DEF x
  <2>3. CASE ~Connected(w.m, d)
    BY <2>3, FailedMoves DEF ReplaceDrive
  <2>4. CASE Connected(w.m, d)
    <3>1. PICK bay, fresh, d0 : ReplaceDrive(w, d, p) =
             [x EXCEPT !.m.rom[d] = p.rom, !.m.d0 = d0, !.m.bay = bay, !.fresh = fresh]
      BY <2>2, <2>4
    <3> DEFINE y == [x EXCEPT !.m.rom[d] = p.rom]
               z == [y EXCEPT !.m.d0 = d0]
               u == [z EXCEPT !.m.bay = bay]
    <3>2. ReplaceDrive(w, d, p) = [u EXCEPT !.fresh = fresh]
      BY <3>1
    <3>3. Moves(w, y)
      BY <2>1 DEF Moves, Good, GoodMachine
    <3> HIDE DEF y
    <3>4. Moves(w, z)
      BY <3>3 DEF Moves, Good, GoodMachine
    <3> HIDE DEF z
    <3>5. Moves(w, u)
      BY <3>4 DEF Moves, Good, GoodMachine
    <3> HIDE DEF u
    <3> QED BY <3>2, <3>5 DEF Moves, Good, GoodMachine
  <2> QED BY <2>3, <2>4
<1> QED BY <1>1, FailedMoves DEF ReplaceDevice

LEMMA ReconcileMoves ==
    ASSUME NEW w, Good(w)
    PROVE  Moves(w, Reconcile(w)) /\ Reconcile(w).ok = w.ok
<1> DEFINE x == ReconcileDrives(w)
<1>1. Moves(w, x) /\ x.ok = w.ok
  <2>1. "msx_scsi" \in Drives => (Connected(w.m, "msx_scsi") => w.m.slot["msx_scsi"] # -1)
    BY DEF Connected
  <2>2. x = [w EXCEPT !.m.slot = [d \in Placed |->
              IF d \in Drives /\ Connected(w.m, d) /\ OwnSlot(w.c, d) # -1
              THEN OwnSlot(w.c, d) ELSE w.m.slot[d]]]
    BY DEF ReconcileDrives
  <2> HIDE DEF x
  <2>3. \A d \in Placed : Connected(w.m, d) => w.m.slot[d] # -1
    BY DEF Connected
  <2> QED BY <2>2, <2>3, ExcludingPlaced DEF Moves, Good, GoodMachine
<1>2. ASSUME NEW m, GoodMachine(m), NEW d, NEW s PROVE GoodMachine(MoveCart(m, d, s))
  <2>1. CASE ~Connected(m, d) \/ s = -1 \/ m.slot[d] = s
    BY <1>2, <2>1 DEF MoveCart
  <2>2. CASE ~(~Connected(m, d) \/ s = -1 \/ m.slot[d] = s)
    <3>1. PICK cart : MoveCart(m, d, s) = [m EXCEPT !.slot[d] = s, !.cart = cart]
      BY <2>2 DEF MoveCart
    <3>2. m.slot[d] # -1
      BY <2>2 DEF Connected
    <3> QED BY <1>2, <3>1, <3>2, ExcludingPlaced DEF GoodMachine
  <2> QED BY <2>1, <2>2
<1> DEFINE m == MoveCart(MoveCart(x.m, "cdx2", OwnSlot(w.c, "cdx2")),
                         "rdf600", OwnSlot(w.c, "rdf600"))
<1>3. GoodMachine(m)
  BY <1>1, <1>2 DEF Moves, Good
<1>4. Reconcile(w) = [x EXCEPT !.m = m]
  BY <1>1 DEF Reconcile, Moves, Good
<1> HIDE DEF m, x
<1> QED BY <1>1, <1>3, <1>4 DEF Moves, Good

---------------------------------------------------------------------------
(* Who has a slot.                                                         *)

LEMMA PriorityDevices ==
    /\ \A i \in DOMAIN Priority : Priority[i] \in Device
    /\ \A d \in Device : \E i \in DOMAIN Priority : Priority[i] = d
    /\ DOMAIN Priority = 1 .. 10 /\ Nobody \notin Device
    /\ "Floppy controller" \notin Device /\ "floppy" \notin Device
    /\ Drives \cup Controllers \cup {"rs232", "powergraph_v9990"} \subseteq Device
<1>1. Device = {"sunrise_ide", "msx_scsi", "sd_mapper", "megaflash", "scc",
              "msx_music", "rs232", "cdx2", "rdf600", "powergraph_v9990"}
  BY DEF Device, Priority, ToSet
<1>2. DOMAIN Priority = 1 .. 10
  BY DEF Priority
<1>3. Device = {Priority[i] : i \in DOMAIN Priority}
  BY DEF Device, ToSet
<1> QED BY <1>1, <1>2, <1>3, PlacedDevices DEF Nobody

LEMMA FirstIsOne ==
    ASSUME NEW on
    PROVE  IF on \cap Device = {} THEN First(on) = Nobody ELSE First(on) \in on \cap Device
<1> DEFINE places == {i \in DOMAIN Priority : Priority[i] \in on}
             least == CHOOSE i \in places : \A j \in places : i <= j
<1>1. First(on) = IF places = {} THEN Nobody ELSE Priority[least]
  BY DEF First, Leading
<1>2. places = {} <=> on \cap Device = {}
  BY PriorityDevices
<1>3. places # {} => least \in places
  <2>1. places \subseteq 1 .. 10
    BY PriorityDevices
  <2> HIDE DEF places
  <2>2. ASSUME places # {} PROVE \E x \in places : \A y \in places : x <= y
    <3>1. SUFFICES ASSUME \A x \in places : \E y \in places : y < x PROVE FALSE
      BY <2>1
    <3>2. 1 \notin places /\ 2 \notin places
      BY <2>1, <3>1
    <3>3. 3 \notin places /\ 4 \notin places
      BY <2>1, <3>1, <3>2
    <3>4. 5 \notin places /\ 6 \notin places
      BY <2>1, <3>1, <3>2, <3>3
    <3>5. 7 \notin places /\ 8 \notin places
      BY <2>1, <3>1, <3>2, <3>3, <3>4
    <3>6. 9 \notin places /\ 10 \notin places
      BY <2>1, <3>1, <3>2, <3>3, <3>4, <3>5
    <3>7. PICK x : x \in places
      BY <2>2
    <3>8. x \in 1 .. 10
      BY <2>1, <3>7
    <3> QED BY <3>2, <3>3, <3>4, <3>5, <3>6, <3>7, <3>8
  <2> QED BY <2>2
<1> HIDE DEF least
<1> QED BY <1>1, <1>2, <1>3, PriorityDevices

LEMMA OwnSlotIsASlot ==
    ASSUME NEW c, NEW d
    PROVE  OwnSlot(c, d) # -1 <=> \E s \in Slot : Owner(c, s) = d
<1> DEFINE slots == {s \in Slot : Owner(c, s) = d}
<1>1. OwnSlot(c, d) = TheSlot(slots)
  BY DEF OwnSlot
<1>2. slots \subseteq {0, 1}
  BY DEF Slot
<1>3. TheSlot(slots) # -1 <=> slots # {}
  <2> HIDE DEF slots
  <2> DEFINE one == CHOOSE s \in slots : TRUE
  <2>1. slots # {} => one \in slots
    <3>1. ASSUME slots # {} PROVE \E s \in slots : TRUE
      BY <3>1
    <3> QED BY <3>1
  <2>2. TheSlot(slots) = IF slots = {} THEN -1 ELSE one
    BY DEF TheSlot
  <2> HIDE DEF one
  <2>3. -1 \notin {0, 1}
    OBVIOUS
  <2> QED BY <1>2, <2>1, <2>2, <2>3
<1> QED BY <1>1, <1>3

LEMMA OwnSlotOf ==
    ASSUME NEW c, NEW b, c.on = b.on, c.machine = b.machine, NEW d
    PROVE  OwnSlot(c, d) = OwnSlot(b, d)
<1>1. \A s : Owner(c, s) = Owner(b, s)
  BY DEF Owner
<1>2. {s \in Slot : Owner(c, s) = d} = {s \in Slot : Owner(b, s) = d}
  BY <1>1
<1> QED BY <1>2 DEF OwnSlot

\* While a slot is free, a device that is switched on gets one.
LEMMA SwitchedOnHasASlot ==
    ASSUME NEW c, NEW b, NEW d \in Device, d \notin c.on, b.on = c.on \cup {d},
           b.machine = c.machine, NEW s \in Slot, Owner(c, s) = Nobody
    PROVE  OwnSlot(b, d) # -1
<1>1. s # ReservedSlot[c.machine]
  BY DEF Owner, Nobody
<1>2. CASE First(c.on) = Nobody
  <2>1. c.on \cap Device = {}
    BY <1>2, FirstIsOne, PriorityDevices
  <2>2. First(b.on) = d
    <3>1. b.on \cap Device = {d}
      BY <2>1
    <3>2. First(b.on) \in b.on \cap Device
      BY <3>1, FirstIsOne
    <3> QED BY <3>1, <3>2
  <2>3. CASE ReservedSlot[c.machine] = -1
    <3>1. Owner(b, 0) = d
      <4>1. 0 # ReservedSlot[b.machine] /\ 0 # -1
        BY <2>3
      <4>2. Owner(b, 0) = First(b.on)
        BY <4>1 DEF Owner
      <4> QED BY <2>2, <4>2
    <3> QED BY <3>1, OwnSlotIsASlot DEF Slot
  <2>4. CASE ReservedSlot[c.machine] # -1
    <3>1. Owner(b, s) = d
      BY <1>1, <2>2, <2>4 DEF Owner
    <3> QED BY <3>1, OwnSlotIsASlot
  <2> QED BY <2>3, <2>4
<1>3. CASE First(c.on) # Nobody
  <2>1. ReservedSlot[c.machine] = -1 /\ s = 1 /\ First(Others(c.on)) = Nobody
    BY <1>1, <1>3 DEF Owner, Slot
  <2>2. Others(c.on) \cap Device = {}
    BY <2>1, FirstIsOne, PriorityDevices
  <2>3. b.on \cap Device = {d, First(c.on)}
    BY <1>3, <2>2, FirstIsOne DEF Others
  <2>4. First(b.on) \in {d, First(c.on)}
    BY <2>3, FirstIsOne
  <2>5. First(b.on) # d => Others(b.on) \cap Device = {d}
    BY <2>3, <2>4 DEF Others
  <2>6. First(b.on) # d => First(Others(b.on)) = d
    BY <2>5, FirstIsOne
  <2>7. Owner(b, 0) = First(b.on) /\ Owner(b, 1) = First(Others(b.on))
    BY <2>1 DEF Owner
  <2> QED BY <2>6, <2>7, OwnSlotIsASlot DEF Slot
<1> QED BY <1>2, <1>3

LEMMA NormalizeKeeps ==
    ASSUME NEW c, GoodConfig(c)
    PROVE  GoodConfig(Normalize(c)) /\ Normalize(c).on \subseteq c.on
<1>1. PICK on : on \subseteq c.on /\ Normalize(c) = [c EXCEPT !.on = on]
  BY DEF Normalize
<1> QED BY <1>1 DEF GoodConfig

---------------------------------------------------------------------------
(* Switching devices on and off.                                           *)

\* The overlay stays as it is, and at most device d comes on.
Turns(w, v, d) == Good(v) /\ v.ui = w.ui /\ v.c.on \subseteq w.c.on \cup {d}

LEMMA OffTurns ==
    ASSUME NEW w, Good(w), NEW d, NEW e
    PROVE  Turns(w, Off(w, d), e) /\ Turns(w, Undone(w, d), e) /\ Off(w, d).ok = w.ok
           /\ Turns(w, Fine(Reconcile(Off(w, d))), e)
<1>1. Turns(w, Off(w, d), e) /\ Off(w, d).ok = w.ok
  BY DEF Off, Turns, Good, GoodConfig
<1>2. Moves(Off(w, d), Reconcile(Off(w, d)))
  BY <1>1, ReconcileMoves DEF Turns
<1>3. Good(Reconcile(Off(w, d)))
  BY <1>2 DEF Moves
<1>4. Moves(Reconcile(Off(w, d)), Undone(w, d))
  BY <1>3, FailedMoves DEF Undone
<1>5. Moves(Reconcile(Off(w, d)), Fine(Reconcile(Off(w, d))))
  BY <1>3, FineMoves
<1> QED BY <1>1, <1>2, <1>4, <1>5 DEF Moves, Turns

LEMMA ToggleTurns ==
    ASSUME NEW w, Good(w), NEW d \in kit \cap Device
    PROVE  LET v == Toggle(w, d)
           IN  /\ Turns(w, v, d) /\ (v.ok = FALSE => v.c = w.c)
               /\ d \in w.c.on => v.ok = TRUE
               /\ v.ok = TRUE /\ d \notin w.c.on => OwnSlot(v.c, d) # -1
<1>1. CASE d \in w.c.on
  <2>1. Toggle(w, d) = Fine(Reconcile(Off(w, d)))
    BY <1>1 DEF Toggle
  <2>2. Fine(Reconcile(Off(w, d))).ok = TRUE
    <3>1. Good(Off(w, d))
      BY OffTurns DEF Turns
    <3>2. Good(Reconcile(Off(w, d)))
      BY <3>1, ReconcileMoves DEF Moves
    <3> QED BY <3>2, FineMoves
  <2> QED BY <1>1, <2>1, <2>2, OffTurns
<1>2. CASE d \notin w.c.on /\ \A s \in Slot : Owner(w.c, s) # Nobody
  <2>1. Toggle(w, d) = Failed(w)
    BY <1>2 DEF Toggle
  <2>2. Moves(w, Failed(w)) /\ Failed(w).ok = FALSE
    BY FailedMoves
  <2> QED BY <1>2, <2>1, <2>2 DEF Moves, Turns
<1>3. CASE d \notin w.c.on /\ ~ \A s \in Slot : Owner(w.c, s) # Nobody
  <2> DEFINE on == [w EXCEPT !.c.on = @ \cup {d}]
             TakeSlot(v, s) ==
                IF \/ Owner(w.c, s) # Nobody
                   \/ Owner(on.c, s) = Nobody
                   \/ v.c.cart[s] = Empty /\ v.m.cart[s] = NoCart
                THEN v ELSE [EjectCart(v, s) EXCEPT !.c.cart[s] = Empty]
             Ok(v) == Good(v) /\ v.ui = w.ui /\ v.c.on = w.c.on \cup {d}
                      /\ v.c.machine = w.c.machine
  <2>1. Toggle(w, d) = Fine(Reconcile(TakeSlot(TakeSlot(on, 0), 1)))
    BY <1>3 DEF Toggle
  <2>2. Ok(on)
    BY DEF Good, GoodConfig
  <2>3. ASSUME NEW v, Ok(v), NEW s PROVE Ok(TakeSlot(v, s))
    <3> DEFINE x == EjectCart(v, s)
               y == [x EXCEPT !.c.cart[s] = Empty]
    <3>1. Moves(v, x)
      BY <2>3, InstallCartMoves
    <3>2. TakeSlot(v, s) \in {v, y}
      OBVIOUS
    <3> HIDE DEF x, TakeSlot, on
    <3>3. Ok(y)
      BY <2>3, <3>1 DEF Moves, Good, GoodConfig
    <3> QED BY <2>3, <3>2, <3>3
  <2> HIDE DEF on, TakeSlot
  <2>4. Ok(TakeSlot(TakeSlot(on, 0), 1))
    <3>1. Ok(TakeSlot(on, 0))
      BY <2>2, <2>3
    <3> QED BY <2>3, <3>1
  <2> DEFINE t == TakeSlot(TakeSlot(on, 0), 1)
             v == Fine(Reconcile(t))
  <2> HIDE DEF t
  <2>5. Moves(t, v) /\ v.ok = TRUE
    <3>1. Moves(t, Reconcile(t))
      BY <2>4, ReconcileMoves DEF t
    <3>2. Moves(Reconcile(t), v) /\ v.ok = TRUE
      BY <3>1, FineMoves DEF Moves
    <3> QED BY <3>1, <3>2 DEF Moves
  <2>6. v.c.on = w.c.on \cup {d} /\ v.c.machine = w.c.machine /\ v.ui = w.ui /\ Good(v)
    BY <2>4, <2>5 DEF Moves, t
  <2>7. OwnSlot(v.c, d) # -1
    <3>1. PICK s \in Slot : Owner(w.c, s) = Nobody
      BY <1>3
    <3> HIDE DEF v
    <3> QED BY <1>3, <2>6, <3>1, SwitchedOnHasASlot
  <2>8. Toggle(w, d) = v
    BY <2>1 DEF t
  <2> HIDE DEF v
  <2> QED BY <1>3, <2>5, <2>6, <2>7, <2>8 DEF Turns
<1> QED BY <1>1, <1>2, <1>3

\* What is connected has a slot and a ROM, so nothing has to be undone.
LEMMA SwitchedOnTurns ==
    ASSUME NEW w, Good(w), NEW d \in kit \cap Device, NEW p
    PROVE  LET v == SwitchedOn(w, d, p)
           IN  /\ Turns(w, v, d) /\ (v.ok = FALSE => v.c = w.c)
               /\ v.ok = TRUE => p.rom # Empty
               /\ v.ok = TRUE /\ d \notin w.c.on => OwnSlot(v.c, d) # -1
<1> DEFINE x == Validate(w, d, p)
<1>1. Moves(w, x) /\ (x.ok = TRUE => p.rom # Empty)
  <2>1. CASE p.rom = Empty
    BY <2>1, FailedMoves DEF Validate
  <2>2. CASE p.rom # Empty
    BY <2>2, FailedMoves, FineMoves DEF Validate
  <2> QED BY <2>1, <2>2
<1>2. x.ok \in BOOLEAN
  BY <1>1 DEF Moves, Good
<1>3. SwitchedOn(w, d, p) = IF x.ok = TRUE THEN Toggle(x, d) ELSE x
  BY <1>2 DEF SwitchedOn, Then
<1> HIDE DEF x
<1>4. CASE x.ok = TRUE
  <2> DEFINE v == Toggle(x, d)
  <2>1. /\ Turns(x, v, d) /\ (v.ok = FALSE => v.c = x.c)
        /\ v.ok = TRUE /\ d \notin x.c.on => OwnSlot(v.c, d) # -1
    BY <1>1, ToggleTurns DEF Moves
  <2>2. SwitchedOn(w, d, p) = v
    BY <1>3, <1>4
  <2> HIDE DEF v
  <2> QED BY <1>1, <1>4, <2>1, <2>2 DEF Moves, Turns
<1>5. CASE x.ok = FALSE
  <2>1. SwitchedOn(w, d, p) = x
    BY <1>3, <1>5
  <2> QED BY <1>1, <1>5, <2>1 DEF Moves, Turns
<1> QED BY <1>2, <1>4, <1>5

LEMMA StoreTurns ==
    ASSUME NEW w, Good(w), NEW d, NEW p, NEW e
    PROVE  Turns(w, Store(w, d, p), e) /\ Store(w, d, p).ok = w.ok
           /\ Store(w, d, p).c.on = w.c.on
<1>1. PICK image, d0 : Store(w, d, p) =
          [w EXCEPT !.c.rom[d] = p.rom, !.c.d0 = d0, !.c.image = image]
  BY DEF Store
<1> DEFINE x == [w EXCEPT !.c.rom[d] = p.rom]
           y == [x EXCEPT !.c.d0 = d0]
<1>2. Store(w, d, p) = [y EXCEPT !.c.image = image]
  BY <1>1
<1>3. Good(x) /\ x.ui = w.ui /\ x.ok = w.ok /\ x.c.on = w.c.on
  BY DEF Good, GoodConfig
<1> HIDE DEF x
<1>4. Good(y) /\ y.ui = w.ui /\ y.ok = w.ok /\ y.c.on = w.c.on
  BY <1>3 DEF Good, GoodConfig
<1> HIDE DEF y
<1> QED BY <1>2, <1>4 DEF Turns, Good, GoodConfig

\* Either the device is connected, or the configuration is as it was.
Connects(w, v, d) == Turns(w, v, d) /\ (d \notin w.c.on /\ v.ok = FALSE => v.c = w.c)

LEMMA ConnectConnects ==
    ASSUME NEW w, Good(w), ~(Excluding \subseteq kit), NEW d \in kit \cap Device,
           NEW p
    PROVE  Connects(w, Connect(w, d, p), d)
<1> DEFINE on == SwitchedOn(w, d, p)
<1>1. /\ Turns(w, on, d) /\ (on.ok = FALSE => on.c = w.c)
      /\ on.ok = TRUE => p.rom # Empty
      /\ on.ok = TRUE /\ d \notin w.c.on => OwnSlot(on.c, d) # -1
  BY SwitchedOnTurns
<1>2. on.ok \in BOOLEAN /\ Good(on)
  BY <1>1 DEF Turns, Good
<1>3. Connects(w, ConnectController(w, d, p), d)
  <2> DEFINE s == OwnSlot(on.c, d)
             loaded == LoadDevice(on, d, s, p.rom, on.c.bank, FALSE)
             done == [loaded EXCEPT !.c.rom[d] = p.rom]
             undone == Undone(loaded, d)
  <2>1. Moves(on, loaded) /\ (s # -1 /\ p.rom # Empty => loaded.ok = TRUE)
    <3> HIDE DEF on, s
    <3> QED BY <1>2, LoadDeviceMoves DEF LoadedAt
  <2>2. ConnectController(w, d, p) = IF ~on.ok THEN on ELSE IF loaded.ok THEN done ELSE undone
    BY DEF ConnectController, ControllerLoaded, Then
  <2> HIDE DEF on, loaded
  <2>3. Turns(loaded, done, d) /\ done.ok = loaded.ok
    BY <2>1 DEF Moves, Turns, Good, GoodConfig
  <2>4. Turns(loaded, undone, d)
    BY <2>1, OffTurns DEF Moves
  <2> HIDE DEF done, undone
  <2>5. CASE on.ok = FALSE
    BY <1>1, <2>2, <2>5 DEF Connects
  <2>6. CASE on.ok = TRUE
    <3>1. Turns(w, done, d) /\ Turns(w, undone, d)
      BY <1>1, <2>1, <2>3, <2>4 DEF Moves, Turns
    <3>2. d \notin w.c.on => ConnectController(w, d, p) = done /\ done.ok = TRUE
      BY <1>1, <2>1, <2>2, <2>3, <2>6
    <3>3. ConnectController(w, d, p) \in {done, undone}
      BY <2>2, <2>6
    <3> QED BY <3>1, <3>2, <3>3 DEF Connects
  <2> QED BY <1>2, <2>5, <2>6
<1>4. ASSUME d \in Drives PROVE Connects(w, ConnectDrive(w, d, p), d)
  <2> DEFINE s == OwnSlot(on.c, d)
             loaded == LoadDevice(on, d, s, p.rom, FALSE, p.d0)
             mounted == MountAll(loaded, d, p.image, loaded.c)
             ejected == EjectDevice(mounted, d)
             done == Store(mounted, d, p)
  <2>1. Moves(on, loaded)
        /\ (s # -1 /\ p.rom # Empty => loaded.ok = TRUE /\ loaded.m.slot[d] = s)
    <3>1. d \in Placed
      BY <1>4, PlacedDevices
    <3> HIDE DEF on, s
    <3>2. Moves(on, loaded) /\ (s # -1 /\ p.rom # Empty => LoadedAt(loaded, d, s))
      BY <1>2, LoadDeviceMoves
    <3> QED BY <3>1, <3>2 DEF LoadedAt
  <2>2. Good(loaded)
    BY <2>1 DEF Moves
  <2>3. Moves(loaded, mounted)
        /\ (loaded.ok = TRUE /\ Connected(loaded.m, d) => mounted.ok = TRUE)
    <3>1. d \in DOMAIN BaysOf
      BY <1>4 DEF Drives, BaysOf
    <3> HIDE DEF loaded
    <3> QED BY <1>4, <2>2, <3>1, MountAllMoves
  <2>4. ConnectDrive(w, d, p) = IF ~on.ok THEN on ELSE IF ~loaded.ok THEN Undone(loaded, d)
                                ELSE IF ~mounted.ok THEN Undone(ejected, d) ELSE done
    BY DEF ConnectDrive, DriveLoaded, DriveMounted, Then
  <2> HIDE DEF on, loaded, mounted
  <2>5. Turns(loaded, Undone(loaded, d), d)
    BY <2>2, OffTurns
  <2>6. Good(mounted) /\ Moves(mounted, ejected)
    BY <2>3, EjectDeviceMoves DEF Moves
  <2>7. Turns(ejected, Undone(ejected, d), d)
    BY <2>6, OffTurns DEF Moves
  <2>8. Turns(mounted, done, d) /\ done.ok = mounted.ok
    BY <2>6, StoreTurns
  <2> HIDE DEF ejected, done
  <2>9. CASE on.ok = FALSE
    BY <1>1, <2>4, <2>9 DEF Connects
  <2>10. CASE on.ok = TRUE
    <3>1. Turns(w, done, d) /\ Turns(w, Undone(ejected, d), d) /\ Turns(w, Undone(loaded, d), d)
      BY <1>1, <2>1, <2>3, <2>5, <2>6, <2>7, <2>8 DEF Moves, Turns
    <3>2. d \notin w.c.on => ConnectDrive(w, d, p) = done /\ done.ok = TRUE
      <4>1. d \notin Controllers
        BY <1>4, PlacedDevices
      <4>2. SUFFICES ASSUME d \notin w.c.on PROVE ConnectDrive(w, d, p) = done /\ done.ok = TRUE
        OBVIOUS
      <4>3. loaded.ok = TRUE /\ loaded.m.slot[d] = s /\ s # -1
        BY <1>1, <2>1, <2>10, <4>2
      <4>4. Connected(loaded.m, d)
        BY <4>1, <4>3 DEF Connected
      <4> HIDE DEF s
      <4> QED BY <2>3, <2>4, <2>8, <2>10, <4>3, <4>4
    <3>3. ConnectDrive(w, d, p) \in {done, Undone(ejected, d), Undone(loaded, d)}
      BY <2>4, <2>10
    <3> QED BY <3>1, <3>2, <3>3 DEF Connects
  <2> QED BY <1>2, <2>9, <2>10
<1> HIDE DEF on
<1> QED BY <1>3, <1>4 DEF Connect

LEMMA DisconnectConnects ==
    ASSUME NEW w, Good(w), NEW d \in kit \cap Device
    PROVE  LET v == Disconnect(w, d)
           IN  Turns(w, v, d) /\ (v.ok = FALSE => v.c = w.c)
<1> DEFINE x == EjectDevice(w, d)
           v == Toggle(x, d)
<1>1. Moves(w, x) /\ x.ok = TRUE
  BY EjectDeviceMoves
<1>2. Disconnect(w, d) = v
  BY <1>1 DEF Disconnect, Then
<1> HIDE DEF x
<1>3. Turns(x, v, d) /\ (v.ok = FALSE => v.c = x.c)
  BY <1>1, ToggleTurns DEF Moves
<1> HIDE DEF v
<1> QED BY <1>1, <1>2, <1>3 DEF Moves, Turns

LEMMA SwitchRs232Turns ==
    ASSUME NEW w, Good(w), ~(Excluding \subseteq kit), "rs232" \in kit
    PROVE  Turns(w, SwitchRs232(w), "rs232") /\ SwitchRs232(w).ok = TRUE
<1> DEFINE d == "rs232"
           ejected == EjectDevice(w, d)
           on == [w EXCEPT !.c.on = @ \cup {d}]
           loaded == LoadDevice(on, d, OwnSlot(on.c, d), w.c.rom[d], FALSE, FALSE)
<1>1. Moves(w, ejected)
  BY EjectDeviceMoves
<1>2. Good(on) /\ on.ui = w.ui /\ on.c.on = w.c.on \cup {d}
  BY DEF Good, GoodConfig
<1>3. Moves(on, loaded)
  <2> DEFINE s == OwnSlot(on.c, d)
             rom == w.c.rom[d]
  <2> HIDE DEF on, s, rom
  <2>1. Moves(on, LoadDevice(on, d, s, rom, FALSE, FALSE))
    BY <1>2, LoadDeviceMoves
  <2> QED BY <2>1 DEF s, rom
<1> DEFINE off == Off(loaded, d)
           out == Off(ejected, d)
<1>4. SwitchRs232(w) = IF d \in w.c.on THEN Fine(out)
                       ELSE IF w.c.rom[d] = Empty THEN Fine(on)
                       ELSE IF loaded.ok THEN loaded ELSE Fine(off)
  BY DEF SwitchRs232
<1> HIDE DEF ejected, on, loaded
<1>5. Turns(loaded, off, d) /\ Turns(ejected, out, d)
  BY <1>1, <1>3, OffTurns DEF Moves
<1> HIDE DEF off, out
<1>6. Moves(off, Fine(off)) /\ Fine(off).ok = TRUE
  BY <1>5, FineMoves DEF Turns
<1>7. Moves(out, Fine(out)) /\ Fine(out).ok = TRUE
  BY <1>5, FineMoves DEF Turns
<1>8. Moves(on, Fine(on)) /\ Fine(on).ok = TRUE
  BY <1>2, FineMoves
<1>9. SwitchRs232(w) \in {Fine(out), Fine(on), Fine(off)}
      \/ (SwitchRs232(w) = loaded /\ loaded.ok = TRUE)
  <2>1. loaded.ok \in BOOLEAN
    BY <1>3 DEF Moves, Good
  <2> DEFINE fine_off == Fine(off)
  <2>2. SwitchRs232(w) = IF d \in w.c.on THEN Fine(out)
                         ELSE IF w.c.rom[d] = Empty THEN Fine(on)
                         ELSE IF loaded.ok THEN loaded ELSE fine_off
    BY <1>4
  <2> HIDE DEF fine_off, d
  <2>3. SwitchRs232(w) \in {Fine(out), Fine(on), fine_off} \/ (SwitchRs232(w) = loaded /\ loaded.ok = TRUE)
    <3>1. CASE loaded.ok = TRUE
      BY <2>2, <3>1
    <3>2. CASE loaded.ok = FALSE
      BY <2>2, <3>2
    <3> QED BY <2>1, <3>1, <3>2
  <2> QED BY <2>3 DEF fine_off
<1>10. \A v \in {Fine(out), Fine(on), Fine(off), loaded} : Turns(w, v, d)
  BY <1>1, <1>2, <1>3, <1>5, <1>6, <1>7, <1>8 DEF Moves, Turns
<1> QED BY <1>6, <1>7, <1>8, <1>9, <1>10

---------------------------------------------------------------------------
(* The machine is made to agree.                                           *)

\* Nothing comes on.
Settles(w, v) == Good(v) /\ v.ui = w.ui /\ v.c.on \subseteq w.c.on

LEMMA NormalizedSettles ==
    ASSUME NEW w, Good(w)
    PROVE  Settles(w, [w EXCEPT !.c = Normalize(@)])
<1>1. GoodConfig(Normalize(w.c)) /\ Normalize(w.c).on \subseteq w.c.on
  BY NormalizeKeeps DEF Good
<1> QED BY <1>1 DEF Settles, Good

LEMMA OffNormalizedSettles ==
    ASSUME NEW w, Good(w), NEW d
    PROVE  /\ Settles(w, [Fine(Off(w, d)) EXCEPT !.c = Normalize(@)])
           /\ Settles(w, [Off(w, d) EXCEPT !.c = Normalize(@)])
<1> DEFINE x == Off(w, d)
           y == Fine(x)
<1>1. Good(x) /\ x.ui = w.ui /\ x.c.on \subseteq w.c.on
  BY DEF Off, Good, GoodConfig
<1> HIDE DEF x
<1>2. Moves(x, y)
  BY <1>1, FineMoves
<1> HIDE DEF y
<1>3. Settles(x, [x EXCEPT !.c = Normalize(@)]) /\ Settles(y, [y EXCEPT !.c = Normalize(@)])
  BY <1>1, <1>2, NormalizedSettles DEF Moves
<1> QED BY <1>1, <1>2, <1>3 DEF Moves, Settles, x, y

LEMMA ApplyControllerSettles ==
    ASSUME NEW w, Good(w), ~(Excluding \subseteq kit), NEW d
    PROVE  Settles(w, ApplyController(w, d))
<1> DEFINE loaded == LoadDevice(w, d, OwnSlot(w.c, d), w.c.rom[d], w.c.bank, FALSE)
           ejected == EjectDevice(w, d)
           off == [Fine(Off(loaded, d)) EXCEPT !.c = Normalize(@)]
<1>1. ApplyController(w, d) \in {Fine(w), Fine(ejected)}
      \/ (d \in w.c.on /\ ApplyController(w, d) \in {loaded, off})
  <2>1. PICK agrees \in BOOLEAN :
          ApplyController(w, d) = IF agrees THEN Fine(w)
                                  ELSE IF d \notin w.c.on THEN Fine(ejected)
                                  ELSE IF loaded.ok THEN loaded ELSE off
    BY DEF ApplyController
  <2> HIDE DEF loaded, ejected, off
  <2>2. CASE d \in w.c.on
    <3>1. ApplyController(w, d) = Fine(w) \/ ApplyController(w, d) = loaded
          \/ ApplyController(w, d) = off
      BY <2>1, <2>2
    <3> QED BY <2>2, <3>1
  <2>3. CASE d \notin w.c.on
    BY <2>1, <2>3
  <2> QED BY <2>2, <2>3
<1>2. Moves(w, Fine(w))
  BY FineMoves
<1>3. Moves(w, Fine(ejected))
  <2>1. Moves(w, ejected)
    BY EjectDeviceMoves
  <2> HIDE DEF ejected
  <2>2. Moves(ejected, Fine(ejected))
    BY <2>1, FineMoves DEF Moves
  <2> QED BY <2>1, <2>2 DEF Moves
<1>4. ASSUME d \in w.c.on PROVE Moves(w, loaded) /\ Settles(loaded, off)
  <2> DEFINE s == OwnSlot(w.c, d)
             rom == w.c.rom[d]
             bank == w.c.bank
  <2>1. d \in kit
    BY <1>4 DEF Good, GoodConfig
  <2>2. Moves(w, loaded)
    <3> HIDE DEF s, rom, bank
    <3>1. Moves(w, LoadDevice(w, d, s, rom, bank, FALSE))
      BY <2>1, LoadDeviceMoves
    <3> QED BY <3>1 DEF s, rom, bank
  <2> HIDE DEF loaded
  <2> QED BY <2>2, OffNormalizedSettles DEF Moves
<1> HIDE DEF loaded, ejected, off
<1> QED BY <1>1, <1>2, <1>3, <1>4 DEF Moves, Settles

LEMMA ApplyPowergraphSettles ==
    ASSUME NEW w, Good(w)
    PROVE  Settles(w, ApplyPowergraph(w))
<1> DEFINE d == "powergraph_v9990"
           own == OwnSlot(w.c, d)
           x == Fine(w)
           off == [Fine(Off(w, d)) EXCEPT !.c = Normalize(@)]
<1>1. ApplyPowergraph(w) \in {[x EXCEPT !.m.slot[d] = -1], [x EXCEPT !.m.slot[d] = own], off}
  BY DEF ApplyPowergraph
<1>2. Settles(w, off)
  BY OffNormalizedSettles
<1>3. Moves(w, x)
  BY FineMoves
<1>4. d \notin Excluding
  BY DEF Excluding
<1> HIDE DEF off, x, own, d
<1>5. ASSUME NEW s PROVE Settles(w, [x EXCEPT !.m.slot[d] = s])
  BY <1>3, <1>4, ExcludingPlaced DEF Moves, Settles, Good, GoodMachine
<1> QED BY <1>1, <1>2, <1>5

LEMMA ApplyConfigSettles ==
    ASSUME NEW w, Good(w), ~(Excluding \subseteq kit)
    PROVE  Settles(w, ApplyConfig(w))
<1> DEFINE x == [w EXCEPT !.c = Normalize(@)]
           normal == [w EXCEPT !.c = Normalize(@), !.m.machine = w.c.machine]
           a == ApplyController(normal, "cdx2")
           b == ApplyController(a, "rdf600")
<1>1. ApplyConfig(w) = ApplyPowergraph(b)
  BY DEF ApplyConfig
<1>2. Settles(w, normal)
  <2>1. Settles(w, x)
    BY NormalizedSettles
  <2>2. normal = [x EXCEPT !.m.machine = w.c.machine]
    OBVIOUS
  <2> HIDE DEF x
  <2> QED BY <2>1, <2>2 DEF Settles, Good, GoodMachine
<1> HIDE DEF normal
<1>3. Settles(normal, a)
  BY <1>2, ApplyControllerSettles DEF Settles
<1> HIDE DEF a
<1>4. Settles(a, b)
  BY <1>3, ApplyControllerSettles DEF Settles
<1> HIDE DEF b
<1>5. Settles(b, ApplyPowergraph(b))
  BY <1>4, ApplyPowergraphSettles DEF Settles
<1> QED BY <1>1, <1>2, <1>3, <1>4, <1>5 DEF Settles

LEMMA EditedSettles ==
    ASSUME NEW w, Good(w), ~(Excluding \subseteq kit)
    PROVE  /\ Good(Edited(w)) /\ Edited(w).ui = [w.ui EXCEPT !.dirty = TRUE]
           /\ Edited(w).c.on \subseteq w.c.on
<1> DEFINE x == Dirty(w)
<1>1. Good(x) /\ x.ui = [w.ui EXCEPT !.dirty = TRUE] /\ x.c = w.c
  BY DEF Dirty, Good, GoodUi
<1>2. Edited(w) = ApplyConfig(x)
  BY DEF Edited
<1> HIDE DEF x
<1> QED BY <1>1, <1>2, ApplyConfigSettles DEF Settles

---------------------------------------------------------------------------
(* Giving up.                                                              *)

\* Of what is put back; nothing can fail where nothing is to come back.
PutsBack(w, v, sv) == Moves(w, v) /\ (sv.on = {} => v.ok = TRUE)

LEMMA RestoreDrivePutsBack ==
    ASSUME NEW w, Good(w), ~(Excluding \subseteq kit), NEW sv, GoodConfig(sv),
           NEW d \in Drives
    PROVE  PutsBack(w, RestoreDrive(w, sv, d), sv)
<1> DEFINE x == EjectDevice(w, d)
           s == SavedSlot(sv, d)
           rom == sv.rom[d]
           d0 == sv.d0
           loaded == LoadDevice(x, d, s, rom, FALSE, d0)
           mounted == MountAll(loaded, d, sv.image, sv)
           image == sv.image
<1>1. Moves(w, x) /\ x.ok = TRUE
  BY EjectDeviceMoves
<1>2. PutBack(x, sv, d) = IF s = -1 THEN x ELSE IF loaded.ok THEN mounted ELSE loaded
  BY DEF PutBack, Then
<1>3. RestoreDrive(w, sv, d) = IF DriveChanged(w, sv, d) THEN PutBack(x, sv, d) ELSE Fine(w)
  BY <1>1 DEF RestoreDrive, Then
<1>4. sv.on = {} => s = -1
  BY DEF SavedSlot
<1> HIDE DEF x, s, rom, d0
<1>5. ASSUME s # -1 PROVE Moves(x, loaded) /\ Moves(x, mounted)
  <2>1. d \in kit
    BY <1>5 DEF SavedSlot, s, GoodConfig
  <2>2. Moves(x, loaded)
    BY <1>1, <2>1, LoadDeviceMoves DEF Moves
  <2>3. d \in DOMAIN BaysOf
    BY DEF BaysOf, Drives
  <2> HIDE DEF loaded, image
  <2>4. Moves(loaded, MountAll(loaded, d, image, sv))
    <3>1. Good(loaded)
      BY <2>2 DEF Moves
    <3> QED BY <2>3, <3>1, MountAllMoves
  <2>5. Moves(loaded, mounted)
    BY <2>4 DEF image
  <2> HIDE DEF mounted
  <2> QED BY <2>2, <2>5 DEF Moves
<1>6. Moves(w, Fine(w)) /\ Fine(w).ok = TRUE
  BY FineMoves
<1> HIDE DEF loaded, mounted, image
<1> DEFINE y == PutBack(x, sv, d)
<1>7. PutsBack(w, y, sv)
  <2>1. CASE s = -1
    BY <1>1, <1>2, <2>1 DEF PutsBack
  <2>2. CASE s # -1
    <3>1. y = mounted \/ y = loaded
      BY <1>2, <2>2
    <3>2. Moves(x, y)
      BY <1>5, <2>2, <3>1
    <3> HIDE DEF y
    <3> QED BY <1>1, <1>4, <2>2, <3>2 DEF PutsBack, Moves
  <2> QED BY <2>1, <2>2
<1> HIDE DEF y
<1>8. RestoreDrive(w, sv, d) \in {y, Fine(w)}
  BY <1>3 DEF y
<1> QED BY <1>6, <1>7, <1>8 DEF PutsBack

LEMMA RestoreControllerPutsBack ==
    ASSUME NEW w, Good(w), ~(Excluding \subseteq kit), NEW sv, GoodConfig(sv), NEW d
    PROVE  PutsBack(w, RestoreController(w, sv, d), sv)
<1> DEFINE x == EjectDevice(w, d)
           s == SavedSlot(sv, d)
           rom == sv.rom[d]
           bank == sv.bank
           loaded == LoadDevice(x, d, s, rom, bank, FALSE)
           y == IF s = -1 THEN x ELSE loaded
<1>1. Moves(w, x) /\ x.ok = TRUE
  BY EjectDeviceMoves
<1>2. RestoreController(w, sv, d) = Fine(w) \/ RestoreController(w, sv, d) = y
  BY DEF RestoreController
<1>3. sv.on = {} => s = -1
  BY DEF SavedSlot
<1> HIDE DEF x, s, rom, bank
<1>4. ASSUME s # -1 PROVE Moves(x, loaded)
  <2>1. d \in kit
    BY <1>4 DEF SavedSlot, s, GoodConfig
  <2> QED BY <1>1, <2>1, LoadDeviceMoves DEF Moves
<1> HIDE DEF loaded
<1>5. PutsBack(w, y, sv)
  BY <1>1, <1>3, <1>4 DEF PutsBack, Moves
<1>6. Moves(w, Fine(w)) /\ Fine(w).ok = TRUE
  BY FineMoves
<1> HIDE DEF y
<1> QED BY <1>2, <1>5, <1>6 DEF PutsBack

LEMMA RestoreRs232PutsBack ==
    ASSUME NEW w, Good(w), ~(Excluding \subseteq kit), NEW sv, GoodConfig(sv)
    PROVE  PutsBack(w, RestoreRs232(w, sv), sv)
<1> DEFINE d == "rs232"
           x == EjectDevice(w, d)
           s == OwnSlot(sv, d)
           rom == sv.rom[d]
           loaded == LoadDevice(x, d, s, rom, FALSE, FALSE)
           y == IF d \in sv.on /\ rom # Empty THEN loaded ELSE x
<1>1. Moves(w, x) /\ x.ok = TRUE
  BY EjectDeviceMoves
<1>2. RestoreRs232(w, sv) = Fine(w) \/ RestoreRs232(w, sv) = y
  BY DEF RestoreRs232
<1> HIDE DEF d, x, s, rom
<1>3. ASSUME d \in sv.on PROVE Moves(x, loaded)
  <2>1. d \in kit
    BY <1>3 DEF GoodConfig
  <2> QED BY <1>1, <2>1, LoadDeviceMoves DEF Moves
<1> HIDE DEF loaded
<1>4. PutsBack(w, y, sv)
  BY <1>1, <1>3 DEF PutsBack, Moves
<1>5. Moves(w, Fine(w)) /\ Fine(w).ok = TRUE
  BY FineMoves
<1> HIDE DEF y
<1> QED BY <1>2, <1>4, <1>5 DEF PutsBack

LEMMA RestoreCartridgesMoves ==
    ASSUME NEW w, Good(w), NEW sv
    PROVE  Moves(w, RestoreCartridges(w, sv))
<1>1. ASSUME NEW v, Good(v), NEW s PROVE Moves(v, RestoreSlot(v, sv, s))
  <2> DEFINE path == sv.cart[s]
             loaded == LoadCart(v, s, path)
             y == EjectCart(loaded, s)
             z == EjectCart(v, s)
  <2>1. Moves(v, loaded)
    <3> HIDE DEF path
    <3> QED BY <1>1, LoadCartMoves
  <2>2. Moves(v, z)
    BY <1>1, InstallCartMoves
  <2>3. RestoreSlot(v, sv, s) \in {v, z, loaded, y}
    BY DEF RestoreSlot
  <2> HIDE DEF loaded, z
  <2>4. Moves(loaded, y)
    BY <2>1, InstallCartMoves DEF Moves
  <2> HIDE DEF y
  <2> QED BY <1>1, <2>1, <2>2, <2>3, <2>4 DEF Moves
<1> DEFINE x == RestoreSlot(w, sv, 0)
<1>2. Moves(w, x)
  BY <1>1
<1>3. Moves(x, RestoreSlot(x, sv, 1))
  <2> HIDE DEF x
  <2> QED BY <1>1, <1>2 DEF Moves
<1>4. RestoreCartridges(w, sv) = RestoreSlot(x, sv, 1)
  BY DEF RestoreCartridges
<1> HIDE DEF x
<1> QED BY <1>2, <1>3, <1>4 DEF Moves

\* Giving up succeeds, or leaves configuration and overlay as they are.
LEMMA RestoreSavedConfigEnds ==
    ASSUME NEW w, Good(w), ~(Excluding \subseteq kit), NEW sv, GoodConfig(sv)
    PROVE  LET v == RestoreSavedConfig(w, sv)
           IN  /\ Good(v) /\ v.ui = w.ui
               /\ v.ok = FALSE => v.c = w.c
               /\ sv.on = {} => v.ok = TRUE
<1> DEFINE S == <<"megaflash", "sd_mapper", "sunrise_ide", "msx_scsi">>
           fine == Fine(w)
           drives == InTurn(fine, LAMBDA v, d : RestoreDrive(v, sv, d), S)
           carts == Then(drives, LAMBDA v : RestoreRs232(RestoreCartridges(v, sv), sv))
           all == InTurn(carts, LAMBDA v, d : RestoreController(v, sv, d),
                         <<"cdx2", "rdf600">>)
           put == [all EXCEPT !.c = sv]
           applied == ApplyConfig(put)
           fw == RestoreFirmware(applied, sv, w.c.machine)
           end == RestoreFloppies(fw, sv)
<1>1. RestoreSavedConfig(w, sv) = Then(all, LAMBDA v : Then(
          RestoreFirmware(ApplyConfig([v EXCEPT !.c = sv]), sv, w.c.machine),
          LAMBDA u : RestoreFloppies(u, sv)))
  BY DEF RestoreSavedConfig
<1>2. RestoreSavedConfig(w, sv) = IF all.ok THEN IF fw.ok THEN end ELSE fw ELSE all
  <2> HIDE DEF all
  <2> QED BY <1>1 DEF Then
<1>3. PutsBack(w, drives, sv)
  <2> DEFINE one(v, d) == IF v.ok THEN RestoreDrive(v, sv, d) ELSE v
             nth(v, i) == IF i <= Len(S) THEN one(v, S[i]) ELSE v
  <2>1. ASSUME NEW v, PutsBack(w, v, sv), NEW i \in 1 .. 4
        PROVE  PutsBack(w, nth(v, i), sv)
    <3> DEFINE u == RestoreDrive(v, sv, S[i])
    <3>1. PutsBack(v, u, sv)
      <4> DEFINE d == S[i]
      <4>1. d \in Drives
        BY PlacedDevices
      <4> HIDE DEF d
      <4>2. PutsBack(v, RestoreDrive(v, sv, d), sv)
        BY <2>1, <4>1, RestoreDrivePutsBack DEF PutsBack, Moves
      <4> QED BY <4>2 DEF d
    <3>2. nth(v, i) = u \/ nth(v, i) = v
      OBVIOUS
    <3> HIDE DEF u, nth
    <3> QED BY <2>1, <3>1, <3>2 DEF PutsBack, Moves
  <2>2. PutsBack(w, fine, sv)
    BY FineMoves DEF PutsBack
  <2> HIDE DEF fine, S, carts, all, put, applied, fw, end
  <2>3. drives = nth(nth(nth(nth(fine, 1), 2), 3), 4)
    BY SMTT(60), ZenonT(120) DEF InTurn, OneByOne
  <2> HIDE DEF nth, drives
  <2>4. PutsBack(w, nth(nth(fine, 1), 2), sv)
    <3>1. PutsBack(w, nth(fine, 1), sv)
      BY <2>1, <2>2
    <3> QED BY <2>1, <3>1
  <2>5. PutsBack(w, nth(nth(nth(fine, 1), 2), 3), sv)
    BY <2>1, <2>4
  <2> QED BY <2>1, <2>3, <2>5
<1> HIDE DEF drives
<1>4. PutsBack(w, carts, sv)
  <2> DEFINE a == RestoreCartridges(drives, sv)
             b == RestoreRs232(a, sv)
  <2>1. carts = b \/ carts = drives
    BY DEF Then
  <2>2. Moves(drives, a)
    BY <1>3, RestoreCartridgesMoves DEF PutsBack, Moves
  <2> HIDE DEF a
  <2>3. PutsBack(a, b, sv)
    BY <2>2, RestoreRs232PutsBack DEF Moves
  <2> HIDE DEF b, carts
  <2> QED BY <1>3, <2>1, <2>2, <2>3 DEF PutsBack, Moves
<1> HIDE DEF carts
<1>5. PutsBack(w, all, sv)
  <2> DEFINE one(v, d) == IF v.ok THEN RestoreController(v, sv, d) ELSE v
             C == <<"cdx2", "rdf600">>
             nth(v, i) == IF i <= Len(C) THEN one(v, C[i]) ELSE v
  <2>1. ASSUME NEW v, PutsBack(w, v, sv), NEW i
        PROVE  PutsBack(w, nth(v, i), sv)
    <3> DEFINE u == RestoreController(v, sv, C[i])
    <3>1. PutsBack(v, u, sv)
      <4> DEFINE d == C[i]
      <4> HIDE DEF d
      <4>1. PutsBack(v, RestoreController(v, sv, d), sv)
        BY <2>1, RestoreControllerPutsBack DEF PutsBack, Moves
      <4> QED BY <4>1 DEF d
    <3>2. nth(v, i) = u \/ nth(v, i) = v
      OBVIOUS
    <3> HIDE DEF u, nth
    <3> QED BY <2>1, <3>1, <3>2 DEF PutsBack, Moves
  <2>2. all = nth(nth(nth(nth(carts, 1), 2), 3), 4)
    BY SMTT(60), ZenonT(120) DEF InTurn, OneByOne
  <2> HIDE DEF nth, all
  <2>3. PutsBack(w, nth(nth(carts, 1), 2), sv)
    <3>1. PutsBack(w, nth(carts, 1), sv)
      BY <1>4, <2>1
    <3> QED BY <2>1, <3>1
  <2>4. PutsBack(w, nth(nth(nth(carts, 1), 2), 3), sv)
    BY <2>1, <2>3
  <2> QED BY <2>1, <2>2, <2>4
<1> HIDE DEF all
<1>6. Good(put) /\ put.ui = w.ui
  BY <1>5 DEF PutsBack, Moves, Good
<1> HIDE DEF put
<1>7. Good(applied) /\ applied.ui = w.ui
  BY <1>6, ApplyConfigSettles DEF Settles
<1> HIDE DEF applied
<1>8. Good(fw) /\ fw.ui = w.ui /\ fw.ok = TRUE
  <2> DEFINE called == Called(applied)
             loaded == [called EXCEPT !.m.firmware = sv.machine]
  <2>1. Moves(applied, called) /\ called.ok = TRUE
    BY <1>7, CalledMoves
  <2>2. Moves(applied, Fine(applied)) /\ Fine(applied).ok = TRUE
    BY <1>7, FineMoves
  <2>3. fw = Fine(applied) \/ fw = loaded
    BY <2>1 DEF RestoreFirmware, Then
  <2> HIDE DEF called, fw
  <2>4. Moves(applied, loaded) /\ loaded.ok = TRUE
    BY <2>1 DEF Moves, Good, GoodMachine
  <2> HIDE DEF loaded
  <2> QED BY <1>7, <2>2, <2>3, <2>4 DEF Moves
<1> HIDE DEF fw
<1>9. Good(end) /\ end.ui = w.ui /\ end.ok = TRUE
  <2> DEFINE out == InTurn(Fine(fw), EjectBay, BaysOf["floppy"])
             image == sv.image
             in == MountAll(out, "floppy", image, sv)
  <2>1. Moves(fw, Fine(fw)) /\ Fine(fw).ok = TRUE
    BY <1>8, FineMoves
  <2>2. Moves(fw, out) /\ out.ok = TRUE
    <3> DEFINE B == BaysOf["floppy"]
    <3> HIDE DEF B
    <3>1. Moves(fw, InTurn(Fine(fw), EjectBay, B)) /\ InTurn(Fine(fw), EjectBay, B).ok = TRUE
      BY <1>8, EjectBaysMoves
    <3> QED BY <3>1 DEF B
  <2>3. end = Fine(fw) \/ end = in
    BY <2>2 DEF RestoreFloppies, Then
  <2> HIDE DEF out, image
  <2>4. Moves(out, in) /\ in.ok = TRUE
    <3>1. "floppy" \in DOMAIN BaysOf
      BY DEF BaysOf
    <3> QED BY <2>2, <3>1, MountAllMoves DEF Moves
  <2> HIDE DEF in, end
  <2> QED BY <1>8, <2>1, <2>2, <2>3, <2>4 DEF Moves
<1> HIDE DEF end
<1>10. CASE all.ok = TRUE
  BY <1>2, <1>8, <1>9, <1>10
<1>11. CASE all.ok = FALSE
  <2>1. RestoreSavedConfig(w, sv) = all
    BY <1>2, <1>11
  <2> QED BY <1>5, <1>11, <2>1 DEF PutsBack, Moves
<1>12. all.ok \in BOOLEAN
  BY <1>5 DEF PutsBack, Moves, Good
<1> QED BY <1>10, <1>11, <1>12

---------------------------------------------------------------------------
(* What the events tell the user.                                          *)

\* A setup is of a drive of the user; one that connects it finds it off.
SetupOk(w) ==
    w.ui.state = "setup" =>
        /\ w.ui.device \in kit \cap Drives
        /\ ~w.ui.editing => w.ui.device \notin w.c.on

\* An open overlay knows of the change from w to v.
Told(w, v) ==
    /\ Good(v) /\ SetupOk(v)
    /\ v.ui.visible =>
          \/ v.ui.dirty
          \/ v.c = w.c /\ w.ui.visible /\ (w.ui.dirty => v.ui.dirty)

LEMMA MovesTold ==
    ASSUME NEW w, SetupOk(w), NEW v, Moves(w, v)
    PROVE  Told(w, v)
BY DEF Moves, SetupOk, Told

LEMMA ToldMoves ==
    ASSUME NEW w, NEW v, Told(w, v), NEW u, Moves(v, u)
    PROVE  Told(w, u)
BY DEF Moves, SetupOk, Told

LEMMA MovesThenTold ==
    ASSUME NEW w, NEW v, Moves(w, v), NEW u, Told(v, u)
    PROVE  Told(w, u)
BY DEF Moves, Told

LEMMA MenuTold ==
    ASSUME NEW w, Good(w)
    PROVE  /\ Told(w, Menu(w)) /\ Menu(w).c = w.c
           /\ Told(w, CancelSetup(w)) /\ CancelSetup(w).c = w.c
           /\ \A x : Told(x, Closed(w))
<1> DEFINE a == [w EXCEPT !.ui.state = "menu"]
           b == [a EXCEPT !.ui.device = "none"]
           c == [b EXCEPT !.ui.editing = FALSE]
           m == Menu(w)
           d == [m EXCEPT !.ui.visible = FALSE]
           e == [d EXCEPT !.ui.dirty = FALSE]
           f == [m EXCEPT !.ui.discard = w.ui.discard \/ dialog # NoDialog]
           Same(v) == Good(v) /\ v.c = w.c /\ v.ui.state = "menu"
                      /\ v.ui.visible = w.ui.visible /\ v.ui.dirty = w.ui.dirty
<1>1. Same(a)
  BY DEF Good, GoodUi
<1>2. m = [c EXCEPT !.ui.pending = NoPending]
  BY DEF Menu
<1>3. CancelSetup(w) = f /\ Closed(w) = e
  BY DEF CancelSetup, Closed
<1> HIDE DEF a
<1>4. Same(b)
  BY <1>1 DEF Good, GoodUi
<1> HIDE DEF b
<1>5. Same(c)
  BY <1>4 DEF Good, GoodUi
<1> HIDE DEF c, m
<1>6. Same(m)
  BY <1>2, <1>5 DEF Good, GoodUi
<1>7. Same(f)
  BY <1>6 DEF Good, GoodUi
<1> HIDE DEF f
<1>8. Good(d) /\ d.ui.state = "menu" /\ d.ui.visible = FALSE
  BY <1>6 DEF Good, GoodUi
<1> HIDE DEF d
<1>9. Good(e) /\ e.ui.state = "menu" /\ e.ui.visible = FALSE
  BY <1>8 DEF Good, GoodUi
<1> HIDE DEF e
<1>10. Told(w, m) /\ m.c = w.c
  BY <1>6 DEF Told, SetupOk
<1>11. Told(w, f) /\ f.c = w.c
  BY <1>7 DEF Told, SetupOk
<1>12. \A x : Told(x, e)
  BY <1>9 DEF Told, SetupOk
<1> QED BY <1>3, <1>10, <1>11, <1>12 DEF m

LEMMA BeginSetupTold ==
    ASSUME NEW w, Good(w), NEW d \in kit \cap Drives, NEW editing,
           ~editing => d \notin w.c.on
    PROVE  Told(w, BeginSetup(w, d, editing))
<1> DEFINE a == [w EXCEPT !.ui.state = "setup"]
           b == [a EXCEPT !.ui.device = d]
           c == [b EXCEPT !.ui.editing = editing]
           e == [c EXCEPT !.ui.pending = SettingsOf(w.c, d)]
           Same(v) == Good(v) /\ v.c = w.c
                      /\ v.ui.visible = w.ui.visible /\ v.ui.dirty = w.ui.dirty
<1>1. Same(a)
  BY DEF Good, GoodUi
<1>2. BeginSetup(w, d, editing) = e
  BY DEF BeginSetup
<1> HIDE DEF a
<1>3. Same(b) /\ b.ui.device = d
  BY <1>1 DEF Good, GoodUi
<1> HIDE DEF b
<1>4. Same(c) /\ c.ui.device = d /\ c.ui.editing = editing
  BY <1>3 DEF Good, GoodUi
<1> HIDE DEF c
<1>5. Same(e) /\ e.ui.device = d /\ e.ui.editing = editing
  BY <1>4 DEF Good, GoodUi
<1> HIDE DEF e
<1> QED BY <1>2, <1>5 DEF Told, SetupOk

LEMMA DirtyTold ==
    ASSUME NEW w, Good(w), SetupOk(w), NEW x
    PROVE  Told(x, Dirty(w)) /\ Dirty(w).ui = [w.ui EXCEPT !.dirty = TRUE]
           /\ Dirty(w).c = w.c /\ Dirty(w).ui.dirty = TRUE
<1>1. Good(Dirty(w)) /\ Dirty(w).ui = [w.ui EXCEPT !.dirty = TRUE] /\ Dirty(w).c = w.c
  BY DEF Dirty, Good, GoodUi
<1>2. Dirty(w).ui.dirty = TRUE /\ Dirty(w).ui.state = w.ui.state
      /\ Dirty(w).ui.device = w.ui.device /\ Dirty(w).ui.editing = w.ui.editing
  BY <1>1 DEF Good, GoodUi
<1> QED BY <1>1, <1>2 DEF Told, SetupOk

LEMMA EditedTold ==
    ASSUME NEW w, Good(w), SetupOk(w), ~(Excluding \subseteq kit), NEW x
    PROVE  Told(x, Edited(w)) /\ Edited(w).ui.dirty = TRUE
<1> DEFINE v == Edited(w)
<1>1. Good(v) /\ v.ui = [w.ui EXCEPT !.dirty = TRUE] /\ v.c.on \subseteq w.c.on
  BY EditedSettles
<1> HIDE DEF v
<1>2. v.ui.dirty = TRUE /\ v.ui.state = w.ui.state
      /\ v.ui.device = w.ui.device /\ v.ui.editing = w.ui.editing
  BY <1>1 DEF Good, GoodUi
<1>3. Told(x, v)
  BY <1>1, <1>2 DEF Told, SetupOk
<1> QED BY <1>2, <1>3 DEF v

\* An operation of the menu, and what it changes.
LEMMA ThenEditedTold ==
    ASSUME NEW w, w.ui.state = "menu", ~(Excluding \subseteq kit),
           NEW v, Good(v), v.ui = w.ui, v.ok = FALSE => v.c = w.c
    PROVE  Told(w, Then(v, Edited))
<1>1. SetupOk(v)
  BY DEF SetupOk
<1>2. CASE v.ok = TRUE
  <2>1. Then(v, Edited) = Edited(v)
    BY <1>2 DEF Then
  <2> QED BY <1>1, <2>1, EditedTold
<1>3. CASE v.ok = FALSE
  <2>1. Then(v, Edited) = v
    BY <1>3 DEF Then
  <2> QED BY <1>1, <1>3, <2>1 DEF Told
<1> QED BY <1>2, <1>3 DEF Good

---------------------------------------------------------------------------
(* The events of the menu.                                                 *)

InMenuOf(w) == Good(w) /\ w.ui.state = "menu" /\ ~(Excluding \subseteq kit)

LEMMA SwitchTold ==
    ASSUME NEW w, InMenuOf(w), NEW d \in kit \cap Device
    PROVE  Told(w, Switch(w, d))
<1> USE DEF InMenuOf
<1>1. Told(w, w)
  BY DEF Told, SetupOk
<1>2. CASE d \in w.c.on
  <2> DEFINE v == IF d = "rs232" THEN SwitchRs232(w)
                  ELSE IF d \in WithRom THEN Disconnect(w, d)
                  ELSE Toggle(w, d)
  <2>1. Switch(w, d) = Then(v, Edited)
    BY <1>2 DEF Switch
  <2>2. Good(v) /\ v.ui = w.ui /\ (v.ok = FALSE => v.c = w.c)
    <3>1. CASE d = "rs232"
      BY <3>1, SwitchRs232Turns DEF Turns
    <3>2. CASE d # "rs232"
      BY <3>2, DisconnectConnects, ToggleTurns DEF Turns
    <3> QED BY <3>1, <3>2
  <2> HIDE DEF v
  <2> QED BY <2>1, <2>2, ThenEditedTold
<1>3. CASE d \notin w.c.on /\ d = "rs232"
  <2> DEFINE v == SwitchRs232(w)
  <2>1. Switch(w, d) = Edited(v)
    BY <1>3 DEF Switch
  <2>2. Good(v) /\ v.ui = w.ui
    BY <1>3, SwitchRs232Turns DEF Turns
  <2> HIDE DEF v
  <2>3. SetupOk(v)
    BY <2>2 DEF SetupOk
  <2> QED BY <2>1, <2>2, <2>3, EditedTold
<1>4. CASE d \notin w.c.on /\ d # "rs232" /\ d \notin WithRom
  <2> DEFINE v == Toggle(w, d)
  <2>1. Switch(w, d) = Then(v, Edited)
    BY <1>4 DEF Switch
  <2>2. Good(v) /\ v.ui = w.ui /\ (v.ok = FALSE => v.c = w.c)
    BY ToggleTurns DEF Turns
  <2> HIDE DEF v
  <2> QED BY <2>1, <2>2, ThenEditedTold
<1>5. CASE d \notin w.c.on /\ d # "rs232" /\ d \in WithRom
  <2> DEFINE files == Called(w)
             p == SettingsOf(w.c, d)
             v == Connect(files, d, p)
  <2>1. Moves(w, files) /\ files.ok = TRUE
    BY CalledMoves
  <2>2. Switch(w, d) = IF w.c.rom[d] = Empty
                       THEN IF d \in Drives THEN BeginSetup(w, d, FALSE) ELSE w
                       ELSE Then(v, Edited)
    <3>1. (IF d \in WithRom THEN Called(w) ELSE w) = files
      BY <1>5
    <3> QED BY <1>5, <2>1, <3>1 DEF Switch
  <2> HIDE DEF files, p
  <2>3. Connects(files, v, d)
    BY <2>1, ConnectConnects DEF Moves
  <2> HIDE DEF v
  <2>4. Told(w, Then(v, Edited))
    <3>1. Good(v) /\ v.ui = w.ui /\ (v.ok = FALSE => v.c = w.c)
      BY <1>5, <2>1, <2>3 DEF Connects, Turns, Moves
    <3> QED BY <3>1, ThenEditedTold
  <2>5. d \in Drives => Told(w, BeginSetup(w, d, FALSE))
    BY <1>5, BeginSetupTold
  <2> QED BY <1>1, <2>2, <2>4, <2>5
<1> QED BY <1>2, <1>3, <1>4, <1>5

LEMMA ForgetTold ==
    ASSUME NEW w, InMenuOf(w), NEW d \in kit \cap Device
    PROVE  Told(w, Cleared(w, d))
<1> USE DEF InMenuOf
<1> DEFINE x == IF d \in w.c.on THEN Disconnect(w, d) ELSE Fine(w)
           y == Store(x, d, NoPending)
           z == [y EXCEPT !.c.bank = IF d = "cdx2" THEN FALSE ELSE @]
           out == Cleared(w, d)
<1>1. Good(x) /\ x.ui = w.ui /\ (x.ok = FALSE => x.c = w.c)
  BY DisconnectConnects, FineMoves DEF Turns, Moves
<1>2. out = IF x.ok THEN Edited(z) ELSE x
  BY DEF Then, Cleared
<1> HIDE DEF x, out
<1>3. Good(y) /\ y.ui = w.ui
  <2> DEFINE p == NoPending
  <2> HIDE DEF p
  <2>1. Turns(x, Store(x, d, p), d)
    BY <1>1, StoreTurns
  <2>2. Turns(x, y, d)
    BY <2>1 DEF p
  <2> HIDE DEF y
  <2> QED BY <1>1, <2>2 DEF Turns
<1> HIDE DEF y
<1>4. Good(z) /\ z.ui = w.ui
  BY <1>3 DEF Good, GoodConfig
<1> HIDE DEF z
<1>5. SetupOk(x) /\ SetupOk(z)
  BY <1>1, <1>4 DEF SetupOk
<1>6. Told(w, Edited(z))
  BY <1>4, <1>5, EditedTold
<1>7. Told(w, out)
  <2>1. CASE x.ok = TRUE
    BY <1>2, <1>6, <2>1
  <2>2. CASE x.ok = FALSE
    <3>1. out = x
      BY <1>2, <2>2
    <3> QED BY <1>1, <1>5, <2>2, <3>1 DEF Told
  <2> QED BY <1>1, <2>1, <2>2 DEF Good
<1> QED BY <1>7 DEF out

LEMMA SwitchBankTold ==
    ASSUME NEW w, InMenuOf(w)
    PROVE  Told(w, OtherBank(w))
<1> USE DEF InMenuOf
<1> DEFINE d == "cdx2"
           s == LiveSlot(w.m, d)
           rom == w.c.rom[d]
           bank == ~w.c.bank
           loaded == LoadDevice(w, d, s, rom, bank, FALSE)
           x == IF d \in w.c.on /\ s # -1 THEN loaded ELSE Fine(w)
           z == [x EXCEPT !.c.bank = ~@]
           out == OtherBank(w)
<1>1. Moves(w, x)
  <2> HIDE DEF d, s, rom, bank
  <2>1. d \in w.c.on => d \in kit
    BY DEF Good, GoodConfig
  <2>2. d \in w.c.on => Moves(w, loaded)
    BY <2>1, LoadDeviceMoves
  <2> HIDE DEF loaded
  <2> QED BY <2>2, FineMoves
<1>2. out = IF x.ok THEN Edited(z) ELSE x
  BY DEF Then, OtherBank
<1> HIDE DEF x, out
<1>3. Good(z) /\ z.ui = w.ui
  BY <1>1 DEF Moves, Good, GoodConfig
<1> HIDE DEF z
<1>4. SetupOk(z) /\ SetupOk(w)
  BY <1>3 DEF SetupOk
<1>5. Told(w, Edited(z)) /\ Told(w, x)
  BY <1>1, <1>3, <1>4, EditedTold, MovesTold
<1>6. out = Edited(z) \/ out = x
  BY <1>2
<1>7. Told(w, out)
  BY <1>5, <1>6
<1> QED BY <1>7 DEF out

\* An image or a cartridge goes.
LEMMA EjectImageTold ==
    ASSUME NEW w, InMenuOf(w), NEW b
    PROVE  Told(w, Ejected(w, b))
<1> USE DEF InMenuOf
<1> DEFINE x == EjectBay(w, b)
           z == [x EXCEPT !.c.image[b] = Empty]
           out == Ejected(w, b)
<1>1. Moves(w, x) /\ x.ok = TRUE
  BY EjectBayMoves
<1>2. out = Dirty(z)
  BY <1>1 DEF Then, Ejected
<1> HIDE DEF x, out
<1>3. Good(z) /\ SetupOk(z)
  BY <1>1 DEF Moves, Good, GoodConfig, SetupOk
<1> HIDE DEF z
<1>4. Told(w, out)
  BY <1>2, <1>3, DirtyTold
<1> QED BY <1>4 DEF out

LEMMA EjectUserCartTold ==
    ASSUME NEW w, InMenuOf(w), NEW s
    PROVE  Told(w, CartTaken(w, s))
<1> USE DEF InMenuOf
<1> DEFINE x == EjectCart(w, s)
           z == [x EXCEPT !.c.cart[s] = Empty]
<1>1. Moves(w, x)
  BY InstallCartMoves
<1> HIDE DEF x
<1>2. Good(z) /\ SetupOk(z)
  BY <1>1 DEF Moves, Good, GoodConfig, SetupOk
<1> HIDE DEF z
<1>3. Told(w, Dirty(z))
  BY <1>2, DirtyTold
<1> QED BY <1>3 DEF x, z, CartTaken

LEMMA ChangeModeTold ==
    ASSUME NEW w, InMenuOf(w), NEW k
    PROVE  Told(w, ChangeMode(w, k))
<1> USE DEF InMenuOf
<1> DEFINE mode == IF w.c.mode[k] = "ro" THEN "rw" ELSE "ro"
           bays == BaysOfKind(k)
           fine == Fine(w)
           x == Remount(fine, bays, mode)
           z == [x EXCEPT !.c.mode[k] = mode]
           switched == SelectSeq(bays, LAMBDA b : b \in x.fresh)
           old == w.c.mode[k]
           back == Remount(Fine(x), switched, old)
           failed == Failed(back)
<1>1. ChangeDiskMode(w, k, mode) = IF x.ok THEN Edited(z) ELSE x
  BY DEF ChangeDiskMode, Then
<1>2. ChangeMode(w, k) = IF k \in {"ide", "scsi"} THEN ChangeDiskMode(w, k, mode)
                         ELSE IF x.ok THEN Edited(z) ELSE failed
  BY DEF ChangeMode
<1> HIDE DEF mode, bays
<1>3. Moves(w, x)
  <2>1. Moves(w, fine)
    BY FineMoves
  <2> HIDE DEF fine
  <2> QED BY <2>1, RemountMoves DEF Moves
<1> HIDE DEF fine, x
<1>4. Moves(w, failed)
  <2> HIDE DEF switched, old
  <2>1. Moves(x, Fine(x))
    BY <1>3, FineMoves DEF Moves
  <2>2. Moves(Fine(x), back)
    BY <2>1, RemountMoves DEF Moves
  <2> HIDE DEF back
  <2>3. Moves(back, failed)
    BY <2>2, FailedMoves DEF Moves
  <2> HIDE DEF failed
  <2> QED BY <1>3, <2>1, <2>2, <2>3 DEF Moves
<1> HIDE DEF failed
<1>5. Good(z) /\ SetupOk(z) /\ SetupOk(w)
  BY <1>3 DEF Moves, Good, GoodConfig, SetupOk
<1> HIDE DEF z
<1>6. Told(w, Edited(z)) /\ Told(w, x) /\ Told(w, failed)
  BY <1>3, <1>4, <1>5, EditedTold, MovesTold
<1>7. ChangeMode(w, k) \in {Edited(z), x, failed}
  BY <1>1, <1>2
<1> QED BY <1>6, <1>7

LEMMA SelectMachineTold ==
    ASSUME NEW w, InMenuOf(w), NEW x
    PROVE  Told(w, SelectMachine(w, x))
<1> USE DEF InMenuOf
<1> DEFINE target == Normalize([w.c EXCEPT !.machine = x])
           TakeSlot(v, s) ==
            IF \/ Owner(target, s) \in {Nobody, Owner(w.c, s)}
               \/ v.c.cart[s] = Empty /\ v.m.cart[s] = NoCart
            THEN v ELSE [EjectCart(v, s) EXCEPT !.c.cart[s] = Empty]
           called == Called(w)
           a == [called EXCEPT !.m.firmware = x]
           b == TakeSlot(TakeSlot(a, 0), 1)
           c == [b EXCEPT !.c.machine = x]
           e == Edited(c)
           Ok(v) == Good(v) /\ v.ui = w.ui
<1>1. Moves(w, called) /\ called.ok = TRUE
  BY CalledMoves
<1>2. SelectMachine(w, x) = Failed(w) \/ SelectMachine(w, x) = Fine(Reconcile(e))
  <2>1. SelectMachine(w, x) =
           IF \E d \in Drives \cup {"scc", "msx_music", "rs232"} : d \in w.c.on \ target.on
           THEN Failed(w) ELSE IF called.ok THEN Fine(Reconcile(e)) ELSE called
    BY DEF SelectMachine, Then
  <2> HIDE DEF e, called, target
  <2> QED BY <1>1, <2>1
<1> HIDE DEF called, target
<1>3. Ok(a)
  BY <1>1 DEF Moves, Good, GoodMachine
<1> HIDE DEF a
<1>4. ASSUME NEW v, Ok(v), NEW s PROVE Ok(TakeSlot(v, s))
  <2> DEFINE u == EjectCart(v, s)
             y == [u EXCEPT !.c.cart[s] = Empty]
  <2>1. Moves(v, u)
    BY <1>4, InstallCartMoves
  <2>2. TakeSlot(v, s) = v \/ TakeSlot(v, s) = y
    OBVIOUS
  <2> HIDE DEF u, TakeSlot
  <2>3. Ok(y)
    BY <1>4, <2>1 DEF Moves, Good, GoodConfig
  <2> QED BY <1>4, <2>2, <2>3
<1> HIDE DEF TakeSlot
<1>5. Ok(b)
  <2>1. Ok(TakeSlot(a, 0))
    BY <1>3, <1>4
  <2> QED BY <1>4, <2>1
<1> HIDE DEF b
<1>6. Ok(c) /\ SetupOk(c) /\ SetupOk(w)
  BY <1>5 DEF Good, GoodConfig, SetupOk
<1> HIDE DEF c
<1>7. Told(w, e)
  BY <1>6, EditedTold
<1> HIDE DEF e
<1>8. Moves(e, Reconcile(e)) /\ Moves(Reconcile(e), Fine(Reconcile(e)))
  BY <1>7, ReconcileMoves, FineMoves DEF Told, Moves
<1>9. Told(w, Fine(Reconcile(e)))
  BY <1>7, <1>8, ToldMoves
<1>10. Told(w, Failed(w))
  BY <1>6, FailedMoves, MovesTold
<1> QED BY <1>2, <1>9, <1>10

---------------------------------------------------------------------------
(* The setup of a drive, and the answer of the file dialog.                *)

LEMMA FinishSetupTold ==
    ASSUME NEW w, Good(w), SetupOk(w), w.ui.state = "setup", ~(Excluding \subseteq kit)
    PROVE  Told(w, FinishSetup(w))
<1> DEFINE d == w.ui.device
           p == w.ui.pending
           fine == Fine(w)
           replaced == IF d \in fine.c.on THEN ReplaceDevice(fine, d, p) ELSE Fine(fine)
           stored == Store(replaced, d, p)
           edited == Edited(stored)
           v == Connect(w, d, p)
           e == Edited(v)
<1>1. d \in kit \cap Device /\ (~w.ui.editing => d \notin w.c.on)
  BY PriorityDevices DEF SetupOk
<1>2. FinishSetup(w) = w
      \/ FinishSetup(w) = Menu(fine)
      \/ FinishSetup(w) = (IF replaced.ok THEN Menu(edited) ELSE replaced)
      \/ (d \notin w.c.on /\ FinishSetup(w) = (IF v.ok THEN Menu(e) ELSE v))
  <2>1. FinishEditing(fine, d, p) = Menu(fine)
        \/ FinishEditing(fine, d, p) = (IF replaced.ok THEN Menu(edited) ELSE replaced)
    BY DEF FinishEditing, Then
  <2>2. Then(v, LAMBDA u : Menu(Edited(u))) = IF v.ok THEN Menu(e) ELSE v
    BY DEF Then
  <2>3. FinishSetup(w) = IF ~w.ok \/ p.rom = Empty THEN w
                         ELSE IF w.ui.editing THEN FinishEditing(fine, d, p)
                         ELSE Then(v, LAMBDA u : Menu(Edited(u)))
    BY DEF FinishSetup
  <2> HIDE DEF replaced, edited, v, e, fine
  <2> QED BY <1>1, <2>1, <2>2, <2>3
<1> HIDE DEF d, p
<1>3. Moves(w, fine)
  BY FineMoves
<1> HIDE DEF fine
<1>4. Moves(w, replaced)
  BY <1>3, ReplaceDeviceMoves, FineMoves DEF Moves
<1> HIDE DEF replaced
<1>5. Good(stored) /\ SetupOk(stored)
  <2>1. Turns(replaced, stored, d) /\ stored.c.on = replaced.c.on
    BY <1>4, StoreTurns DEF Moves
  <2> HIDE DEF stored
  <2> QED BY <1>4, <2>1 DEF Moves, Turns, SetupOk
<1> HIDE DEF stored
<1>6. Good(edited) /\ edited.ui.dirty = TRUE
  BY <1>5, EditedTold DEF Told
<1> HIDE DEF edited
<1>7. Connects(w, v, d)
  BY <1>1, ConnectConnects
<1> HIDE DEF v
<1>8. Good(e) /\ e.ui.dirty = TRUE
  <2>1. Good(v)
    BY <1>7 DEF Connects, Turns
  <2>2. Good(e) /\ e.ui = [v.ui EXCEPT !.dirty = TRUE]
    BY <2>1, EditedSettles
  <2> HIDE DEF e
  <2> QED BY <2>1, <2>2 DEF Good, GoodUi
<1> HIDE DEF e
<1>9. ASSUME NEW u, Good(u), u.ui.dirty = TRUE PROVE Told(w, Menu(u))
  <2>1. Good(Menu(u)) /\ SetupOk(Menu(u))
    BY <1>9, MenuTold DEF Told
  <2>2. Menu(u).ui.dirty = TRUE
    <3> DEFINE x == [u EXCEPT !.ui.state = "menu", !.ui.device = "none",
                              !.ui.editing = FALSE]
    <3>1. Menu(u) = [x EXCEPT !.ui.pending = NoPending]
      BY DEF Menu
    <3>2. DOMAIN x = DOMAIN u /\ DOMAIN x.ui = DOMAIN u.ui /\ x.ui.dirty = TRUE
      BY <1>9 DEF Good, GoodUi
    <3> HIDE DEF x
    <3> QED BY <1>9, <3>1, <3>2 DEF Good, GoodUi
  <2> QED BY <2>1, <2>2 DEF Told
<1>10. Told(w, w) /\ Told(w, replaced)
  BY <1>4, MovesTold DEF Moves
<1>11. Told(w, Menu(fine))
  BY <1>3, MenuTold, MovesThenTold DEF Moves
<1>12. ASSUME d \notin w.c.on, ~v.ok PROVE Told(w, v)
  <2>1. v.ok = FALSE /\ Good(v) /\ v.ui = w.ui
    BY <1>7, <1>12 DEF Connects, Turns, Good
  <2>2. v.c = w.c
    BY <1>7, <1>12, <2>1 DEF Connects
  <2> QED BY <2>1, <2>2 DEF Told, SetupOk
<1>13. Told(w, Menu(edited)) /\ Told(w, Menu(e))
  BY <1>6, <1>8, <1>9
<1> QED BY <1>2, <1>10, <1>11, <1>12, <1>13

\* Whatever an answer does, the overlay knows that something changed.
Knows(w) == Good(w) /\ SetupOk(w) /\ w.ui.dirty = TRUE

LEMMA KnowsTold ==
    ASSUME NEW v, Knows(v), NEW w
    PROVE  Told(w, v)
BY DEF Knows, Told

LEMMA EditedKnows ==
    ASSUME NEW w, Good(w), SetupOk(w), ~(Excluding \subseteq kit)
    PROVE  Knows(Edited(w))
BY EditedTold DEF Knows, Told

LEMMA MovesKnows ==
    ASSUME NEW w, Knows(w), NEW v, Moves(w, v)
    PROVE  Knows(v)
BY DEF Knows, Moves, SetupOk

LEMMA TakeRomKnows ==
    ASSUME NEW w, Knows(w), ~(Excluding \subseteq kit),
           NEW d \in kit \cap (Drives \cup Controllers), NEW path
    PROVE  Knows(TakeRom(w, d, path))
<1> DEFINE s == LiveSlot(w.m, d)
           bank == w.c.bank
           p == [SettingsOf(w.c, d) EXCEPT !.rom = path]
           loaded == LoadDevice(w, d, s, path, bank, FALSE)
           named == [loaded EXCEPT !.c.rom[d] = path]
           v == Connect(w, d, p)
           x == IF d \in w.c.on /\ s # -1
                THEN IF loaded.ok THEN named ELSE loaded ELSE v
           asked == [w EXCEPT !.ui.pending.rom = path]
<1>1. d \in kit /\ d \in Device
  BY PriorityDevices
<1>2. CASE d \in Drives
  <2>1. TakeRom(w, d, path) = asked \/ TakeRom(w, d, path) = w
    BY <1>2 DEF TakeRom
  <2>2. Knows(asked)
    BY DEF Knows, Good, GoodUi, SetupOk
  <2> HIDE DEF asked
  <2> QED BY <2>1, <2>2
<1>3. CASE d \notin Drives
  <2>1. TakeRom(w, d, path) = IF x.ok THEN Edited(x) ELSE x
    <3>1. Then(loaded, LAMBDA u : [u EXCEPT !.c.rom[d] = path])
            = IF loaded.ok THEN named ELSE loaded
      BY DEF Then
    <3>2. TakeRom(w, d, path) =
            Then(IF d \in w.c.on /\ s # -1
                 THEN Then(loaded, LAMBDA u : [u EXCEPT !.c.rom[d] = path])
                 ELSE v, Edited)
      BY <1>3 DEF TakeRom
    <3>3. TakeRom(w, d, path) = Then(x, Edited)
      BY <3>1, <3>2
    <3> HIDE DEF x
    <3> QED BY <3>3 DEF Then
  <2>2. Good(w)
    BY DEF Knows
  <2>3. Moves(w, loaded)
    <3> HIDE DEF s, bank
    <3> QED BY <1>1, <2>2, LoadDeviceMoves
  <2>4. Connects(w, v, d)
    <3> HIDE DEF p
    <3> QED BY <1>1, <2>2, ConnectConnects
  <2> HIDE DEF s, loaded, v
  <2>5. Turns(w, named, d)
    BY <2>3 DEF Moves, Turns, Good, GoodConfig
  <2> HIDE DEF named
  <2>6. Turns(w, x, d)
    BY <2>3, <2>4, <2>5 DEF Moves, Turns, Connects
  <2> HIDE DEF x
  <2>7. Knows(x)
    <3>1. SetupOk(x)
      BY <1>3, <2>6 DEF Knows, Turns, SetupOk
    <3> QED BY <2>6, <3>1 DEF Knows, Turns
  <2>8. Knows(Edited(x))
    BY <2>7, EditedKnows DEF Knows
  <2> QED BY <2>1, <2>7, <2>8
<1> QED BY <1>2, <1>3

LEMMA TakeImageKnows ==
    ASSUME NEW w, Knows(w), NEW b, NEW path
    PROVE  Knows(TakeImage(w, b, path))
<1> DEFINE mode == ModeOf(w.c, b)
           x == MountBay(w, b, path, mode)
           y == [x EXCEPT !.c.image[b] = path]
           z == Dirty(y)
           asked == [w EXCEPT !.ui.pending.image[b] = path]
<1>1. TakeImage(w, b, path) = asked \/ TakeImage(w, b, path) = x
      \/ TakeImage(w, b, path) = z
  <2>1. Then(x, LAMBDA v : Dirty([v EXCEPT !.c.image[b] = path])) = IF x.ok THEN z ELSE x
    BY DEF Then
  <2>2. TakeImage(w, b, path) = asked \/ TakeImage(w, b, path) =
            Then(x, LAMBDA v : Dirty([v EXCEPT !.c.image[b] = path]))
    BY DEF TakeImage
  <2> HIDE DEF asked, x, z
  <2> QED BY <2>1, <2>2
<1>2. Knows(asked)
  BY DEF Knows, Good, GoodUi, SetupOk
<1> HIDE DEF asked, mode
<1>3. Moves(w, x)
  BY MountBayMoves DEF Knows
<1> HIDE DEF x
<1>4. Knows(x)
  BY <1>3, MovesKnows
<1>5. Good(y) /\ SetupOk(y)
  BY <1>4 DEF Knows, Good, GoodConfig, SetupOk
<1> HIDE DEF y
<1>6. Knows(z)
  BY <1>5, DirtyTold DEF Knows, Told
<1> QED BY <1>1, <1>2, <1>4, <1>6

LEMMA TakeCartKnows ==
    ASSUME NEW w, Knows(w), NEW s, NEW path
    PROVE  Knows(TakeCart(w, s, path))
<1> DEFINE x == LoadCart(w, s, path)
           y == [x EXCEPT !.c.cart[s] = path]
           z == Dirty(y)
<1>1. TakeCart(w, s, path) = w \/ TakeCart(w, s, path) = x \/ TakeCart(w, s, path) = z
  BY DEF TakeCart, Then
<1>2. Moves(w, x)
  BY LoadCartMoves DEF Knows
<1> HIDE DEF x
<1>3. Knows(x)
  BY <1>2, MovesKnows
<1>4. Good(y) /\ SetupOk(y)
  BY <1>3 DEF Knows, Good, GoodConfig, SetupOk
<1> HIDE DEF y
<1>5. Knows(z)
  BY <1>4, DirtyTold DEF Knows, Told
<1> QED BY <1>1, <1>3, <1>5

DialogOk ==
    dialog # NoDialog =>
        /\ dialog[1] \in {"rom", "image", "cart"}
        /\ dialog[1] = "rom" => dialog[2] \in kit \cap (Drives \cup Controllers)

LEMMA AnsweredTold ==
    ASSUME NEW w, Good(w), SetupOk(w), ~(Excluding \subseteq kit), DialogOk,
           dialog # NoDialog, NEW path
    PROVE  Told(w, Answered(w, path))
<1> DEFINE kept == [w EXCEPT !.ui.discard = FALSE]
           x == Dirty(kept)
<1>1. Good(kept) /\ SetupOk(kept) /\ Told(w, kept)
  BY DEF Good, GoodUi, SetupOk, Told
<1>2. Answered(w, path) = kept \/ Answered(w, path) = Take(x, path)
  BY DEF Answered
<1> HIDE DEF kept
<1>3. Knows(x)
  BY <1>1, DirtyTold DEF Knows, Told
<1> HIDE DEF x
<1>4. Knows(Take(x, path))
  <2>1. CASE dialog[1] = "rom"
    <3>1. Take(x, path) = TakeRom(x, dialog[2], path)
      BY <2>1 DEF Take
    <3> QED BY <1>3, <2>1, <3>1, TakeRomKnows DEF DialogOk
  <2>2. CASE dialog[1] = "image"
    <3>1. Take(x, path) = TakeImage(x, dialog[2], path)
      BY <2>2 DEF Take
    <3> QED BY <1>3, <3>1, TakeImageKnows
  <2>3. CASE dialog[1] = "cart"
    <3>1. Take(x, path) = TakeCart(x, dialog[2], path)
      BY <2>3 DEF Take
    <3> QED BY <1>3, <3>1, TakeCartKnows
  <2> QED BY <2>1, <2>2, <2>3 DEF DialogOk
<1> QED BY <1>1, <1>2, <1>4, KnowsTold

---------------------------------------------------------------------------
(* The start of the program.                                               *)

LEMMA StartDeviceSettles ==
    ASSUME NEW w, Good(w), ~(Excluding \subseteq kit), NEW d
    PROVE  Settles(w, StartDevice(w, d))
<1> DEFINE s == OwnSlot(w.c, d)
           rom == w.c.rom[d]
           bank == w.c.bank
           d0 == w.c.d0
           loaded == LoadDevice(w, d, s, rom, bank, d0)
           off == [Off(loaded, d) EXCEPT !.c = Normalize(@)]
<1>1. StartDevice(w, d) = w
      \/ (d \in w.c.on /\ (StartDevice(w, d) = off \/ StartDevice(w, d) = loaded))
  BY DEF StartDevice
<1> HIDE DEF s, rom, bank, d0
<1>2. ASSUME d \in w.c.on PROVE Moves(w, loaded)
  <2>1. d \in kit
    BY <1>2 DEF Good, GoodConfig
  <2> QED BY <2>1, LoadDeviceMoves
<1> HIDE DEF loaded
<1>3. ASSUME d \in w.c.on PROVE Settles(loaded, off)
  BY <1>2, <1>3, OffNormalizedSettles DEF Moves
<1> HIDE DEF off
<1> QED BY <1>1, <1>2, <1>3 DEF Moves, Settles

LEMMA StartImagesMoves ==
    ASSUME NEW w, Good(w), NEW d
    PROVE  Moves(w, StartImages(w, d))
<1> DEFINE S == BaysOf[d]
           one(v, b) == IF w.c.image[b] = Empty THEN v
                        ELSE MountBay(v, b, w.c.image[b], ModeOf(w.c, b))
           nth(v, i) == IF i <= Len(S) THEN one(v, S[i]) ELSE v
<1>1. ASSUME NEW v, Moves(w, v), NEW i PROVE Moves(w, nth(v, i))
  <2> DEFINE b == S[i]
             path == w.c.image[b]
             mode == ModeOf(w.c, b)
             u == MountBay(v, b, path, mode)
  <2>1. nth(v, i) = v \/ nth(v, i) = u
    OBVIOUS
  <2> HIDE DEF b, path, mode, nth
  <2>2. Moves(v, u)
    <3>1. Good(v)
      BY <1>1 DEF Moves
    <3> HIDE DEF one
    <3> QED BY <3>1, MountBayMoves
  <2> HIDE DEF u
  <2> QED BY <1>1, <2>1, <2>2 DEF Moves
<1>2. Moves(w, w)
  BY DEF Moves
<1>3. StartImages(w, d) = nth(nth(nth(nth(w, 1), 2), 3), 4)
  <2> HIDE DEF S
  <2> QED BY SMTT(60), ZenonT(120) DEF StartImages, OneByOne, S
<1> HIDE DEF nth
<1>4. Moves(w, nth(nth(w, 1), 2))
  <2>1. Moves(w, nth(w, 1))
    BY <1>1, <1>2
  <2> QED BY <1>1, <2>1
<1>5. Moves(w, nth(nth(nth(w, 1), 2), 3))
  BY <1>1, <1>4
<1> QED BY <1>1, <1>3, <1>5

LEMMA StartDriveSettles ==
    ASSUME NEW w, Good(w), ~(Excluding \subseteq kit), NEW d
    PROVE  Settles(w, StartDrive(w, d))
<1> DEFINE x == StartDevice(w, d)
<1>1. Settles(w, x)
  BY StartDeviceSettles
<1>2. StartDrive(w, d) = StartImages(x, d)
  BY DEF StartDrive
<1> HIDE DEF x
<1>3. Moves(x, StartImages(x, d))
  BY <1>1, StartImagesMoves DEF Settles
<1> QED BY <1>1, <1>2, <1>3 DEF Settles, Moves

LEMMA StartedGood ==
    ASSUME NEW c, GoodConfig(c), ~(Excluding \subseteq kit)
    PROVE  LET v == Started(c, 0)
           IN  Good(v) /\ v.ui.visible = FALSE /\ v.ui.state = "menu"
<1> DEFINE ui0 == [visible |-> FALSE, dirty |-> FALSE, state |-> "menu", device |-> "none",
                   editing |-> FALSE, pending |-> NoPending, discard |-> FALSE]
           nothing == [c |-> Normalize(c), m |-> NoMachine(c), fail |-> 0,
                       ok |-> TRUE, fresh |-> {}, lost |-> FALSE, ui |-> ui0]
           a == ApplyPowergraph(nothing)
           F == <<"cdx2", "rdf600">>
           nthc(v, i) == IF i <= Len(F) THEN StartDevice(v, F[i]) ELSE v
           fdc == nthc(nthc(nthc(nthc(a, 1), 2), 3), 4)
           b == IF "floppy" \in kit THEN StartImages(fdc, "floppy") ELSE fdc
           D == <<"sunrise_ide", "msx_scsi", "sd_mapper", "megaflash">>
           nthd(v, i) == IF i <= Len(D) THEN StartDrive(v, D[i]) ELSE v
           drives == nthd(nthd(nthd(nthd(b, 1), 2), 3), 4)
           rs == StartDevice(drives, "rs232")
           one == StartCart(rs, 0)
           carts == StartCart(one, 1)
           Ok(v) == Good(v) /\ v.ui.visible = FALSE /\ v.ui.state = "menu"
<1>1. Started(c, 0) = ApplyConfig(carts)
  <2>1. fdc = OneByOne(a, StartDevice, F)
    BY DEF OneByOne
  <2> DEFINE x == fdc
  <2>2. drives = OneByOne(b, StartDrive, D)
    <3> HIDE DEF b, D
    <3> QED BY DEF OneByOne
  <2>3. Started(c, 0) = ApplyConfig(StartCart(StartCart(StartDevice(
            OneByOne(IF "floppy" \in kit
                     THEN StartImages(OneByOne(a, StartDevice, F), "floppy")
                     ELSE OneByOne(a, StartDevice, F), StartDrive, D), "rs232"), 0), 1))
    <3> HIDE DEF drives, b, fdc
    <3> QED BY DEF Started
  <2>4. b = IF "floppy" \in kit THEN StartImages(fdc, "floppy") ELSE fdc
    OBVIOUS
  <2> HIDE DEF b, drives, fdc, a, F, D
  <2> QED BY <2>1, <2>2, <2>3, <2>4
<1>2. Ok(nothing)
  <2>1. GoodConfig(Normalize(c))
    BY NormalizeKeeps
  <2>2. GoodMachine(NoMachine(c))
    BY ExcludingPlaced DEF NoMachine, GoodMachine
  <2>3. GoodUi(ui0) /\ ui0.visible = FALSE /\ ui0.state = "menu"
    BY DEF GoodUi
  <2> HIDE DEF ui0
  <2> QED BY <2>1, <2>2, <2>3 DEF Good
<1> HIDE DEF nothing
<1>3. \A v, u : Ok(v) /\ (Settles(v, u) \/ Moves(v, u)) => Ok(u)
  BY DEF Settles, Moves
<1>4. Ok(a)
  BY <1>2, <1>3, ApplyPowergraphSettles
<1> HIDE DEF a
<1>5. \A v, i : Ok(v) => Ok(nthc(v, i))
  <2>1. \A v, d : Ok(v) => Ok(StartDevice(v, d))
    BY <1>3, StartDeviceSettles
  <2> HIDE DEF Ok, F
  <2> QED BY <2>1
<1> HIDE DEF nthc, Ok
<1>6. Ok(fdc)
  BY <1>4, <1>5
<1> HIDE DEF fdc
<1>7. Ok(b)
  BY <1>3, <1>6, StartImagesMoves DEF Ok
<1> HIDE DEF b
<1>8. \A v, i : Ok(v) => Ok(nthd(v, i))
  <2>1. \A v, d : Ok(v) => Ok(StartDrive(v, d))
    BY <1>3, StartDriveSettles DEF Ok
  <2> HIDE DEF D
  <2> QED BY <2>1
<1> HIDE DEF nthd
<1>9. Ok(drives)
  BY <1>7, <1>8
<1> HIDE DEF drives
<1>10. Ok(rs)
  BY <1>3, <1>9, StartDeviceSettles DEF Ok
<1> HIDE DEF rs
<1>11. ASSUME NEW v, Ok(v), NEW s PROVE Ok(StartCart(v, s))
  <2> DEFINE path == v.c.cart[s]
             u == LoadCart(v, s, path)
  <2>1. StartCart(v, s) = v \/ StartCart(v, s) = u
    BY DEF StartCart
  <2> HIDE DEF path
  <2>2. Moves(v, u)
    BY <1>11, LoadCartMoves DEF Ok
  <2> HIDE DEF u
  <2> QED BY <1>3, <1>11, <2>1, <2>2
<1>12. Ok(carts)
  BY <1>10, <1>11
<1> HIDE DEF carts
<1>13. Ok(ApplyConfig(carts))
  BY <1>3, <1>12, ApplyConfigSettles DEF Ok
<1> QED BY <1>1, <1>13 DEF Ok

LEMMA UserConfigsGood ==
    ASSUME NEW c \in UserConfigs
    PROVE  GoodConfig(c)
<1>1. PICK o \in Pasts : c = UserConfig(o)
  BY DEF UserConfigs
<1> DEFINE bare == [Defaults EXCEPT !.on = o.on, !.machine = o.machine, !.d0 = o.d0]
<1>2. PICK rom, image, mode, cart :
        c = [bare EXCEPT !.rom = rom, !.image = image, !.mode = mode, !.cart = cart]
  BY <1>1 DEF UserConfig
<1>3. DOMAIN c = DOMAIN Defaults
  BY <1>2
<1>4. c.on = o.on /\ o.on \subseteq kit
  <2>1. "on" \in DOMAIN Defaults
    BY DEF Defaults
  <2>2. o.on \in SUBSET (kit \ {"floppy"})
    BY DEF Pasts
  <2> QED BY <1>2, <2>1, <2>2
<1>5. DOMAIN Defaults = {"on", "rom", "image", "mode", "cart", "d0", "bank", "machine"}
  BY DEF Defaults
<1> QED BY <1>3, <1>4, <1>5 DEF GoodConfig

---------------------------------------------------------------------------
(* Every step of the program.                                              *)

Apart == \A u \in Users : ~({"msx_scsi", "cdx2"} \subseteq u.kit)

SettingsInv ==
    /\ user \in Users
    /\ DialogOk
    /\ refused = "never" =>
          /\ Good(World(0)) /\ SetupOk(World(0)) /\ GoodConfig(saved)
          /\ DirtyTellsTruth

LEMMA NeverBoth ==
    ASSUME Apart, user \in Users
    PROVE  ~(Excluding \subseteq kit)
BY DEF Apart, Excluding, kit

LEMMA SettingsStart ==
    ASSUME Apart, Init
    PROVE  SettingsInv
<1>1. user \in Users /\ DialogOk
  BY DEF Init, DialogOk
<1>2. ASSUME refused = "never"
      PROVE  Good(World(0)) /\ SetupOk(World(0)) /\ GoodConfig(saved) /\ DirtyTellsTruth
  <2>1. PICK c \in UserConfigs : \E fail \in 0 .. user.start :
          LET w == Started(c, fail)
          IN  /\ w.fail = 0
              /\ config = w.c /\ msx = w.m /\ ui = w.ui /\ saved = w.c
              /\ refused = IF fail > 0 THEN "start" ELSE "never"
    BY DEF Init
  <2> DEFINE v == Started(c, 0)
  <2>2. config = v.c /\ msx = v.m /\ ui = v.ui /\ saved = v.c
    <3>1. PICK fail \in 0 .. user.start :
          LET w == Started(c, fail)
          IN  /\ w.fail = 0
              /\ config = w.c /\ msx = w.m /\ ui = w.ui /\ saved = w.c
              /\ refused = IF fail > 0 THEN "start" ELSE "never"
      BY <2>1
    <3>2. fail = 0
      BY <1>2, <3>1
    <3> QED BY <3>1, <3>2
  <2>3. Good(v) /\ v.ui.visible = FALSE /\ v.ui.state = "menu"
    BY <1>1, UserConfigsGood, NeverBoth, StartedGood
  <2> HIDE DEF v
  <2> QED BY <2>2, <2>3 DEF Good, World, SetupOk, DirtyTellsTruth
<1> QED BY <1>1, <1>2 DEF SettingsInv

\* What an event leaves, if the host refuses nothing.
Becomes(v) == /\ config' = v.c /\ msx' = v.m /\ ui' = v.ui
              /\ user' = user /\ refused = "never"

LEMMA EventKeeps ==
    ASSUME SettingsInv, refused' = "never", NEW v, Becomes(v),
           Told(World(0), v), saved' = saved, DialogOk'
    PROVE  SettingsInv'
<1>1. user' \in Users /\ kit' = kit
  BY DEF SettingsInv, Becomes, kit
<1>2. Good(World(0))'
  BY <1>1 DEF Becomes, Told, Good, GoodConfig, GoodMachine, GoodUi, World
<1>3. SetupOk(World(0))'
  BY <1>1 DEF Becomes, Told, SetupOk, World
<1>4. GoodConfig(saved)'
  BY <1>1 DEF SettingsInv, Becomes, GoodConfig
<1>5. DirtyTellsTruth'
  BY DEF SettingsInv, Becomes, Told, DirtyTellsTruth, World
<1> QED BY <1>1, <1>2, <1>3, <1>4, <1>5 DEF SettingsInv

\* The dialog is not touched by most events.
LEMMA DialogKeeps ==
    ASSUME DialogOk, dialog' = dialog, user' = user
    PROVE  DialogOk'
BY DEF DialogOk, kit

LEMMA Concluded ==
    ASSUME SettingsInv, user' = user, saved' = saved, DialogOk', NEW v,
           refused' = "never" => Becomes(v) /\ Told(World(0), v)
    PROVE  SettingsInv'
<1>1. CASE refused' = "never"
  BY <1>1, EventKeeps
<1>2. CASE refused' # "never"
  BY <1>2 DEF SettingsInv
<1> QED BY <1>1, <1>2

LEMMA WorldGood ==
    ASSUME Apart, SettingsInv
    PROVE  /\ DialogOk /\ ~(Excluding \subseteq kit)
           /\ World(0).ui = ui /\ World(0).c = config /\ World(0).m = msx
           /\ refused = "never" => Good(World(0)) /\ SetupOk(World(0)) /\ GoodConfig(saved)
BY NeverBoth DEF SettingsInv, World

LEMMA ActivateKeeps ==
    ASSUME Apart, SettingsInv, NEW d \in KitDevice, Activate(d)
    PROVE  SettingsInv'
<1> DEFINE w == World(0)
           Op(u) == Switch(u, d)
           v == Op(w)
<1>1. PICK fail \in Int :
        /\ fail >= 0
        /\ config' = Op(World(fail)).c /\ msx' = Op(World(fail)).m /\ ui' = Op(World(fail)).ui
        /\ IF fail = 0 THEN refused' = refused ELSE refused' # "never"
        /\ user' = user /\ saved' = saved /\ dialog' = dialog
        /\ ui.state = "menu"
  BY DEF Activate, Edit, Do, DoAs, InMenu
<1> HIDE DEF Op
<1>2. refused' = "never" => Becomes(v)
  BY <1>1 DEF Becomes
<1>3. ASSUME refused = "never" PROVE Told(w, v)
  <2>1. Good(w) /\ SetupOk(w) /\ w.ui = ui /\ w.c = config /\ ~(Excluding \subseteq kit) /\ DialogOk
    BY <1>3, WorldGood
  <2> HIDE DEF w
  <2>2. InMenuOf(w)
    BY <1>1, <2>1 DEF InMenuOf
  <2> QED BY <2>2, SwitchTold DEF KitDevice, v, Op
<1>4. DialogOk'
  BY <1>1, DialogKeeps, WorldGood DEF DialogOk
<1> HIDE DEF v, w
<1> QED BY <1>1, <1>2, <1>3, <1>4, Concluded DEF Becomes, w

LEMMA ForgetKeeps ==
    ASSUME Apart, SettingsInv, NEW d \in KitDevice, Forget(d)
    PROVE  SettingsInv'
<1> DEFINE w == World(0)
           Op(u) == Cleared(u, d)
           v == Op(w)
<1>1. PICK fail \in Int :
        /\ fail >= 0
        /\ config' = Op(World(fail)).c /\ msx' = Op(World(fail)).m /\ ui' = Op(World(fail)).ui
        /\ IF fail = 0 THEN refused' = refused ELSE refused' # "never"
        /\ user' = user /\ saved' = saved /\ dialog' = dialog
        /\ ui.state = "menu"
  BY DEF Forget, Edit, Do, DoAs, InMenu
<1> HIDE DEF Op
<1>2. refused' = "never" => Becomes(v)
  BY <1>1 DEF Becomes
<1>3. ASSUME refused = "never" PROVE Told(w, v)
  <2>1. Good(w) /\ SetupOk(w) /\ w.ui = ui /\ w.c = config /\ ~(Excluding \subseteq kit) /\ DialogOk
    BY <1>3, WorldGood
  <2> HIDE DEF w
  <2>2. InMenuOf(w)
    BY <1>1, <2>1 DEF InMenuOf
  <2> QED BY <2>2, ForgetTold DEF KitDevice, v, Op
<1>4. DialogOk'
  BY <1>1, DialogKeeps, WorldGood DEF DialogOk
<1> HIDE DEF v, w
<1> QED BY <1>1, <1>2, <1>3, <1>4, Concluded DEF Becomes, w

LEMMA SwitchBankKeeps ==
    ASSUME Apart, SettingsInv, SwitchBank
    PROVE  SettingsInv'
<1> DEFINE w == World(0)
           Op(u) == OtherBank(u)
           v == Op(w)
<1>1. PICK fail \in Int :
        /\ fail >= 0
        /\ config' = Op(World(fail)).c /\ msx' = Op(World(fail)).m /\ ui' = Op(World(fail)).ui
        /\ IF fail = 0 THEN refused' = refused ELSE refused' # "never"
        /\ user' = user /\ saved' = saved /\ dialog' = dialog
        /\ ui.state = "menu"
  BY DEF SwitchBank, Edit, Do, DoAs, InMenu
<1> HIDE DEF Op
<1>2. refused' = "never" => Becomes(v)
  BY <1>1 DEF Becomes
<1>3. ASSUME refused = "never" PROVE Told(w, v)
  <2>1. Good(w) /\ SetupOk(w) /\ w.ui = ui /\ w.c = config /\ ~(Excluding \subseteq kit) /\ DialogOk
    BY <1>3, WorldGood
  <2> HIDE DEF w
  <2>2. InMenuOf(w)
    BY <1>1, <2>1 DEF InMenuOf
  <2> QED BY <2>2, SwitchBankTold DEF v, Op
<1>4. DialogOk'
  BY <1>1, DialogKeeps, WorldGood DEF DialogOk
<1> HIDE DEF v, w
<1> QED BY <1>1, <1>2, <1>3, <1>4, Concluded DEF Becomes, w

LEMMA EjectImageKeeps ==
    ASSUME Apart, SettingsInv, NEW b, EjectImage(b)
    PROVE  SettingsInv'
<1> DEFINE w == World(0)
           Op(u) == Ejected(u, b)
           v == Op(w)
<1>1. PICK fail \in Int :
        /\ fail >= 0
        /\ config' = Op(World(fail)).c /\ msx' = Op(World(fail)).m /\ ui' = Op(World(fail)).ui
        /\ IF fail = 0 THEN refused' = refused ELSE refused' # "never"
        /\ user' = user /\ saved' = saved /\ dialog' = dialog
        /\ ui.state = "menu"
  BY DEF EjectImage, Edit, Do, DoAs, InMenu
<1> HIDE DEF Op
<1>2. refused' = "never" => Becomes(v)
  BY <1>1 DEF Becomes
<1>3. ASSUME refused = "never" PROVE Told(w, v)
  <2>1. Good(w) /\ SetupOk(w) /\ w.ui = ui /\ w.c = config /\ ~(Excluding \subseteq kit) /\ DialogOk
    BY <1>3, WorldGood
  <2> HIDE DEF w
  <2>2. InMenuOf(w)
    BY <1>1, <2>1 DEF InMenuOf
  <2> QED BY <2>2, EjectImageTold DEF v, Op
<1>4. DialogOk'
  BY <1>1, DialogKeeps, WorldGood DEF DialogOk
<1> HIDE DEF v, w
<1> QED BY <1>1, <1>2, <1>3, <1>4, Concluded DEF Becomes, w

LEMMA EjectUserCartKeeps ==
    ASSUME Apart, SettingsInv, NEW s, EjectUserCart(s)
    PROVE  SettingsInv'
<1> DEFINE w == World(0)
           Op(u) == CartTaken(u, s)
           v == Op(w)
<1>1. PICK fail \in Int :
        /\ fail >= 0
        /\ config' = Op(World(fail)).c /\ msx' = Op(World(fail)).m /\ ui' = Op(World(fail)).ui
        /\ IF fail = 0 THEN refused' = refused ELSE refused' # "never"
        /\ user' = user /\ saved' = saved /\ dialog' = dialog
        /\ ui.state = "menu"
  BY DEF EjectUserCart, Edit, Do, DoAs, InMenu
<1> HIDE DEF Op
<1>2. refused' = "never" => Becomes(v)
  BY <1>1 DEF Becomes
<1>3. ASSUME refused = "never" PROVE Told(w, v)
  <2>1. Good(w) /\ SetupOk(w) /\ w.ui = ui /\ w.c = config /\ ~(Excluding \subseteq kit) /\ DialogOk
    BY <1>3, WorldGood
  <2> HIDE DEF w
  <2>2. InMenuOf(w)
    BY <1>1, <2>1 DEF InMenuOf
  <2> QED BY <2>2, EjectUserCartTold DEF v, Op
<1>4. DialogOk'
  BY <1>1, DialogKeeps, WorldGood DEF DialogOk
<1> HIDE DEF v, w
<1> QED BY <1>1, <1>2, <1>3, <1>4, Concluded DEF Becomes, w

LEMMA SetImageModeKeeps ==
    ASSUME Apart, SettingsInv, NEW k, SetImageMode(k)
    PROVE  SettingsInv'
<1> DEFINE w == World(0)
           Op(u) == ChangeMode(u, k)
           v == Op(w)
<1>1. PICK fail \in Int :
        /\ fail >= 0
        /\ config' = Op(World(fail)).c /\ msx' = Op(World(fail)).m /\ ui' = Op(World(fail)).ui
        /\ IF fail = 0 THEN refused' = refused ELSE refused' # "never"
        /\ user' = user /\ saved' = saved /\ dialog' = dialog
        /\ ui.state = "menu"
  BY DEF SetImageMode, Edit, Do, DoAs, InMenu
<1> HIDE DEF Op
<1>2. refused' = "never" => Becomes(v)
  BY <1>1 DEF Becomes
<1>3. ASSUME refused = "never" PROVE Told(w, v)
  <2>1. Good(w) /\ SetupOk(w) /\ w.ui = ui /\ w.c = config /\ ~(Excluding \subseteq kit) /\ DialogOk
    BY <1>3, WorldGood
  <2> HIDE DEF w
  <2>2. InMenuOf(w)
    BY <1>1, <2>1 DEF InMenuOf
  <2> QED BY <2>2, ChangeModeTold DEF v, Op
<1>4. DialogOk'
  BY <1>1, DialogKeeps, WorldGood DEF DialogOk
<1> HIDE DEF v, w
<1> QED BY <1>1, <1>2, <1>3, <1>4, Concluded DEF Becomes, w

LEMMA ChooseMachineKeeps ==
    ASSUME Apart, SettingsInv, NEW x, ChooseMachine(x)
    PROVE  SettingsInv'
<1> DEFINE w == World(0)
           Op(u) == SelectMachine(u, x)
           v == Op(w)
<1>1. PICK fail \in Int :
        /\ fail >= 0
        /\ config' = Op(World(fail)).c /\ msx' = Op(World(fail)).m /\ ui' = Op(World(fail)).ui
        /\ IF fail = 0 THEN refused' = refused ELSE refused' # "never"
        /\ user' = user /\ saved' = saved /\ dialog' = dialog
        /\ ui.state = "menu"
  BY DEF ChooseMachine, Edit, Do, DoAs, InMenu
<1> HIDE DEF Op
<1>2. refused' = "never" => Becomes(v)
  BY <1>1 DEF Becomes
<1>3. ASSUME refused = "never" PROVE Told(w, v)
  <2>1. Good(w) /\ SetupOk(w) /\ w.ui = ui /\ w.c = config /\ ~(Excluding \subseteq kit) /\ DialogOk
    BY <1>3, WorldGood
  <2> HIDE DEF w
  <2>2. InMenuOf(w)
    BY <1>1, <2>1 DEF InMenuOf
  <2> QED BY <2>2, SelectMachineTold DEF v, Op
<1>4. DialogOk'
  BY <1>1, DialogKeeps, WorldGood DEF DialogOk
<1> HIDE DEF v, w
<1> QED BY <1>1, <1>2, <1>3, <1>4, Concluded DEF Becomes, w

LEMMA EditSettingsKeeps ==
    ASSUME Apart, SettingsInv, NEW d \in KitDevice \cap Drives, EditSettings(d)
    PROVE  SettingsInv'
<1> DEFINE w == World(0)
           Op(u) == BeginSetup(u, d, TRUE)
           v == Op(w)
<1> DEFINE Edits(fail) ==
               /\ Op(World(fail)).fail = 0
               /\ config' = Op(World(fail)).c /\ msx' = Op(World(fail)).m
               /\ ui' = Op(World(fail)).ui
               /\ refused' = IF fail = 0 THEN refused
                             ELSE IF Op(World(fail)).lost /\ "edit" = "edit" THEN "closing"
                             ELSE "edit"
               /\ UNCHANGED user
<1>5. UNCHANGED <<saved, dialog>>
  BY DEF EditSettings
<1>6. \E fail \in IF refused = "never" THEN 0 .. user.calls ELSE {0} : Edits(fail)
  BY Zenon DEF EditSettings, Do, DoAs
<1> HIDE DEF Op
<1>1. PICK fail \in Int :
        /\ fail >= 0
        /\ config' = Op(World(fail)).c /\ msx' = Op(World(fail)).m /\ ui' = Op(World(fail)).ui
        /\ IF fail = 0 THEN refused' = refused ELSE refused' # "never"
        /\ user' = user /\ saved' = saved /\ dialog' = dialog
  BY <1>5, <1>6
<1> HIDE DEF Edits
<1>2. refused' = "never" => Becomes(v)
  BY <1>1 DEF Becomes
<1>3. ASSUME refused = "never" PROVE Told(w, v)
  <2>1. Good(w) /\ SetupOk(w) /\ w.ui = ui /\ w.c = config /\ ~(Excluding \subseteq kit) /\ DialogOk
    BY <1>3, WorldGood
  <2> HIDE DEF w
  <2> QED BY <2>1, BeginSetupTold DEF KitDevice, v, Op
<1>4. DialogOk'
  BY <1>1, DialogKeeps, WorldGood DEF DialogOk
<1> HIDE DEF v, w
<1> QED BY <1>1, <1>2, <1>3, <1>4, Concluded DEF Becomes, w

LEMMA FinishKeeps ==
    ASSUME Apart, SettingsInv, Finish
    PROVE  SettingsInv'
<1> DEFINE w == World(0)
           Op(u) == FinishSetup(Called(u))
           v == Op(w)
<1>1. PICK fail \in Int :
        /\ fail >= 0
        /\ config' = Op(World(fail)).c /\ msx' = Op(World(fail)).m /\ ui' = Op(World(fail)).ui
        /\ IF fail = 0 THEN refused' = refused ELSE refused' # "never"
        /\ user' = user /\ saved' = saved /\ dialog' = dialog
        /\ ui.state = "setup"
  BY DEF Finish, Edit, Do, DoAs
<1> HIDE DEF Op
<1>2. refused' = "never" => Becomes(v)
  BY <1>1 DEF Becomes
<1>3. ASSUME refused = "never" PROVE Told(w, v)
  <2>1. Good(w) /\ SetupOk(w) /\ w.ui = ui /\ w.c = config /\ ~(Excluding \subseteq kit) /\ DialogOk
    BY <1>3, WorldGood
  <2> HIDE DEF w
  <2> DEFINE x == Called(w)
  <2>2. Moves(w, x)
    BY <2>1, CalledMoves
  <2> HIDE DEF x
  <2>3. Good(x) /\ SetupOk(x) /\ x.ui.state = "setup"
    BY <1>1, <2>1, <2>2 DEF Moves, SetupOk
  <2>4. Told(x, FinishSetup(x))
    BY <2>1, <2>3, FinishSetupTold
  <2> QED BY <2>2, <2>4, MovesThenTold DEF v, Op, x
<1>4. DialogOk'
  BY <1>1, DialogKeeps, WorldGood DEF DialogOk
<1> HIDE DEF v, w
<1> QED BY <1>1, <1>2, <1>3, <1>4, Concluded DEF Becomes, w

LEMMA AskKeeps ==
    ASSUME Apart, SettingsInv, Ask
    PROVE  SettingsInv'
<1> DEFINE w == World(0)
           Op(u) == Ui(u, "confirm")
           v == Op(w)
<1>1. PICK fail \in Int :
        /\ fail >= 0
        /\ config' = Op(World(fail)).c /\ msx' = Op(World(fail)).m /\ ui' = Op(World(fail)).ui
        /\ IF fail = 0 THEN refused' = refused ELSE refused' # "never"
        /\ user' = user /\ saved' = saved /\ dialog' = dialog
  BY DEF Ask, Do, DoAs
<1> HIDE DEF Op
<1>2. refused' = "never" => Becomes(v)
  BY <1>1 DEF Becomes
<1>3. ASSUME refused = "never" PROVE Told(w, v)
  <2>1. Good(w) /\ SetupOk(w) /\ w.ui = ui /\ w.c = config /\ ~(Excluding \subseteq kit) /\ DialogOk
    BY <1>3, WorldGood
  <2> HIDE DEF w
  <2>2. v = [w EXCEPT !.ui.state = "confirm"]
    BY DEF v, Op, Ui
  <2> HIDE DEF v
  <2> QED BY <2>1, <2>2 DEF Told, SetupOk, Good, GoodUi
<1>4. DialogOk'
  BY <1>1, DialogKeeps, WorldGood DEF DialogOk
<1> HIDE DEF v, w
<1> QED BY <1>1, <1>2, <1>3, <1>4, Concluded DEF Becomes, w

LEMMA LeaveSetupKeeps ==
    ASSUME Apart, SettingsInv, LeaveSetup
    PROVE  SettingsInv'
<1> DEFINE w == World(0)
           Op(u) == CancelSetup(u)
           v == Op(w)
<1>1. PICK fail \in Int :
        /\ fail >= 0
        /\ config' = Op(World(fail)).c /\ msx' = Op(World(fail)).m /\ ui' = Op(World(fail)).ui
        /\ IF fail = 0 THEN refused' = refused ELSE refused' # "never"
        /\ user' = user /\ saved' = saved /\ dialog' = dialog
  BY DEF LeaveSetup, Do, DoAs
<1> HIDE DEF Op
<1>2. refused' = "never" => Becomes(v)
  BY <1>1 DEF Becomes
<1>3. ASSUME refused = "never" PROVE Told(w, v)
  <2>1. Good(w) /\ SetupOk(w) /\ w.ui = ui /\ w.c = config /\ ~(Excluding \subseteq kit) /\ DialogOk
    BY <1>3, WorldGood
  <2> HIDE DEF w
  <2> QED BY <2>1, MenuTold DEF v, Op
<1>4. DialogOk'
  BY <1>1, DialogKeeps, WorldGood DEF DialogOk
<1> HIDE DEF v, w
<1> QED BY <1>1, <1>2, <1>3, <1>4, Concluded DEF Becomes, w

LEMMA ClearImageKeeps ==
    ASSUME Apart, SettingsInv, NEW b, ClearImage(b)
    PROVE  SettingsInv'
<1> DEFINE w == World(0)
           Op(u) == [u EXCEPT !.ui.pending.image[b] = Empty]
           v == Op(w)
<1>1. PICK fail \in Int :
        /\ fail >= 0
        /\ config' = Op(World(fail)).c /\ msx' = Op(World(fail)).m /\ ui' = Op(World(fail)).ui
        /\ IF fail = 0 THEN refused' = refused ELSE refused' # "never"
        /\ user' = user /\ saved' = saved /\ dialog' = dialog
  BY DEF ClearImage, Do, DoAs
<1> HIDE DEF Op
<1>2. refused' = "never" => Becomes(v)
  BY <1>1 DEF Becomes
<1>3. ASSUME refused = "never" PROVE Told(w, v)
  <2>1. Good(w) /\ SetupOk(w) /\ w.ui = ui /\ w.c = config /\ ~(Excluding \subseteq kit) /\ DialogOk
    BY <1>3, WorldGood
  <2> HIDE DEF w
  <2>2. v = [w EXCEPT !.ui.pending.image[b] = Empty]
    BY DEF v, Op
  <2> HIDE DEF v
  <2> QED BY <2>1, <2>2 DEF Told, SetupOk, Good, GoodUi
<1>4. DialogOk'
  BY <1>1, DialogKeeps, WorldGood DEF DialogOk
<1> HIDE DEF v, w
<1> QED BY <1>1, <1>2, <1>3, <1>4, Concluded DEF Becomes, w

LEMMA OtherPortKeeps ==
    ASSUME Apart, SettingsInv, OtherPort
    PROVE  SettingsInv'
<1> DEFINE w == World(0)
           Op(u) == [u EXCEPT !.ui.pending.d0 = ~@]
           v == Op(w)
<1>1. PICK fail \in Int :
        /\ fail >= 0
        /\ config' = Op(World(fail)).c /\ msx' = Op(World(fail)).m /\ ui' = Op(World(fail)).ui
        /\ IF fail = 0 THEN refused' = refused ELSE refused' # "never"
        /\ user' = user /\ saved' = saved /\ dialog' = dialog
  BY DEF OtherPort, Do, DoAs
<1> HIDE DEF Op
<1>2. refused' = "never" => Becomes(v)
  BY <1>1 DEF Becomes
<1>3. ASSUME refused = "never" PROVE Told(w, v)
  <2>1. Good(w) /\ SetupOk(w) /\ w.ui = ui /\ w.c = config /\ ~(Excluding \subseteq kit) /\ DialogOk
    BY <1>3, WorldGood
  <2> HIDE DEF w
  <2>2. v = [w EXCEPT !.ui.pending.d0 = ~@]
    BY DEF v, Op
  <2> HIDE DEF v
  <2> QED BY <2>1, <2>2 DEF Told, SetupOk, Good, GoodUi
<1>4. DialogOk'
  BY <1>1, DialogKeeps, WorldGood DEF DialogOk
<1> HIDE DEF v, w
<1> QED BY <1>1, <1>2, <1>3, <1>4, Concluded DEF Becomes, w

LEMMA KeepKeeps ==
    ASSUME Apart, SettingsInv, Keep
    PROVE  SettingsInv'
<1> DEFINE w == World(0)
           Op(u) == Closed(ApplyConfig(IF u.ui.state = "setup" THEN CancelSetup(u) ELSE u))
           v == Op(w)
<1>1. PICK fail \in Int :
        /\ fail >= 0
        /\ config' = Op(World(fail)).c /\ msx' = Op(World(fail)).m /\ ui' = Op(World(fail)).ui
        /\ IF fail = 0 THEN refused' = refused ELSE refused' # "never"
        /\ user' = user /\ saved' = saved /\ dialog' = dialog
  BY DEF Keep, Do, DoAs
<1> HIDE DEF Op
<1>2. refused' = "never" => Becomes(v)
  BY <1>1 DEF Becomes
<1>3. ASSUME refused = "never" PROVE Told(w, v)
  <2>1. Good(w) /\ SetupOk(w) /\ w.ui = ui /\ w.c = config /\ ~(Excluding \subseteq kit) /\ DialogOk
    BY <1>3, WorldGood
  <2> HIDE DEF w
  <2> DEFINE x == IF w.ui.state = "setup" THEN CancelSetup(w) ELSE w
  <2>2. Good(x)
    BY <2>1, MenuTold DEF Told
  <2> HIDE DEF x
  <2>3. Good(ApplyConfig(x))
    BY <2>1, <2>2, ApplyConfigSettles DEF Settles
  <2>4. Told(w, Closed(ApplyConfig(x)))
    BY <2>3, MenuTold
  <2> QED BY <2>4 DEF v, Op, x
<1>4. DialogOk'
  BY <1>1, DialogKeeps, WorldGood DEF DialogOk
<1> HIDE DEF v, w
<1> QED BY <1>1, <1>2, <1>3, <1>4, Concluded DEF Becomes, w

LEMMA AbandonKeeps ==
    ASSUME Apart, SettingsInv, Abandon
    PROVE  SettingsInv'
<1> DEFINE w == World(0)
           Op(u) == GiveUp(u)
           v == Op(w)
<1>1. PICK fail \in Int :
        /\ fail >= 0
        /\ config' = Op(World(fail)).c /\ msx' = Op(World(fail)).m /\ ui' = Op(World(fail)).ui
        /\ IF fail = 0 THEN refused' = refused ELSE refused' # "never"
        /\ user' = user /\ saved' = saved /\ dialog' = dialog
        /\ ui.state \in {"menu", "confirm"}
  BY DEF Abandon, DoAs
<1> HIDE DEF Op
<1>2. refused' = "never" => Becomes(v)
  BY <1>1 DEF Becomes
<1>3. ASSUME refused = "never" PROVE Told(w, v)
  <2>1. Good(w) /\ SetupOk(w) /\ w.ui = ui /\ w.c = config /\ ~(Excluding \subseteq kit) /\ DialogOk
    BY <1>3, WorldGood
  <2> HIDE DEF w
  <2> DEFINE x == RestoreSavedConfig(w, saved)
  <2>2. v = IF x.ok THEN Closed(x) ELSE x
    BY DEF v, Op, GiveUp, ClosedIfDone
  <2>3. Good(x) /\ x.ui = w.ui /\ (x.ok = FALSE => x.c = w.c)
    BY <1>3, <2>1, WorldGood, RestoreSavedConfigEnds
  <2> HIDE DEF x, v
  <2>4. Told(w, Closed(x))
    BY <2>3, MenuTold
  <2>5. ASSUME x.ok = FALSE PROVE Told(w, x)
    BY <1>1, <2>1, <2>3, <2>5 DEF Told, SetupOk
  <2> QED BY <2>2, <2>3, <2>4, <2>5 DEF Good
<1>4. DialogOk'
  BY <1>1, DialogKeeps, WorldGood DEF DialogOk
<1> HIDE DEF v, w
<1> QED BY <1>1, <1>2, <1>3, <1>4, Concluded DEF Becomes, w

LEMMA AnswerKeeps ==
    ASSUME Apart, SettingsInv, NEW path, Answer(path)
    PROVE  SettingsInv'
<1> DEFINE w == World(0)
           Op(u) == Answered(u, path)
           v == Op(w)
<1>1. PICK fail \in Int :
        /\ fail >= 0
        /\ config' = Op(World(fail)).c /\ msx' = Op(World(fail)).m /\ ui' = Op(World(fail)).ui
        /\ IF fail = 0 THEN refused' = refused ELSE refused' # "never"
        /\ user' = user /\ saved' = saved /\ dialog' = NoDialog
        /\ dialog # NoDialog
  BY DEF Answer, Do, DoAs
<1> HIDE DEF Op
<1>2. refused' = "never" => Becomes(v)
  BY <1>1 DEF Becomes
<1>3. ASSUME refused = "never" PROVE Told(w, v)
  <2>1. Good(w) /\ SetupOk(w) /\ w.ui = ui /\ w.c = config /\ ~(Excluding \subseteq kit) /\ DialogOk
    BY <1>3, WorldGood
  <2> HIDE DEF w
  <2> QED BY <1>1, <2>1, AnsweredTold DEF v, Op
<1>4. DialogOk'
  BY <1>1, DialogKeeps, WorldGood DEF DialogOk
<1> HIDE DEF v, w
<1> QED BY <1>1, <1>2, <1>3, <1>4, Concluded DEF Becomes, w

\* What the menu opens, and what it asks the host for.
LEMMA OpenKeeps ==
    ASSUME SettingsInv, Open
    PROVE  SettingsInv'
<1>1. /\ user' = user /\ config' = config /\ msx' = msx /\ refused' = refused
      /\ saved' = config /\ dialog' = dialog
      /\ ui' = [ui EXCEPT !.visible = TRUE, !.dirty = FALSE]
  BY DEF Open
<1>2. DialogOk' /\ user' \in Users /\ kit' = kit
  BY <1>1, DialogKeeps DEF SettingsInv, kit
<1>3. ASSUME refused' = "never"
      PROVE  (Good(World(0)) /\ SetupOk(World(0)) /\ GoodConfig(saved) /\ DirtyTellsTruth)'
  <2>1. Good(World(0)) /\ SetupOk(World(0))
    BY <1>1, <1>3 DEF SettingsInv
  <2> DEFINE w == World(0)
             a == [w EXCEPT !.ui.visible = TRUE]
             v == [a EXCEPT !.ui.dirty = FALSE]
  <2>2. v.c = w.c /\ v.m = w.m /\ v.ui = [ui EXCEPT !.visible = TRUE, !.dirty = FALSE]
    BY DEF World
  <2>3. Good(v) /\ SetupOk(v)
    BY <2>1 DEF Good, GoodUi, SetupOk
  <2>4. ui' = v.ui /\ config' = v.c /\ msx' = v.m
    BY <1>1, <2>2 DEF World
  <2>5. Good(World(0))' /\ SetupOk(World(0))'
    <3> HIDE DEF v
    <3>1. Good(World(0))'
      BY <1>2, <2>3, <2>4 DEF Good, GoodConfig, GoodMachine, GoodUi, World
    <3>2. SetupOk(World(0))'
      BY <1>2, <2>3, <2>4 DEF SetupOk, World
    <3> QED BY <3>1, <3>2
  <2>6. GoodConfig(saved)' /\ DirtyTellsTruth'
    BY <1>1, <1>2, <2>1 DEF Good, GoodConfig, World, DirtyTellsTruth
  <2> QED BY <2>5, <2>6
<1> QED BY <1>2, <1>3 DEF SettingsInv

LEMMA AskedKeeps ==
    ASSUME SettingsInv, NEW target, OpenDialog(target), target[1] \in {"rom", "image", "cart"},
           target[1] = "rom" => target[2] \in kit \cap (Drives \cup Controllers)
    PROVE  SettingsInv'
<1>1. /\ user' = user /\ config' = config /\ msx' = msx /\ refused' = refused
      /\ saved' = saved /\ dialog' = target /\ ui' = ui
  BY DEF OpenDialog
<1>2. DialogOk' /\ user' \in Users /\ kit' = kit
  BY <1>1 DEF SettingsInv, DialogOk, kit
<1>3. World(0)' = World(0)
  BY <1>1 DEF World
<1>4. Good(World(0))' <=> Good(World(0))
  BY <1>2, <1>3 DEF Good, GoodConfig, GoodMachine, GoodUi
<1>5. SetupOk(World(0))' <=> SetupOk(World(0))
  BY <1>2, <1>3 DEF SetupOk
<1>6. /\ GoodConfig(saved)' <=> GoodConfig(saved)
      /\ DirtyTellsTruth' <=> DirtyTellsTruth
  BY <1>1, <1>2 DEF GoodConfig, DirtyTellsTruth
<1> QED BY <1>1, <1>2, <1>4, <1>5, <1>6 DEF SettingsInv

LEMMA StutterKeeps ==
    ASSUME SettingsInv, UNCHANGED vars
    PROVE  SettingsInv'
<1>1. /\ user' = user /\ config' = config /\ msx' = msx /\ refused' = refused
      /\ saved' = saved /\ dialog' = dialog /\ ui' = ui
  BY DEF vars
<1>2. DialogOk' /\ user' \in Users /\ kit' = kit
  BY <1>1, DialogKeeps DEF SettingsInv, kit
<1>3. World(0)' = World(0)
  BY <1>1 DEF World
<1>4. Good(World(0))' <=> Good(World(0))
  BY <1>2, <1>3 DEF Good, GoodConfig, GoodMachine, GoodUi
<1>5. SetupOk(World(0))' <=> SetupOk(World(0))
  BY <1>2, <1>3 DEF SetupOk
<1>6. /\ GoodConfig(saved)' <=> GoodConfig(saved)
      /\ DirtyTellsTruth' <=> DirtyTellsTruth
  BY <1>1, <1>2 DEF GoodConfig, DirtyTellsTruth
<1> QED BY <1>1, <1>2, <1>4, <1>5, <1>6 DEF SettingsInv

LEMMA AskForRomKeeps ==
    ASSUME SettingsInv, NEW d \in KitDevice, AskForRom(d)
    PROVE  SettingsInv'
<1>1. OpenDialog(<<"rom", d>>) /\ d \in kit \cap (Drives \cup Controllers)
  BY DEF AskForRom, KitDevice
<1> QED BY <1>1, AskedKeeps

LEMMA AskForImageKeeps ==
    ASSUME SettingsInv, NEW b, AskForImage(b)
    PROVE  SettingsInv'
<1>1. OpenDialog(<<"image", b>>)
  BY DEF AskForImage
<1> QED BY <1>1, AskedKeeps

LEMMA AskForCartKeeps ==
    ASSUME SettingsInv, NEW s, AskForCart(s)
    PROVE  SettingsInv'
<1>1. OpenDialog(<<"cart", s>>)
  BY DEF AskForCart
<1> QED BY <1>1, AskedKeeps

\* The defaults have no device, so nothing on the way to them can fail but by
\* a refusal: without one the overlay closes, and what it began with is what
\* it has now.
LEMMA ResetToDefaultsKeeps ==
    ASSUME Apart, SettingsInv, ResetToDefaults
    PROVE  SettingsInv'
<1> DEFINE w == World(0)
           Back(u) == RestoreSavedConfig(u, Defaults)
           Op(u) == ClosedOrBack(Then(Back(u), Called))
           Resets(fail) ==
               /\ Op(World(fail)).fail = 0
               /\ config' = Op(World(fail)).c /\ msx' = Op(World(fail)).m
               /\ ui' = Op(World(fail)).ui
               /\ refused' = IF fail = 0 THEN refused
                             ELSE IF Op(World(fail)).lost /\ "giving_up" = "edit" THEN "closing"
                             ELSE "giving_up"
               /\ UNCHANGED user
<1>1. dialog' = dialog /\ saved' = (IF ui'.visible THEN saved ELSE config')
  BY DEF ResetToDefaults
<1>2. \E fail \in IF refused = "never" THEN 0 .. user.calls ELSE {0} : Resets(fail)
  BY Zenon DEF ResetToDefaults, DoAs
<1> HIDE DEF Op
<1>3. PICK fail \in Int :
        /\ fail >= 0
        /\ config' = Op(World(fail)).c /\ msx' = Op(World(fail)).m /\ ui' = Op(World(fail)).ui
        /\ IF fail = 0 THEN refused' = refused ELSE refused' # "never"
        /\ user' = user
  BY <1>2
<1> HIDE DEF Resets
<1>4. DialogOk' /\ user' \in Users /\ kit' = kit
  BY <1>1, <1>3, DialogKeeps DEF SettingsInv, kit
<1>5. ASSUME refused' = "never"
      PROVE  (Good(World(0)) /\ SetupOk(World(0)) /\ GoodConfig(saved) /\ DirtyTellsTruth)'
  <2>1. refused = "never" /\ fail = 0
    BY <1>3, <1>5
  <2>2. Good(w) /\ ~(Excluding \subseteq kit)
    BY <2>1, WorldGood
  <2>3. GoodConfig(Defaults) /\ Defaults.on = {}
    BY DEF Defaults, GoodConfig
  <2> HIDE DEF w
  <2>4. Good(Back(w)) /\ Back(w).ok = TRUE
    <3> DEFINE sv == Defaults
    <3> HIDE DEF sv
    <3>1. GoodConfig(sv) /\ sv.on = {}
      BY <2>3 DEF sv
    <3>2. Good(RestoreSavedConfig(w, sv)) /\ RestoreSavedConfig(w, sv).ok = TRUE
      BY <2>2, <3>1, RestoreSavedConfigEnds
    <3> QED BY <3>2 DEF sv
  <2> DEFINE x == Back(w)
             y == Called(x)
             v == Closed(y)
  <2>5. Op(w) = IF Then(x, Called).ok THEN v ELSE Op(w)
    BY <2>4 DEF Op, Then, ClosedOrBack
  <2>6. Then(x, Called) = y
    BY <2>4 DEF Then
  <2> HIDE DEF x, Back
  <2>7. Moves(x, y) /\ y.ok = TRUE
    BY <2>4, CalledMoves DEF x
  <2>8. Op(w) = v
    BY <2>5, <2>6, <2>7
  <2> HIDE DEF y
  <2>9. Good(v) /\ SetupOk(v) /\ v.ui.visible = FALSE
    <3>1. Told(y, v)
      BY <2>7, MenuTold DEF Moves
    <3>2. v.ui.visible = FALSE
      <4>1. Good(Menu(y))
        BY <2>7, MenuTold DEF Moves, Told
      <4> DEFINE m == Menu(y)
      <4> HIDE DEF m
      <4>2. v = [m EXCEPT !.ui.visible = FALSE, !.ui.dirty = FALSE]
        BY DEF Closed, m
      <4> HIDE DEF v
      <4> QED BY <4>1, <4>2 DEF Good, GoodUi, m
    <3> QED BY <3>1, <3>2 DEF Told
  <2> HIDE DEF v
  <2>10. config' = v.c /\ msx' = v.m /\ ui' = v.ui
    BY <1>3, <2>1, <2>8 DEF w
  <2>11. saved' = config'
    BY <1>1, <2>9, <2>10
  <2>12. Good(World(0))'
    BY <1>4, <2>9, <2>10 DEF Good, GoodConfig, GoodMachine, GoodUi, World
  <2>13. SetupOk(World(0))'
    BY <1>4, <2>9, <2>10 DEF SetupOk, World
  <2>14. GoodConfig(saved)' /\ DirtyTellsTruth'
    BY <1>4, <2>9, <2>10, <2>11 DEF Good, GoodConfig, DirtyTellsTruth
  <2> QED BY <2>12, <2>13, <2>14
<1> QED BY <1>4, <1>5 DEF SettingsInv

LEMMA SettingsStep ==
    ASSUME Apart, SettingsInv, [Next]_vars
    PROVE  SettingsInv'
<1>1. CASE Open \/ Keep \/ Ask \/ Abandon
  BY <1>1, OpenKeeps, KeepKeeps, AskKeeps, AbandonKeeps
<1>2. CASE LeaveSetup \/ Finish \/ OtherPort \/ ResetToDefaults
  BY <1>2, LeaveSetupKeeps, FinishKeeps, OtherPortKeeps, ResetToDefaultsKeeps
<1>3. CASE \E d \in KitDevice : Activate(d) \/ Forget(d) \/ AskForRom(d)
  BY <1>3, ActivateKeeps, ForgetKeeps, AskForRomKeeps
<1>4. CASE \E d \in KitDevice \cap Drives : EditSettings(d)
  BY <1>4, EditSettingsKeeps
<1>5. CASE SwitchBank
  BY <1>5, SwitchBankKeeps
<1>6. CASE \E b \in KitBay : ClearImage(b) \/ EjectImage(b) \/ AskForImage(b)
  BY <1>6, ClearImageKeeps, EjectImageKeeps, AskForImageKeeps
<1>7. CASE \E k : SetImageMode(k)
  BY <1>7, SetImageModeKeeps
<1>8. CASE \E s \in Slot : EjectUserCart(s) \/ AskForCart(s)
  BY <1>8, EjectUserCartKeeps, AskForCartKeeps
<1>9. CASE \E x : ChooseMachine(x)
  BY <1>9, ChooseMachineKeeps
<1>10. CASE \E path : Answer(path)
  BY <1>10, AnswerKeeps
<1>11. CASE UNCHANGED vars
  BY <1>11, StutterKeeps
<1> QED BY Zenon, <1>1, <1>2, <1>3, <1>4, <1>5, <1>6, <1>7, <1>8, <1>9, <1>10, <1>11 DEF Next

\* A session that changed anything knows it, while the host refuses nothing:
\* for every user, kit and host, provided that no user has both an MSX-SCSI
\* and a CDX-2 (overlay->dirty).  Those two cannot be in the machine together:
\* loading one is refused while the other is there, whatever the host does.
THEOREM SessionTellsTheTruth ==
    ASSUME Apart
    PROVE  Spec => []DirtyTellsTruth
<1>1. Init => SettingsInv
  BY SettingsStart
<1>2. SettingsInv /\ [Next]_vars => SettingsInv'
  BY SettingsStep
<1>3. SettingsInv => DirtyTellsTruth
  BY DEF SettingsInv, DirtyTellsTruth
<1> QED BY <1>1, <1>2, <1>3, PTL DEF Spec
=============================================================================
