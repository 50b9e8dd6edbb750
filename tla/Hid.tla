-------------------------------- MODULE Hid --------------------------------
(***************************************************************************)
(* executor_ch9329.py: an action as the sequence of HID reports that are   *)
(* written to the CH9329, and what the machine at the other end of the     *)
(* cable makes of a report.  A keyboard report names every key that is     *)
(* down, so a key is pressed when a report names it and the one before did *)
(* not; mouse buttons likewise.  A cable that fails keeps the last report. *)
(*                                                                         *)
(* A character is its code point up to 255, a key its usage id.  The two   *)
(* axes are treated alike, one stands for both.  Framing and checksum are  *)
(* left out.                                                               *)
(***************************************************************************)
EXTENDS Integers, Sequences

CONSTANT Width   \* the configured screen, one axis

ASSUME WidthAssumption == Width \in 1..4096

AbsMax == 4095

\* round(n / d), half to even.
Rounded(n, d) ==
  LET q == n \div d
      twice == 2 * (n % d)
  IN  IF twice > d \/ (twice = d /\ q % 2 = 1) THEN q + 1 ELSE q

Larger(a, b)  == IF a > b THEN a ELSE b
Smaller(a, b) == IF a < b THEN a ELSE b
Clamped(x, low, high) == Smaller(Larger(x, low), high)

Abs(x) == Rounded(Clamped(x, 0, Width - 1) * AbsMax, Larger(Width - 1, 1))

-----------------------------------------------------------------------------
(* Characters and keys.                                                    *)

ShiftedChars == <<33, 64, 35, 36, 37, 94, 38, 42, 40, 41, 95, 43, 123, 125,
                  124, 58, 34, 126, 60, 62, 63>>
Unshifted    == <<49, 50, 51, 52, 53, 54, 55, 56, 57, 48, 45, 61, 91, 93,
                  92, 59, 39, 96, 44, 46, 47>>
PunctChars   == <<45, 61, 91, 93, 92, 59, 39, 96, 44, 46, 47, 32>>
PunctKeys    == <<45, 46, 47, 48, 49, 51, 52, 53, 54, 55, 56, 44>>

In(c, chars) == \E i \in DOMAIN chars : chars[i] = c
Entry(c, chars, values) ==
  values[CHOOSE i \in DOMAIN chars : chars[i] = c]

\* str.isupper and str.lower of one character up to code point 255.
IsUpper(c) == c \in (65..90) \union (192..214) \union (216..222)
Lower(c)   == IF IsUpper(c) THEN c + 32 ELSE c

NoKey == 0

PlainKey(c) ==
  IF c \in 97..122 THEN c - 97 + 4
  ELSE IF c = 48 THEN 39
  ELSE IF c \in 49..57 THEN c - 49 + 30
  ELSE IF In(c, PunctChars) THEN Entry(c, PunctChars, PunctKeys)
  ELSE IF c = 10 THEN 40
  ELSE NoKey

\* _char_to_hid: the modifiers and the key; NoKey where it raises.
CharToHid(c) ==
  IF In(c, ShiftedChars)
  THEN [mods |-> {"shift"}, key |-> PlainKey(Entry(c, ShiftedChars, Unshifted))]
  ELSE IF IsUpper(c) THEN [mods |-> {"shift"}, key |-> Lower(c) - 97 + 4]
  ELSE [mods |-> {}, key |-> PlainKey(c)]

\* _key_to_hid, of a modifier, of a character or of a key by its usage id.
Modifiers == {"ctrl", "shift", "alt", "win"}

KeyToHid(name) ==
  IF name.sort = "mod" THEN [mods |-> {name.mod}, key |-> NoKey]
  ELSE IF name.sort = "named" THEN [mods |-> {}, key |-> name.key]
  ELSE CharToHid(Lower(name.char))

Unknown(name) ==
  \/ name.sort = "unknown"
  \/ name.sort = "char" /\ CharToHid(Lower(name.char)).key = NoKey

-----------------------------------------------------------------------------
(* Actions: what _validate lets through.  An amount may be zero; a text or *)
(* a list of keys may not be empty.  x stands for the point acted on: that *)
(* of the element, once the gatekeeper has put it in, and 0 for a scroll   *)
(* that names none.                                                        *)

Clicking == {"click", "right_click", "double_click"}
Kinds == Clicking \union {"type", "key", "scroll", "drag", "wait", "done", "fail"}

Chars     == 0..255
NamedKeys == (40..44) \union (57..82)
KeyNames  == [sort : {"mod"}, mod : Modifiers] \union [sort : {"named"}, key : NamedKeys]
               \union [sort : {"char"}, char : Chars] \union [sort : {"unknown"}]

WellFormed(a) ==
  /\ "kind" \in DOMAIN a /\ a.kind \in Kinds
  /\ a.kind \in Clicking \union {"scroll", "drag"} => "x" \in DOMAIN a /\ a.x \in Int
  /\ a.kind = "drag" => "to" \in DOMAIN a /\ a.to \in Int
  /\ a.kind = "scroll" => "amount" \in DOMAIN a /\ a.amount \in Int
  /\ a.kind = "type" => "text" \in DOMAIN a /\ a.text \in Seq(Chars) \ {<< >>}
  /\ a.kind = "key" => "keys" \in DOMAIN a /\ a.keys \in Seq(KeyNames) \ {<< >>}

-----------------------------------------------------------------------------
(* Reports, and the reports of an action.                                  *)

KbdReports == [dev : {"kbd"}, mods : SUBSET Modifiers, keys : SUBSET (1..255)]
MouseReports == [dev : {"mouse"}, at : 0..AbsMax, buttons : SUBSET {"left", "right"},
                 wheel : 0..255]

KbdReport(mods, keys) == [dev |-> "kbd", mods |-> mods, keys |-> keys]
MouseReport(at, buttons, wheel) ==
  [dev |-> "mouse", at |-> Clamped(at, 0, AbsMax), buttons |-> buttons,
   wheel |-> wheel % 256]
AllUp == KbdReport({}, {})

Tap(x, button) == <<MouseReport(Abs(x), {button}, 0), MouseReport(Abs(x), {}, 0)>>

\* The characters before the first that _char_to_hid refuses.
Typeable(text) ==
  LET bad == {i \in DOMAIN text : CharToHid(text[i]).key = NoKey} IN
  IF bad = {} THEN text
  ELSE SubSeq(text, 1, (CHOOSE i \in bad : \A j \in bad : i <= j) - 1)

Press(c) == KbdReport(CharToHid(c).mods, {CharToHid(c).key})

\* Mutant: keys are let go once, after the last character.
TypeReportsOneRelease(text) ==
  [i \in 1..Len(text) |-> Press(text[i])] \o <<AllUp>>

\* Mutant: keys are let go between characters only.
TypeReportsBetween(text) ==
  [i \in 1..2 * Len(text) - 1 |->
     IF i % 2 = 1 THEN Press(text[(i + 1) \div 2]) ELSE AllUp]

TypeReports(text) ==
  [i \in 1..2 * Len(text) |->
     IF i % 2 = 1 THEN Press(text[(i + 1) \div 2]) ELSE AllUp]

Chord(names) ==
  LET hids == {KeyToHid(names[i]) : i \in DOMAIN names} IN
  KbdReport(UNION {h.mods : h \in hids}, {h.key : h \in hids} \ {NoKey})

Wheel(amount) == Clamped(amount, -127, 127)

Drag(x, to) ==
  <<MouseReport(Abs(x), {"left"}, 0), MouseReport(Abs(to), {"left"}, 0),
    MouseReport(Abs(to), {}, 0)>>

\* execute: what is written, and whether it raises after that.
Reports(a) ==
  CASE a.kind = "click"        -> Tap(a.x, "left")
    [] a.kind = "right_click"  -> Tap(a.x, "right")
    [] a.kind = "double_click" -> Tap(a.x, "left") \o Tap(a.x, "left")
    [] a.kind = "type"         -> TypeReports(Typeable(a.text))
    [] a.kind = "key" /\ ~ \E i \in DOMAIN a.keys : Unknown(a.keys[i])
                               -> <<Chord(a.keys), AllUp>>
    [] a.kind = "scroll"       -> <<MouseReport(Abs(a.x), {}, Wheel(a.amount))>>
    [] a.kind = "drag"         -> Drag(a.x, a.to)
    [] OTHER                   -> << >>

Raises(a) ==
  \/ a.kind = "type" /\ Typeable(a.text) # a.text
  \/ a.kind = "key" /\ \E i \in DOMAIN a.keys : Unknown(a.keys[i])

-----------------------------------------------------------------------------
(* The target machine: what a report makes happen there, by the US layout  *)
(* of the HID usage tables.  PlainRow and ShiftRow begin at usage id 30.   *)

PlainRow == <<49, 50, 51, 52, 53, 54, 55, 56, 57, 48, 10, 0, 0, 0, 32, 45,
              61, 91, 93, 92, 0, 59, 39, 96, 44, 46, 47>>
ShiftRow == <<33, 64, 35, 36, 37, 94, 38, 42, 40, 41, 10, 0, 0, 0, 32, 95,
              43, 123, 125, 124, 0, 58, 34, 126, 60, 62, 63>>

Produces(shift, key) ==
  IF key \in 4..29 THEN key - 4 + (IF shift THEN 65 ELSE 97)
  ELSE IF key \in 30..56
  THEN IF shift THEN ShiftRow[key - 29] ELSE PlainRow[key - 29]
  ELSE 0

\* A key that is pressed: a character, or a chord.
KeyEvent(mods, key) ==
  LET c == Produces("shift" \in mods, key) IN
  IF mods \subseteq {"shift"} /\ c # 0 THEN [ev |-> "char", char |-> c]
  ELSE [ev |-> "chord", mods |-> mods, key |-> key]

Pixel(at) == (at * Larger(Width - 1, 1) + AbsMax \div 2) \div AbsMax
Signed(byte) == IF byte > 127 THEN byte - 256 ELSE byte

\* What report r makes happen when keys and buttons are down.
Happens(r, keys, buttons) ==
  IF r.dev = "kbd" THEN {KeyEvent(r.mods, k) : k \in r.keys \ keys}
  ELSE    {[ev |-> "down", button |-> b, at |-> Pixel(r.at)] : b \in r.buttons \ buttons}
   \union {[ev |-> "up", button |-> b, at |-> Pixel(r.at)] : b \in buttons \ r.buttons}
   \union (IF r.wheel = 0 THEN {}
           ELSE {[ev |-> "wheel", amount |-> Signed(r.wheel)]})
=============================================================================
