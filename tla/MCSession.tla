----------------------------- MODULE MCSession -----------------------------
EXTENDS Session

Ctrl == [sort |-> "mod", mod |-> "ctrl"]
Bang == [sort |-> "char", char |-> 33]
S    == [sort |-> "char", char |-> 115]

\* A doubled letter, shifted characters with and without a change of key, one
\* that cannot be typed after one that can, a chord with a shifted character,
\* every kind of mouse action, a scroll by nothing, and a pixel outside of the
\* screen.
Actions ==
  {[kind |-> "type", text |-> <<97, 97>>], [kind |-> "type", text |-> <<65, 33>>],
   [kind |-> "type", text |-> <<97, 172>>], [kind |-> "key", keys |-> <<Ctrl, Bang>>],
   [kind |-> "scroll", x |-> 1, amount |-> 0],
   [kind |-> "double_click", x |-> 1], [kind |-> "click", x |-> 5],
   [kind |-> "drag", x |-> 4, to |-> 2],
   [kind |-> "scroll", x |-> 0, amount |-> -3], [kind |-> "done"]}

\* E with an acute accent, which is an upper case letter and on no US layout.
AccentedActions == {[kind |-> "type", text |-> <<201>>], [kind |-> "done"]}

None == -1
StepOf(kind, x, text) ==
  [kind |-> kind, hotkey |-> << >>, located |-> TRUE, x |-> x, to |-> None,
   keys |-> << >>, text |-> text]

\* A click with recorded coordinates, the placeholder, and a hot key.
Procedure ==
  <<StepOf("right_click", 2, << >>), StepOf("type", None, Placeholder),
    [StepOf("key", None, << >>) EXCEPT !.hotkey = <<Ctrl, S>>]>>

\* A text, and none, which no type action may have.
Texts == {<<98>>, << >>}
Spots == {3, 5}
ThreeScreens == 0..2
=============================================================================
