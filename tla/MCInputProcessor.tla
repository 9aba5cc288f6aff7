-------------------------- MODULE MCInputProcessor --------------------------
(* Instances of InputProcessor for TLC.                                     *)
EXTENDS InputProcessor

Key(bytes, name) == [bytes |-> bytes, keys |-> <<<<name, 0>>>>]
Char(b) == [bytes |-> <<b>>, keys |-> <<<<"char", b>>>>]
Other(bytes) == [bytes |-> bytes, keys |-> <<>>]

\* Keys that process_input understands; characters that also occur inside
\* sequences; what clients send besides.
Keyboard ==
    {Char(65), Char(126), Key(<<127>>, "backspace"), Key(<<8>>, "delete"),
     Key(<<27, 91, 68>>, "left"), Key(<<27, 91, 66>>, "down"),
     Key(<<27, 91, 49, 126>>, "home"), Key(<<27, 91, 70>>, "end"),
     Key(<<27, 91, 51, 126>>, "delete"),
     Key(<<27, 91, 53, 68>>, "left"),        \* with a modifier
     Other(<<27, 65>>),                      \* a character with Alt
     Other(<<27, 91, 51, 36>>),              \* Delete with Shift, in rxvt
     Other(<<13, 0>>), Other(<<255, 241>>), Other(<<255, 253, 3>>),
     Other(<<255, 250, 31, 255, 241>>)}      \* a subnegotiation broken off

\* 65520 and 61695 have a byte 255 next to a byte 240, which is SE.
Windows == {<<80, 24>>, <<65520, 255>>, <<61695, 31>>}

Ansi == <<97, 110, 115, 105>>
Xterm == <<88, 84, 69, 82, 77>>
LowerVt100 == <<118, 116, 49, 48, 48>>
Vt102 == <<86, 84, 49, 48, 50>>
AnsiBbs == Ansi \o <<45, 98, 98, 115>>

Clients ==
    {<<Xterm>>, <<LowerVt100>>, <<Ansi, Vt102>>, <<Ansi, Xterm, LowerVt100, Vt102>>,
     <<Ansi, AnsiBbs, LowerVt100>>,
     <<AnsiBbs, Ansi, LowerVt100>>}     \* Ansi hides what follows
=============================================================================
