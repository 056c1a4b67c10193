--------------------------- MODULE WordOperations ---------------------------
(***************************************************************************)
(* What PU.sv and the simulator make of the bits and the colour channels   *)
(* of words: the values of the operations Instructions leaves open.        *)
(***************************************************************************)
EXTENDS Instructions, FiniteSetsExt

CONSTANT Channels       \* <<first bit, bits>> of blue, green and red (5, 6, 5 bits)

ASSUME ChannelsAssumption == Channels \subseteq (0 .. W - 1) \X (1 .. W)

BitAnd(x, y) ==
  MapThenSumSet(LAMBDA i : IF (x \div 2^i) % 2 = 1 /\ (y \div 2^i) % 2 = 1
                             THEN 2^i ELSE 0, 0 .. W - 1)
BitOr(x, y) == x + y - BitAnd(x, y)
BitXor(x, y) == x + y - 2 * BitAnd(x, y)

\* A colour: one channel of it, and a word from a value for each channel.
ChannelOf(x, ch) == (x \div 2^ch[1]) % 2^ch[2]
Colour(value) == MapThenSumSet(LAMBDA ch : value[ch] * 2^ch[1], Channels)

Halved(x) == Colour([ch \in Channels |-> ChannelOf(x, ch) \div 2])

\* The sum of two colours: the processor's stops at the brightest, the simulator's
\* runs over.
Least(x, y) == IF x < y THEN x ELSE y
Saturated(x, y) == Colour([ch \in Channels |->
                             Least(ChannelOf(x, ch) + ChannelOf(y, ch), 2^ch[2] - 1)])
Wrapped(x, y) == Colour([ch \in Channels |->
                           (ChannelOf(x, ch) + ChannelOf(y, ch)) % 2^ch[2]])
=============================================================================
