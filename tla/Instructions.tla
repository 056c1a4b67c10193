---------------------------- MODULE Instructions ----------------------------
(***************************************************************************)
(* What the processor and its simulator have in common: words, commands    *)
(* as the fields the decoders look at, the condition codes and the bytes   *)
(* the I/O ports deliver.                                                  *)
(***************************************************************************)
EXTENDS Integers, Sequences, FiniteSets

CONSTANTS W,              \* bits of a word (16)
          N,              \* number of processing units (4)
          LoReg, HiReg,   \* registers of each PU (R0-R7), shared ones (R8-R15)
          CacheSize,      \* words of the data cache (16384)
          IpRange,        \* commands main memory has room for (2^21)
          Ports,          \* I/O ports in use
          PortRoom,       \* bytes each port takes before it is full
          And(_, _), Or(_, _), Xor(_, _),   \* operations on the bits of words and
          Darker(_), Lighter(_, _),         \* on the channels of colours, and what
          LighterWrapped(_, _)              \* the simulator does for Lighter

PU == 0 .. N - 1                 \* PU 0 is the main one
Reg == LoReg \cup HiReg
WordRange == 2^W
Word == 0 .. WordRange - 1
TopBit(x) == (x \div 2^(W - 1)) % 2
Not(x) == WordRange - 1 - x

ASSUME InstructionsAssumption ==
  /\ W \in Nat \ {0} /\ N \in Nat \ {0} /\ CacheSize \in Nat \ {0}
  /\ CacheSize % N = 0 /\ WordRange % CacheSize = 0
  /\ IpRange \in Nat \ {0} /\ 2 * IpRange <= WordRange * WordRange
  /\ LoReg \subseteq Nat /\ HiReg \subseteq Nat /\ LoReg \cap HiReg = {}
  /\ 0 \in LoReg
  /\ Ports \subseteq Nat /\ PortRoom \in [Ports -> Nat]

\* Powers of two, for which the provers have no rule.
ASSUME PowersAssumption == \A n \in 0 .. W - 1 : 2^n \in Nat \ {0} /\ 2^(n + 1) = 2 * 2^n

\* The pipeline passes on what these make of words; that they make words is all it
\* needs to know of them.
ASSUME OperationsAssumption ==
  \A x, y \in Word : /\ And(x, y) \in Word /\ Or(x, y) \in Word /\ Xor(x, y) \in Word
                     /\ Darker(x) \in Word /\ Lighter(x, y) \in Word
                     /\ LighterWrapped(x, y) \in Word

\* The two halves of a pair of words.
Low(v) == v % WordRange
High(v) == (v \div WordRange) % WordRange

\* Numbers of the special registers.
FLAGS == 0
MEM_LO == 1
MEM_HI == 2
RESULT_LO == 5
RESULT_HI == 6

(***************************************************************************)
(* A command.  mode is bits 21:20 of it; spec is bits 13:12 of a MOV; all  *)
(* is bit 7 of a cache operand, inv bit 15 or 7 of an inverted one; t, f   *)
(* and bs say that the a, the r or the b field names a special register.   *)
(* c is the constant or the distance of a jump, off the offset of a cache  *)
(* operand; set is bit 22: the S suffix, or the direction of a transfer;   *)
(* link makes a jump a call, rel makes it relative.                        *)
(***************************************************************************)
NOP == [op |-> "NOP", cond |-> 0, set |-> FALSE, mode |-> "store",
        a |-> 0, b |-> 0, r |-> 0, c |-> 0, off |-> 0, all |-> FALSE, inv |-> FALSE,
        spec |-> "reg", t |-> FALSE, f |-> FALSE, bs |-> FALSE,
        link |-> FALSE, rel |-> FALSE]

Jumps == {"JUMP", "DJUMP"}
Multiplications == {"MUL", "SMUL", "WMUL"}
Slow == Multiplications \cup {"SHL", "SHR"}      \* the result is a special register
Sums == {"ADD", "RSB", "SUB", "CMP", "ADC", "RSC", "SBC"}          \* 11xxx
CarryIn == {"ADC", "RSC", "SBC"}
Arithmetic ==                                                      \* 1xxxx
  Sums \cup {"OR", "XOR", "AND", "TST", "MOV", "RGBADD", "RGBSHR"}
Tests == {"TST", "CMP"}                                            \* xx011
HasOperand == Arithmetic \cup Slow \cup {"RW"}                     \* x1xxx, 1xxxx
IsIn(cmd) == cmd.op = "MOV" /\ cmd.spec = "in"
IsOut(cmd) == cmd.op = "MOV" /\ cmd.spec = "out"

(***************************************************************************)
(* Flags, and the word IN_FLAGS reads them as (no transfer, no button).    *)
(***************************************************************************)
Flags == [N : BOOLEAN, Z : BOOLEAN, V : BOOLEAN, C : BOOLEAN]
FlagsWord(fl, p) == (  p + (IF fl.N THEN 16 ELSE 0) + (IF fl.Z THEN 32 ELSE 0)
                     + (IF fl.V THEN 64 ELSE 0) + (IF fl.C THEN 128 ELSE 0))
                    % WordRange

\* The byte a port delivers when k were taken from it; no port ever runs dry.
PortByte(port, k) == (16 * port + k) % WordRange
=============================================================================
