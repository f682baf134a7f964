---------------------------- MODULE CodePattern ----------------------------
(***************************************************************************)
(* The built-in code patterns (internal/templates/code_pattern.go).  A     *)
(* pattern has an initcode and a runtime per deployed address; the runtime *)
(* is planted without running the initcode, and CREATE2 addresses commit   *)
(* to the initcode.  Execute is the part of the EVM the initcodes use.     *)
(***************************************************************************)
EXTENDS Bitwise, Sequences, SequencesExt

CONSTANTS PreAmsterdamMaxCodeSize,   \* preAmsterdamMaxCodeSize
          MaxPatternCodeSize         \* maxPatternCodeSize

STOP     == 0
OR       == \h17
ADDRESS  == \h30
MSTORE   == \h52
MSTORE8  == \h53
JUMP     == \h56
JUMPDEST == \h5B
MCOPY    == \h5E
PUSH0    == \h5F
PUSH1    == \h60
PUSH32   == \h7F
RETURN   == \hF3

WordSize == 32
AddressLength == 20

FixedPatterns == {"unique_jumpdest_pre_amsterdam", "max_same_pre_amsterdam", "max_diff_pre_amsterdam"}
SizedPatterns == {"unique_jumpdest", "max_same", "max_diff"}
IsKnownCodePattern(name) == name \in FixedPatterns \cup SizedPatterns
CodePatternSupportsCodeSize(name) == name \in SizedPatterns

(* a fixed-size pattern is the sized one at the pre-Amsterdam limit        *)
Family(name) ==
    CASE name \in {"unique_jumpdest_pre_amsterdam", "unique_jumpdest"} -> "unique_jumpdest"
      [] name \in {"max_same_pre_amsterdam", "max_same"}               -> "max_same"
      [] name \in {"max_diff_pre_amsterdam", "max_diff"}               -> "max_diff"

codePatternMinCodeSize(name) == IF name = "unique_jumpdest" THEN \h61 ELSE \h20

-----------------------------------------------------------------------------
Fill(n, byte) == [i \in 1..n |-> byte]
Overlay(bytes, off, part) ==
    [i \in DOMAIN bytes |-> IF i - off \in DOMAIN part THEN part[i - off] ELSE bytes[i]]

RECURSIVE BigEndian(_)
BigEndian(v) == IF v = 0 THEN <<>> ELSE Append(BigEndian(v \div 256), v % 256)

pushImmediate(v) ==
    IF v = 0 THEN <<PUSH0>> ELSE <<PUSH1 + Len(BigEndian(v)) - 1>> \o BigEndian(v)

appendEntryJump(codeSize) == Append(pushImmediate(codeSize - 1), JUMP)

(* bits.Len64(codeSize - 1): the number of doublings                       *)
RECURSIVE BitLen(_)
BitLen(v) == IF v = 0 THEN 0 ELSE 1 + BitLen(v \div 2)

Doubling(s) ==
    pushImmediate(2^s) \o <<PUSH1, 0>> \o pushImmediate(2^s) \o <<MCOPY>>
(* a plausible bug: the last doubling that fits, and the tail stays zero   *)
SkipsLastDoubling(codeSize) ==
    <<PUSH32>> \o Fill(WordSize, JUMPDEST) \o <<PUSH1, 0, MSTORE>> \o
    FlattenSeq([i \in 1..(BitLen(codeSize) - 6) |-> Doubling(i + 4)])
appendJumpdestFillSeed(codeSize) ==
    <<PUSH32>> \o Fill(WordSize, JUMPDEST) \o <<PUSH1, 0, MSTORE>> \o
    FlattenSeq([i \in 1..(BitLen(codeSize - 1) - 5) |-> Doubling(i + 4)])
Returns(codeSize) == pushImmediate(codeSize) \o <<PUSH1, 0, RETURN>>

-----------------------------------------------------------------------------
BuildUniqueJumpdestRuntime(addr, codeSize) ==
    Overlay(Overlay(Fill(codeSize, JUMPDEST), 0, appendEntryJump(codeSize)), \h2C, addr)
BuildUniqueJumpdestInitcode(codeSize) ==
    LET entry == appendEntryJump(codeSize)
    IN  appendJumpdestFillSeed(codeSize)
        \o <<PUSH32>> \o entry \o Fill(WordSize - Len(entry), JUMPDEST) \o <<PUSH1, 0, MSTORE>>
        \o <<PUSH32>> \o Fill(12, JUMPDEST) \o Fill(20, 0) \o <<ADDRESS, OR, PUSH1, WordSize, MSTORE>>
        \o Returns(codeSize)

BuildMaxSameRuntime(codeSize) == Overlay(Fill(codeSize, JUMPDEST), 0, <<STOP>>)
BuildMaxSameInitcode(codeSize) ==
    appendJumpdestFillSeed(codeSize) \o <<PUSH1, 0, PUSH1, 0, MSTORE8>> \o Returns(codeSize)

BuildMaxDiffRuntime(addr, codeSize) ==
    Overlay(Fill(codeSize, JUMPDEST), 0, Fill(12, STOP) \o addr)
BuildMaxDiffInitcode(codeSize) ==
    appendJumpdestFillSeed(codeSize) \o <<ADDRESS, PUSH1, 0, MSTORE>> \o Returns(codeSize)

codePatternRuntimeBuilder(family, codeSize, addr) ==
    CASE family = "unique_jumpdest" -> BuildUniqueJumpdestRuntime(addr, codeSize)
      [] family = "max_same"        -> BuildMaxSameRuntime(codeSize)
      [] family = "max_diff"        -> BuildMaxDiffRuntime(addr, codeSize)
codePatternInitcodeFor(family, codeSize) ==
    CASE family = "unique_jumpdest" -> BuildUniqueJumpdestInitcode(codeSize)
      [] family = "max_same"        -> BuildMaxSameInitcode(codeSize)
      [] family = "max_diff"        -> BuildMaxDiffInitcode(codeSize)

-----------------------------------------------------------------------------
(* The EVM: words are sequences of bytes, memory grows with zeros.         *)
Word(bytes) == Fill(WordSize - Len(bytes), 0) \o bytes
Num(word) == FoldLeft(LAMBDA acc, b : acc * 256 + b, 0, word)
Grow(mem, n) == IF Len(mem) >= n THEN mem ELSE mem \o Fill(n - Len(mem), 0)
Store(mem, off, bytes) == Overlay(Grow(mem, off + Len(bytes)), off, bytes)

(* one instruction; the top of the stack is its first element              *)
Step(code, self, s) ==
    LET op   == code[s.pc]
        arg(i) == Num(s.stack[i])
        n    == op - PUSH1 + 1
        push(w, len) == [s EXCEPT !.pc = @ + len, !.stack = <<w>> \o @]
        pop(k) == [s EXCEPT !.pc = @ + 1, !.stack = SubSeq(@, k + 1, Len(@))]
    IN  CASE op = PUSH0          -> push(Word(<<>>), 1)
          [] op \in PUSH1..PUSH32 -> push(Word(SubSeq(code, s.pc + 1, s.pc + n)), n + 1)
          [] op = ADDRESS        -> push(Word(self), 1)
          [] op = OR             -> [pop(2) EXCEPT !.stack =
                                        <<[i \in 1..WordSize |-> s.stack[1][i] | s.stack[2][i]]>> \o @]
          [] op = MSTORE         -> [pop(2) EXCEPT !.mem = Store(@, arg(1), s.stack[2])]
          [] op = MSTORE8        -> [pop(2) EXCEPT !.mem = Store(@, arg(1), <<s.stack[2][WordSize]>>)]
          [] op = MCOPY          -> [pop(3) EXCEPT !.mem =
                                        Store(@, arg(1), SubSeq(Grow(@, arg(2) + arg(3)), arg(2) + 1, arg(2) + arg(3)))]

RECURSIVE Running(_, _, _)
Running(code, self, s) ==
    IF code[s.pc] = RETURN
    THEN LET off == Num(s.stack[1]) len == Num(s.stack[2])
         IN  SubSeq(Grow(s.mem, off + len), off + 1, off + len)
    ELSE Running(code, self, Step(code, self, s))

(* the code a creation with this initcode leaves at address self           *)
Execute(code, self) == Running(code, self, [pc |-> 1, stack |-> <<>>, mem |-> <<>>])
=============================================================================
