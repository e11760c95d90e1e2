------------------------------- MODULE MemOps -------------------------------
(***************************************************************************)
(* kmemcpy, kmemset and kwmemset: a string instruction that moves or       *)
(* stores four bytes at a time, then one for the bytes (or the 16-bit      *)
(* word) that remain.  One repetition is one step.                         *)
(***************************************************************************)
EXTENDS Integers

CONSTANTS Size,        \* bytes of memory
          MaxCount     \* bound on count

Addr == 0..Size - 1
Low == -1              \* the low and the high byte of a value that is stored
High == -2

VARIABLES mem,         \* the bytes
          op,          \* the call: function, dest, src and count
          width,       \* bytes per repetition of the instruction in progress
          edi, esi, ecx
vars == <<mem, op, width, edi, esi, ecx>>

Before == [a \in Addr |-> a]       \* every byte is told apart
Unit(f) == IF f = "kwmemset" THEN 2 ELSE 1
Length(o) == Unit(o.f) * o.count

\* The calls that stay in memory; a copy must not run into its own source.
Calls == {o \in [f : {"kmemcpy", "kmemset", "kwmemset"}, dest : Addr, src : Addr,
                 count : 0..MaxCount] :
            /\ o.dest + Length(o) <= Size /\ o.src + Length(o) <= Size
            /\ o.f # "kmemcpy" => o.src = 0
            /\ o.f = "kmemcpy" => o.dest <= o.src \/ o.src + o.count <= o.dest}

\* Repetitions of the first instruction: count / 4, or count / 2 words.
Init == /\ mem = Before /\ op \in Calls
        /\ width = 4 /\ edi = op.dest /\ esi = op.src
        /\ ecx = Length(op) \div 4

\* What one repetition of width w stores at offset i.
Value(i) == CASE op.f = "kmemcpy" -> mem[esi + i]
              [] op.f = "kmemset" -> Low
              [] op.f = "kwmemset" -> IF i % 2 = 0 THEN Low ELSE High

rep == /\ ecx > 0
       /\ mem' = [a \in Addr |-> IF a \in edi..edi + width - 1 THEN Value(a - edi) ELSE mem[a]]
       /\ edi' = edi + width /\ esi' = esi + width /\ ecx' = ecx - 1
       /\ UNCHANGED <<op, width>>

\* Faulty: the remainder of a word count is taken for bytes.
Remainder_bytes == [width |-> 1, n |-> op.count % (4 \div Unit(op.f))]

\* The second instruction: bytes, or words for kwmemset.
Remainder == [width |-> Unit(op.f), n |-> op.count % (4 \div Unit(op.f))]

rest == /\ ecx = 0 /\ width = 4
        /\ width' = Remainder.width /\ ecx' = Remainder.n
        /\ UNCHANGED <<mem, op, edi, esi>>

Returned == ecx = 0 /\ width # 4 /\ UNCHANGED vars

Next == rep \/ rest \/ Returned

Spec == Init /\ [][Next]_vars

\* At the return exactly the bytes asked for have changed, whatever the count and
\* the overlap of a copy towards lower addresses, as in vga_scroll.
StoresExactly == (ecx = 0 /\ width # 4) =>
    \A a \in Addr : mem[a] =
        IF a \notin op.dest..op.dest + Length(op) - 1 THEN Before[a]
        ELSE CASE op.f = "kmemcpy" -> Before[a - op.dest + op.src]
               [] op.f = "kmemset" -> Low
               [] op.f = "kwmemset" -> IF (a - op.dest) % 2 = 0 THEN Low ELSE High
=============================================================================
