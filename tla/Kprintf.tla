------------------------------ MODULE Kprintf ------------------------------
(***************************************************************************)
(* kprintf: a turn of its loop over the format is one step.  An int has    *)
(* IntBits bits and a long long twice as many; an argument lies in slots   *)
(* of one int, the low half of a long long first.  What the caller means   *)
(* is a sequence of items, each with its directive and its argument.       *)
(***************************************************************************)
EXTENDS Integers, SequencesExt

CONSTANTS IntBits,     \* 32 in the code
          Items,       \* the items a caller may print
          MaxItems

VARIABLES items,       \* what the caller means
          fmt, args,   \* what is left of the format and of the arguments
          out,         \* the characters put so far
          count
vars == <<items, fmt, args, out, count>>

IntSize == 2^IntBits
LongSize == IntSize * IntSize
Signed(n, size) == IF n < size \div 2 THEN n ELSE n - size
Digits == <<"0", "1", "2", "3", "4", "5", "6", "7", "8", "9", "A", "B", "C", "D", "E", "F">>

\* The slots of an item's argument.
Slots(it) == CASE it.dir \in {"lld", "llu", "llx"} -> <<it.arg % IntSize,
                                    (it.arg % LongSize) \div IntSize>>
               [] it.dir \in {"d", "ld", "u", "x"} -> <<it.arg % IntSize>>
               [] it.dir \in {"c", "s"} -> <<it.arg>>
               [] OTHER -> <<>>

Init == /\ items \in UNION {[1..n -> Items] : n \in 1..MaxItems}
        /\ fmt = FlattenSeq([i \in 1..Len(items) |-> items[i].text])
        /\ args = FlattenSeq([i \in 1..Len(items) |-> Slots(items[i])])
        /\ out = <<>> /\ count = 0

----------------------------------------------------------------------------
\* Faulty: zero has no digits.
print_unsigned_empty(n, base) ==
    LET buf[m \in Nat] == IF m = 0 THEN <<>>
                          ELSE Append(buf[m \div base], Digits[(m % base) + 1])
    IN  buf[n]

print_unsigned(n, base) ==
    LET buf[m \in Nat] == IF m = 0 THEN <<>>
                          ELSE Append(buf[m \div base], Digits[(m % base) + 1])
    IN  IF n = 0 THEN <<"0">> ELSE buf[n]

\* The negation of the smallest number is itself, read as unsigned.
print_signed(n) == IF n < 0 THEN <<"-">> \o print_unsigned((-n) % LongSize, 10)
                   ELSE print_unsigned(n, 10)

LongFlag(f) == f[2] = "l" /\ f[3] = "l"

UnknownCount(lcheck) == IF lcheck THEN 3 ELSE 2

\* What a directive puts, how much it adds to count, and the slots it takes.
Directive(c, lcheck, lflag) ==
    LET n == IF lflag THEN args[1] + args[2] * IntSize ELSE args[1]
        size == IF lflag THEN LongSize ELSE IntSize
        slots == IF lflag THEN 2 ELSE 1
        Done(s, k, taken) == [s |-> s, k |-> k, taken |-> taken]
        All(s, taken) == Done(s, Len(s), taken)
    IN  CASE c = "d" -> All(print_signed(Signed(n, size)), slots)
          [] c = "u" -> All(print_unsigned(n, 10), slots)
          [] c = "x" -> All(<<"0", "x">> \o print_unsigned(n, 16), slots)
          [] c = "c" -> Done(<<args[1]>>, 1, 1)
          [] c = "s" -> All(args[1], 1)
          [] c = "%" -> Done(<<"%">>, 1, 0)
          [] OTHER -> Done(<<"%">> \o (IF lcheck THEN <<"l">> ELSE <<>>) \o <<c>>,
                           UnknownCount(lcheck), 0)

\* A turn of the loop.
kprintf ==
    /\ fmt # <<>>
    /\ IF fmt[1] # "%"
       THEN /\ out' = Append(out, fmt[1]) /\ count' = count + 1
            /\ fmt' = Tail(fmt) /\ UNCHANGED args
       ELSE LET at == IF fmt[2] # "l" THEN 2 ELSE IF LongFlag(fmt) THEN 4 ELSE 3
                d == Directive(fmt[at], fmt[2] = "l", LongFlag(fmt))
            IN  /\ out' = out \o d.s /\ count' = count + d.k
                /\ args' = SubSeq(args, d.taken + 1, Len(args))
                /\ fmt' = SubSeq(fmt, at + 1, Len(fmt))
    /\ UNCHANGED items

Returned == fmt = <<>> /\ UNCHANGED vars

Next == kprintf \/ Returned

Spec == Init /\ [][Next]_vars

----------------------------------------------------------------------------
\* The numeral of n in a base: the digits whose weighted sum is n, none wasted.
Weighted(s, base) == LET v[i \in 0..Len(s)] == IF i = 0 THEN 0 ELSE v[i - 1] * base + s[i]
                     IN  v[Len(s)]
Numeral == [n \in 0..LongSize - 1, base \in {10, 16} |->
    LET s == CHOOSE s \in UNION {[1..k -> 0..base - 1] : k \in 1..3} :
               Weighted(s, base) = n /\ (Len(s) > 1 => s[1] # 0)
    IN  [i \in 1..Len(s) |-> Digits[s[i] + 1]]]

Meant(it) == CASE it.dir \in {"d", "ld", "lld"} ->
                    IF it.arg < 0 THEN <<"-">> \o Numeral[-it.arg, 10] ELSE Numeral[it.arg, 10]
               [] it.dir \in {"u", "llu"} -> Numeral[it.arg, 10]
               [] it.dir \in {"x", "llx"} -> <<"0", "x">> \o Numeral[it.arg, 16]
               [] it.dir = "c" -> <<it.arg>>
               [] it.dir = "s" -> it.arg
               [] it.dir = "%" -> <<"%">>
               [] OTHER -> it.text

\* kprintf puts what the caller means: every item in order, numbers as numerals of
\* their value (the smallest and zero too), each from its own argument; and it
\* returns the number of characters it has put.
PrintsMeant ==
    /\ fmt = <<>> => /\ out = FlattenSeq([i \in 1..Len(items) |-> Meant(items[i])])
                     /\ args = <<>>
    /\ count = Len(out)
=============================================================================
