------------------------------ MODULE LogNumbers ------------------------------
(***************************************************************************)
(* How ws_log_core (src/src/log/ws_log.c) writes numbers.  A conversion is *)
(* a width: its bits and the decimal places of its largest unsigned value, *)
(* 32 and 10 for %d and %u, 64 and 20 for %lld and %llu.  Characters are   *)
(* their codes.                                                            *)
(***************************************************************************)
EXTENDS Integers, SequencesExt

CONSTANT Widths     \* the widths: records of bits and places

ASSUME WidthsAssumption ==
    \A w \in Widths : /\ w.bits \in Nat \ {0} /\ w.places \in Nat \ {0}
                      /\ 10^(w.places - 1) < 2^w.bits /\ 2^w.bits <= 10^w.places

Half(w) == 2^(w.bits - 1)
SignedOf(w) == -Half(w) .. Half(w) - 1
UnsignedOf(w) == 0 .. 2 * Half(w) - 1

\* An unsigned value kept in a signed variable.
AsSigned(w, n) == IF n < Half(w) THEN n ELSE n - 2 * Half(w)

\* The digits, with leading zeros; the remainders of a negative number are negative.
Convert(w, n) ==
    [i \in 1 .. w.places |-> IF n < 0 THEN -((-n \div 10^(w.places - i)) % 10)
                                      ELSE (n \div 10^(w.places - i)) % 10]

\* A skipping of zeros that leaves nothing of 0.
LeadingZerosAll(w, c) ==
    CHOOSE j \in 0 .. w.places : /\ \A k \in 1 .. j : c[k] = 0
                                 /\ j = w.places \/ c[j + 1] # 0

\* The zeros that are skipped; the last place is always written.
LeadingZeros(w, c) ==
    CHOOSE j \in 0 .. w.places - 1 : /\ \A k \in 1 .. j : c[k] = 0
                                     /\ j = w.places - 1 \/ c[j + 1] # 0

Text(w, n) ==
    LET c == Convert(w, n)
        z == LeadingZeros(w, c)
    IN [k \in 1 .. w.places - z |-> c[z + k] + 48]

\* %d: the least number is its own negation.
FormatD(w, n) == IF n < 0 THEN <<45>> \o Text(w, AsSigned(w, -n)) ELSE Text(w, n)

FormatLld(w, n) == FormatD(w, n)

FormatU(w, n) == Text(w, n)

\* %llu: the value goes through a signed variable.
FormatLlu(w, n) == Text(w, AsSigned(w, n))

--------------------------------------------------------------------------------
(* The reference.                                                          *)

ReadBack(s) == FoldLeft(LAMBDA value, ch : 10 * value + (ch - 48), 0, s)

IsDecimal(s) ==
    /\ s # <<>> /\ \A k \in DOMAIN s : s[k] \in 48 .. 57
    /\ s[1] = 48 => Len(s) = 1

\* A number is logged as its shortest decimal, and a reader gets it back
\* (ws_log.c:648-665): every signed number but the least, every unsigned %u, and
\* every unsigned %llu below half the range, above which its characters are not
\* digits (ws_log.c:708-722).
ReadsBack ==
    \A w \in Widths :
        /\ \A n \in SignedOf(w) \ {-Half(w)} : \A text \in {FormatD(w, n), FormatLld(w, n)} :
              LET digits == IF n < 0 THEN Tail(text) ELSE text
              IN /\ n < 0 => text[1] = 45
                 /\ IsDecimal(digits)
                 /\ ReadBack(digits) = IF n < 0 THEN -n ELSE n
        /\ \A n \in UnsignedOf(w) : IsDecimal(FormatU(w, n)) /\ ReadBack(FormatU(w, n)) = n
        /\ \A n \in UnsignedOf(w) :
              IF n < Half(w) THEN IsDecimal(FormatLlu(w, n)) /\ ReadBack(FormatLlu(w, n)) = n
              ELSE ~IsDecimal(FormatLlu(w, n))

================================================================================
