----------------------------- MODULE Progression -----------------------------
(***************************************************************************)
(* parser/positions.rs: total_progression and location_from_progression, in *)
(* the f32 arithmetic the code uses.                                        *)
(*                                                                          *)
(* A reader application keeps the total_progression of the page it is on    *)
(* and asks for the page of that progression when the book is opened again. *)
(* The quotient is rounded to 24 significant bits, so is the product, and   *)
(* the result is truncated: the page found need not be the page left.       *)
(*                                                                          *)
(* Integers stay below 2^31 for up to MaxPages = 127 pages.                 *)
(***************************************************************************)
EXTENDS Integers

CONSTANT MaxPages

ASSUME MaxPagesAssumption == MaxPages \in 1..127

VARIABLES
    pages, \* number of positions of the open book
    page   \* 0-based index of the page shown

vars == <<pages, page>>

-----------------------------------------------------------------------------
\* num / 2^drop rounded to an integer, ties to even.
RoundShift(num, drop) ==
    IF drop = 0 THEN num
    ELSE LET q == num \div 2^drop
             r == num % 2^drop
             half == 2^(drop - 1)
         IN IF r > half \/ (r = half /\ q % 2 = 1) THEN q + 1 ELSE q

\* i / n rounded to an integer, ties to even.
RoundQuotient(i, n) ==
    LET q == i \div n
        r == i % n
    IN IF 2 * r > n \/ (2 * r = n /\ q % 2 = 1) THEN q + 1 ELSE q

\* The f32 nearest to i / n, 0 < i < n, as [m, e] for m / 2^e with m of 24
\* bits.
Quotient(i, n) ==
    LET e == CHOOSE x \in 24..30 : i * 2^(x - 24) < n /\ i * 2^(x - 23) >= n
        \* nine bits of the quotient first, then fifteen from the remainder
        scaled == i * 2^(e - 15)
        high == scaled \div n
        rest == scaled % n
        low == RoundQuotient(rest * 2^15, n)
    IN [m |-> high * 2^15 + low, e |-> e]

\* In error: the global position itself, from 1.
OneBasedProgression(i, n) ==
    IF i + 1 = n THEN [m |-> 2^23, e |-> 23] ELSE Quotient(i + 1, n)
\* (global_position - 1) as f32 / total_page_count as f32, on page index i.
TotalProgression(i, n) == IF i = 0 THEN [m |-> 0, e |-> 0] ELSE Quotient(i, n)

\* (progression.clamp(0.0, 1.0) * n as f32) as usize, at most n - 1.  The product
\* of a 24-bit and a 7-bit number is rounded back to 24 bits.
LocationFromProgression(f, n) ==
    LET product == f.m * n
        drop == CHOOSE d \in 0..7 : product \div 2^d < 2^24
                                    /\ \A c \in 0..(d - 1) : product \div 2^c >= 2^24
        idx == RoundShift(product, drop) \div 2^(f.e - drop)
    IN IF f.m = 0 THEN 0 ELSE IF idx < n THEN idx ELSE n - 1

Init ==
    /\ pages \in 1..MaxPages
    /\ page = 0

TurnTo(p) ==
    /\ page' = p
    /\ UNCHANGED pages

\* Closing the book on page i and opening it again.
Reopen ==
    /\ page' = LocationFromProgression(TotalProgression(page, pages), pages)
    /\ UNCHANGED pages

Next == (\E p \in 0..(pages - 1) : TurnTo(p)) \/ Reopen

Spec == Init /\ [][Next]_vars

-----------------------------------------------------------------------------
\* Opening the book again never moves the reader forward, and moves one page
\* back at most; the page shown always exists.
ReopenNearby ==
    [][Reopen => page' \in {page - 1, page} /\ page' \in 0..(pages - 1)]_vars
=============================================================================
