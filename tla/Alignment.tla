------------------------------ MODULE Alignment ------------------------------
(***************************************************************************)
(* Rounding to whole sectors, blocks and MiB, the arithmetic under every   *)
(* write of the program.  round_up() of libbuf/src/writer.rs masks with    *)
(* !(align - 1), which is this for the powers of two it is called with.    *)
(***************************************************************************)
EXTENDS Integers

Aligned(n, align)   == n % align = 0
RoundDown(n, align) == (n \div align) * align
RoundUp(n, align)   == RoundDown(n + align - 1, align)
=============================================================================
