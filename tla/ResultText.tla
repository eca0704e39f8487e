----------------------------- MODULE ResultText -----------------------------
(***************************************************************************)
(* ps_engine.cpp: how the text of pse_reload_module and                    *)
(* pse_get_module_info is put into the result message.  A text is a        *)
(* sequence of characters, which are model numbers.                        *)
(***************************************************************************)
EXTENDS MetaCache

CONSTANTS
    ShortBits,  \* width of short
    Blank       \* the character 0x20

ToShort(n) == LET half == 2 ^ (ShortBits - 1) IN ((n + half) % (2 * half)) - half

\* strncpy_s (external): refused, with nothing copied, unless the text and the
\* 0 behind it fit.  As an unsigned number a negative length fits nowhere.
strncpy_s(p, buflen, text, len) ==
    IF len \in 0 .. buflen - 1
    THEN [k \in p .. p + len |-> IF k = p + len THEN 0 ELSE text[k - p + 1]]
    ELSE <<>>

\* The cells return_result_text writes.  A CHAR takes the whole text, over the
\* blanks it is filled with, a VARCHAR gets the length as a short in front.
ReturnText(field_idx, meta, text, blanked) ==
    LET m      == meta.out_meta
        p      == getOffset(m, field_idx)
        buflen == getLength(m, field_idx)
        len    == ToShort(Len(text))
        blanks == [k \in p .. p + buflen - 1 |-> Blank]
        copied  == [k \in p .. p + Len(text) - 1 |-> text[k - p + 1]]
    IN  CASE getType(m, field_idx) = "text" ->
                IF blanked = "before" THEN Over(copied, blanks) ELSE Over(blanks, copied)
          [] getType(m, field_idx) = "varying" ->
                Over(strncpy_s(p + 1, buflen, text, len), OneCell(p, len))
          [] OTHER -> OneCell(getNullOffset(m, field_idx), 1)

\* Mutant: the blanks are written behind the text, over it.
ReturnTextBlanked(field_idx, meta, text) == ReturnText(field_idx, meta, text, "after")

return_result_text(field_idx, meta, text) == ReturnText(field_idx, meta, text, "before")

\* Division and remainder of C.
Quot(a, b) == IF a >= 0 THEN a \div b ELSE -((-a) \div b)
Rem(a, b) == a - b * Quot(a, b)

\* print_human_time_elapsed: the numbers printed, by unit.
print_human_time_elapsed(msAgo) ==
    LET seconds == Quot(msAgo, 1000)
        d == Quot(seconds, 86400)
        h == Quot(Rem(seconds, 86400), 3600)
        m == Quot(Rem(seconds, 3600), 60)
        s == Rem(seconds, 60)
    IN  IF d > 0 THEN [d |-> d, h |-> h, m |-> m, s |-> s]
        ELSE IF h > 0 THEN [h |-> h, m |-> m, s |-> s]
        ELSE IF m > 0 THEN [m |-> m, s |-> s]
        ELSE [s |-> s]
=============================================================================
