---------------------------- MODULE PrintCallback ----------------------------
(***************************************************************************)
(* The two functions of src/utils.c.  Both are stateless, so a behaviour  *)
(* is one call of either.  print_callback() is the visitor callback that   *)
(* formats one field.  Strings and 1/2/4-byte integers are one write;    *)
(* IPv4 addresses and byte sequences are formatted element by element     *)
(* into the stack buffer aux1[AUX1_SIZE], with a size_t budget space_left *)
(* that starts at AUX1_SIZE minus the prefix, the name and ": ".          *)
(*                                                                         *)
(* Data abstraction: the text is not built; only the lengths that drive    *)
(* the control flow are kept.  strlen(prefix) + strlen(name) is one input  *)
(* (only their sum is used), the bytes of the field are represented by the *)
(* number of characters snprintf() produces for each of them, and size_t   *)
(* arithmetic wraps modulo 2^SIZE_T_BITS.                                  *)
(*                                                                         *)
(* copyLengthString() copies a C string into a length-prefixed field: the  *)
(* string is represented by strlen(src), and the copy by the number of     *)
(* bytes memcpy() writes into dest and the value stored in *length.        *)
(***************************************************************************)
EXTENDS Naturals

CONSTANTS
    AUX1_SIZE,    \* 200 in utils.c
    AUX2_SIZE,    \* 20 in utils.c
    SIZE_T_BITS,  \* width of size_t in the model (wrap-around is what matters)
    Lengths,      \* possible strlen(prefix) + strlen(name)
    Sizes,        \* possible field sizes (uint8_t)
    Formats,      \* fmt strings the visit functions pass
    StrLens,      \* possible strlen(src) of copyLengthString()
    CopySizes     \* possible size arguments of copyLengthString()

UINT8_MAX == 255

SizeMax == 2 ^ SIZE_T_BITS

(* size_t subtraction.                                                     *)
SizeSub(a, b) == (a - b) % SizeMax

(* Characters snprintf(aux2, ..., fmt, byte) produces for one byte.        *)
Widths(fmt) ==
    CASE fmt = "%d"   -> 1 .. 3
      [] fmt = "%02x" -> {2}
      [] OTHER        -> 1 .. 3

VARIABLES
    pc,          \* "start", "loop", "done"
    len,         \* strlen(prefix) + strlen(name)
    size, fmt,   \* the field
    i,           \* loop index
    space_left,  \* size_t budget
    aux1_offset, \* where the next element is copied
    written,     \* one past the highest aux1 byte written
    wrapped,     \* some subtraction from space_left went below zero
    cStrlen,     \* copyLengthString(): strlen(src)
    cSize,       \* copyLengthString(): size
    lengthByte,  \* copyLengthString(): *length
    copied       \* copyLengthString(): bytes memcpy() wrote into dest

printVars == <<len, size, fmt, i, space_left, aux1_offset, written, wrapped>>
copyVars == <<cStrlen, cSize, lengthByte, copied>>
vars == <<pc, printVars, copyVars>>

Init ==
    /\ pc = "start"
    /\ len \in Lengths /\ size \in Sizes /\ fmt \in Formats
    /\ i = 0 /\ space_left = 0 /\ aux1_offset = 0 /\ written = 0
    /\ wrapped = FALSE
    /\ cStrlen = 0 /\ cSize = 0 /\ lengthByte = 0 /\ copied = 0

Max2(a, b) == IF a >= b THEN a ELSE b

(* Mutant: the room for the final "\n" is not reserved.                   *)
Fits_no_newline(j, space) == j + 2 <= space

(* The test before each element: aux2, ", " and the final "\n" fit.       *)
Fits(j, space) == j + 2 + 2 <= space

(* The dispatch on fmt and size at the top of print_callback(); the byte   *)
(* sequence branch sets up the budget.                                     *)
Dispatch ==
    /\ pc = "start"
    /\ \/ /\ fmt = "%s"
          /\ pc' = "done"
          /\ UNCHANGED <<fmt, space_left, written, wrapped>>
       \/ /\ fmt # "%s" /\ fmt # "%ipv4" /\ size \in {1, 2, 4}
          /\ pc' = "done"
          /\ UNCHANGED <<fmt, space_left, written, wrapped>>
       \/ /\ fmt # "%s"
          /\ fmt = "%ipv4" \/ size \notin {1, 2, 4}
          /\ fmt' = IF fmt = "%ipv4" THEN "%d" ELSE fmt
          /\ pc' = "loop"
          /\ space_left' = SizeSub(AUX1_SIZE, len + 2)
          /\ wrapped' = (len + 2 > AUX1_SIZE)
          /\ written' = 1     \* aux1[0] = '\0'
    /\ UNCHANGED <<len, size, i, aux1_offset, copyVars>>

(* One iteration of the for loop over the bytes, or its exit.              *)
Element ==
    /\ pc = "loop"
    /\ \/ /\ i >= size
          /\ pc' = "done"
          /\ UNCHANGED <<i, space_left, aux1_offset, written, wrapped>>
       \/ /\ i < size
          /\ \E w \in Widths(fmt) :
               LET j == IF w >= AUX2_SIZE THEN AUX2_SIZE - 1 ELSE w
               IN
               \/ /\ ~Fits(j, space_left)
                  /\ written' = Max2(written, aux1_offset + 4)      \* "..." and NUL
                  /\ space_left' = SizeSub(space_left, 3)
                  /\ wrapped' = (wrapped \/ 3 > space_left)
                  /\ aux1_offset' = aux1_offset + 3
                  /\ pc' = "done"
                  /\ UNCHANGED i
               \/ /\ Fits(j, space_left)
                  /\ written' = Max2(written, aux1_offset + j + 3)  \* aux2, ", ", NUL
                  /\ space_left' = SizeSub(space_left, j + 2)
                  /\ wrapped' = (wrapped \/ j + 2 > space_left)
                  /\ aux1_offset' = aux1_offset + j + 2
                  /\ i' = i + 1
                  /\ UNCHANGED pc
    /\ UNCHANGED <<len, size, fmt, copyVars>>

(* Mutant: the length is not clamped to size.                              *)
copyLengthString_no_clamp(n, sz) ==
    /\ pc = "start"
    /\ \/ sz > UINT8_MAX /\ pc' = "aborted" /\ UNCHANGED <<lengthByte, copied>>
       \/ sz <= UINT8_MAX /\ pc' = "copied"
          /\ lengthByte' = n % (UINT8_MAX + 1) /\ copied' = n
    /\ cStrlen' = n /\ cSize' = sz
    /\ UNCHANGED printVars

(* copyLengthString(dest, length, src, size): strlen(src) clamped to size; *)
(* assert(size <= UINT8_MAX) aborts the program; otherwise the uint8_t     *)
(* cast of the clamped length goes to *length and memcpy() copies that     *)
(* many bytes.                                                             *)
copyLengthString(n, sz) ==
    LET src_len == IF n > sz THEN sz ELSE n
    IN  /\ pc = "start"
        /\ \/ sz > UINT8_MAX /\ pc' = "aborted" /\ UNCHANGED <<lengthByte, copied>>
           \/ sz <= UINT8_MAX /\ pc' = "copied"
              /\ lengthByte' = src_len % (UINT8_MAX + 1) /\ copied' = src_len
        /\ cStrlen' = n /\ cSize' = sz
        /\ UNCHANGED printVars

Next ==
    \/ Dispatch \/ Element
    \/ \E n \in StrLens, sz \in CopySizes : copyLengthString(n, sz)

Spec == Init /\ [][Next]_vars

-----------------------------------------------------------------------------
(* Every strcpy() into aux1 stays inside its AUX1_SIZE bytes, whatever the *)
(* field size and the width of each formatted byte.                        *)
Aux1WithinBounds == written <= AUX1_SIZE

(* The budget never goes below zero: the comment at the truncation claims  *)
(* "there is certainly space left for ...", i.e. space_left >= 3 there.    *)
SpaceLeftNeverWraps == ~wrapped

(* copyLengthString() yields a well-formed length-prefixed string: a       *)
(* reader that takes *length bytes of dest gets exactly the bytes memcpy() *)
(* wrote, which never exceed size, and all of src whenever it fits.  This  *)
(* rests on the clamp coming before the uint8_t cast and on the assert     *)
(* keeping size within the width of *length.                               *)
LengthPrefixedCopy ==
    pc = "copied" =>
        /\ lengthByte = copied
        /\ copied <= cSize
        /\ cStrlen <= cSize => copied = cStrlen

=============================================================================
