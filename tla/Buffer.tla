------------------------------- MODULE Buffer -------------------------------
(***************************************************************************)
(* buffer.c: a byte buffer with a maximum size that becomes invalid when   *)
(* more is written, and from which lines are read.                         *)
(*                                                                         *)
(* bytes is the content, buf->data[0 .. len-1].  Sizes are size_t of       *)
(* SIZE_BITS bits and are computed modulo 2^SIZE_BITS.  The string the     *)
(* caller passes in (char **dst, size_t *len) is dst: its characters       *)
(* without the terminating zero, the memory behind it, and *len.           *)
(***************************************************************************)
EXTENDS Integers, Sequences

CONSTANTS Byte, NL,      \* the bytes; NL is the newline
          SIZE_BITS,     \* width of size_t
          InitialSize,   \* msize after buffer_init: 64
          MaxSizes,      \* the values of max_size that clients choose
          Chunks(_),     \* the data written or read at once, for each max_size
          DstSizes,      \* the sizes of the strings clients pass in
          MaxWritten(_)  \* bound: bytes written between two clears

\* 2^n, as a function: what is computed modulo a power of two is proved about.
Pow2[n \in Nat] == IF n = 0 THEN 1 ELSE 2 * Pow2[n - 1]

Modulus      == Pow2[SIZE_BITS]
SIZE_MAX     == Modulus - 1
BUFFER_LIMIT == Pow2[SIZE_BITS - 1] - 2     \* SSIZE_MAX - 1

\* buffer_init asserts 0 < max_size <= BUFFER_LIMIT.
ASSUME BufferAssumption == /\ NL \in Byte
                           /\ SIZE_BITS \in Nat \ {0}
                           /\ MaxSizes \subseteq 1..BUFFER_LIMIT
                           /\ InitialSize \in 1..SIZE_MAX
                           /\ \A m \in MaxSizes : Chunks(m) \subseteq Seq(Byte)
                           /\ DstSizes \subseteq Nat

VARIABLES max_size, bytes, msize, valid,   \* the Buffer
          dst,             \* the caller's string: str, mem and len
          ret,             \* what the last call returned, a tuple
          written, out     \* history since the last clear: bytes accepted, and
                           \* bytes handed out as lines, newlines included

vars == <<max_size, bytes, msize, valid, dst, ret, written, out>>

\* Strings of the caller that hold nothing yet.
EmptyStrings == {[str |-> <<>>, mem |-> n, len |-> n] : n \in DstSizes}

Init == /\ max_size \in MaxSizes
        /\ bytes = <<>>
        /\ msize = InitialSize
        /\ valid = TRUE
        /\ dst \in EmptyStrings
        /\ ret = <<"none">>
        /\ written = <<>> /\ out = <<>>

\* Mutant: the size is doubled once.
DoubledSize(from, to) == (2 * from) % Modulus

\* _buffer_new_realloc_size: size after k iterations of the loop.  An overflow
\* is noticed if doubling leads below the first size.
Sizes(from, to) ==
  LET size[k \in 0..SIZE_BITS] ==
        IF k = 0 THEN from
        ELSE LET twice == (2 * size[k - 1]) % Modulus
             IN  IF twice < from THEN to ELSE twice
  IN  size

\* _buffer_new_realloc_size: the loop ends with the first size that is enough.
NewReallocSize(from, to) ==
  LET size == Sizes(from, to)
      last == CHOOSE k \in 0..SIZE_BITS : size[k] >= to /\ \A j \in 0..(k - 1) : size[j] < to
  IN  size[last]

\* Mutant: what is stored already is forgotten.
ExceedsAlone(n) == max_size < n

\* EXCEEDS_BUFFER_MAX_SIZE.
Exceeds(n) == max_size - Len(bytes) < n

\* buffer_fill on a valid buffer that has no room: it becomes invalid.
Overflow(d) == /\ Exceeds(Len(d))
               /\ valid' = FALSE
               /\ UNCHANGED <<max_size, bytes, msize, dst, written, out>>

\* Mutant: the memory grows with every call.
AlwaysGrows(n) == TRUE

\* buffer_fill: len > buf->msize - buf->len.
NeedsMemory(n) == n > msize - Len(bytes)

\* buffer_fill on a valid buffer that has room.
Store(d) == /\ ~Exceeds(Len(d))
            /\ Len(written) + Len(d) <= MaxWritten(max_size)
            /\ msize' = IF NeedsMemory(Len(d))
                          THEN NewReallocSize(msize, (msize + Len(d)) % Modulus)
                          ELSE msize
            /\ bytes' = bytes \o d
            /\ written' = written \o d
            /\ UNCHANGED <<max_size, valid, dst, out>>

\* A call on an invalid buffer returns r at once.
Rejected(r) == /\ ~valid
               /\ ret' = r
               /\ UNCHANGED <<max_size, bytes, msize, valid, dst, written, out>>

\* buffer_fill on a valid buffer.
Fill(d) == \/ valid /\ Store(d) /\ ret' = <<"true">>
           \/ valid /\ Overflow(d) /\ ret' = <<"false">>

\* buffer_fill_from_fd: read delivers d, at most count bytes.
FillFromFd(d) == \/ valid /\ Store(d) /\ ret' = <<"fd", Len(d)>>
                 \/ valid /\ Overflow(d) /\ ret' = <<"fd", -1>>

\* buffer_fill_from_fd: read fails, or the file is at its end.
FillFromFdNothing == /\ valid
                     /\ ret' \in {<<"fd", -1>>, <<"fd", 0>>}
                     /\ UNCHANGED <<max_size, bytes, msize, valid, dst, written, out>>

\* buffer_fill_from_fd on an invalid buffer reads nothing.
FillFromFdInvalid == Rejected(<<"fd", 0>>)

\* Mutant: no place for the terminating zero.
CopiedNoZero(count) ==
  [dst EXCEPT !.str = SubSeq(bytes, 1, count),
              !.len = IF count > @ THEN count ELSE @,
              !.mem = IF count > dst.len THEN count ELSE @]

\* _buffer_copy_to_string: the string grows to count characters and a zero.
Copied(count) ==
  [dst EXCEPT !.str = SubSeq(bytes, 1, count),
              !.len = IF count + 1 > @ THEN count ELSE @,
              !.mem = IF count + 1 > dst.len THEN count + 1 ELSE @]

\* Mutant: the last newline is taken, as by memrchr.
LastNL == {i \in 1..Len(bytes) : bytes[i] = NL /\ \A j \in (i + 1)..Len(bytes) : bytes[j] # NL}

\* memchr(buf->data, '\n', buf->len).
FirstNL == {i \in 1..Len(bytes) : bytes[i] = NL /\ \A j \in 1..(i - 1) : bytes[j] # NL}

\* Mutant: the newline stays in the buffer.
KeepNL(i) == SubSeq(bytes, i, Len(bytes))

\* buffer_read_line: buf->len -= slen + 1; memmove(buf->data, ptr + 1, buf->len).
AfterLine(i) == SubSeq(bytes, i + 1, Len(bytes))

\* buffer_read_line finds a newline at i.
ReadLine == /\ valid
            /\ \E i \in FirstNL :
                 /\ dst' = Copied(i - 1)
                 /\ bytes' = AfterLine(i)
                 /\ out' = out \o dst'.str \o <<NL>>
            /\ ret' = <<"true">>
            /\ UNCHANGED <<max_size, msize, valid, written>>

\* buffer_read_line finds none.
ReadLineNone == /\ valid
                /\ FirstNL = {}
                /\ ret' = <<"false">>
                /\ UNCHANGED <<max_size, bytes, msize, valid, dst, written, out>>

\* buffer_flush copies everything and leaves it in the buffer.
Flush == /\ valid
         /\ dst' = IF bytes # <<>> THEN Copied(Len(bytes)) ELSE dst
         /\ ret' = IF bytes # <<>> THEN <<"true">> ELSE <<"false">>
         /\ UNCHANGED <<max_size, bytes, msize, valid, written, out>>

\* Mutant: the validity is not looked at.
CopyAnyway == TRUE

\* buffer_to_string: RETURN_VAL_IF_INVALID.
MayCopy == valid

\* buffer_to_string: a copy in new memory.
ToString == /\ MayCopy
            /\ ret' = IF bytes # <<>> THEN <<"str", bytes>> ELSE <<"NULL">>
            /\ UNCHANGED <<max_size, bytes, msize, valid, dst, written, out>>

\* RETURN_VAL_IF_INVALID: buffer_fill, buffer_read_line and buffer_flush
\* return false, buffer_to_string returns NULL.
CallInvalid == \E r \in {<<"false">>, <<"NULL">>} : Rejected(r)

\* buffer_clear: the memory is kept.
Clear == /\ bytes' = <<>>
         /\ valid' = TRUE
         /\ ret' = <<"none">>
         /\ written' = <<>> /\ out' = <<>>
         /\ UNCHANGED <<max_size, msize, dst>>

\* buffer_free and buffer_init; the caller goes on with another string.
Reinit == /\ max_size' \in MaxSizes
          /\ msize' = InitialSize
          /\ bytes' = <<>>
          /\ valid' = TRUE
          /\ ret' = <<"none">>
          /\ written' = <<>> /\ out' = <<>>
          /\ dst' \in EmptyStrings

Next == \/ \E d \in Chunks(max_size) : Fill(d) \/ (d # <<>> /\ FillFromFd(d))
        \/ FillFromFdNothing \/ FillFromFdInvalid
        \/ ReadLine \/ ReadLineNone \/ Flush \/ ToString
        \/ CallInvalid
        \/ Clear \/ Reinit

Spec == Init /\ [][Next]_vars
-----------------------------------------------------------------------------
TypeOK == /\ max_size \in MaxSizes
          /\ bytes \in Seq(Byte) /\ Len(bytes) <= max_size
          /\ msize \in 1..SIZE_MAX
          /\ valid \in BOOLEAN
          /\ dst \in [str : Seq(Byte), mem : Nat, len : Nat]
          /\ written \in Seq(Byte) /\ out \in Seq(Byte)

\* The memory is neither too small nor out of proportion.  Whatever is written,
\* and wherever the sizes overflow, the bytes fit into the memory buf->msize
\* stands for, so that buf->msize - buf->len does not wrap round; and the memory
\* stays in proportion to max_size, although each growth adds the length of the
\* new data to the allocated size, not to the used one.
FitsMemory == /\ TypeOK
              /\ Len(bytes) <= msize
              /\ msize = InitialSize \/ msize < 4 * max_size

\* The caller's string has room for its terminating zero, although *len is one
\* less than the memory once the buffer has allocated it; that of an empty line,
\* too.
StringTerminated == /\ dst.len <= dst.mem
                    /\ dst.str # <<>> \/ out # <<>> => Len(dst.str) < dst.mem

\* The lines handed out and the bytes still stored are together exactly the
\* bytes written since the last clear, in order.
NothingLost == written = out \o bytes

\* buffer_read_line hands out one line at a time, up to the next newline of
\* what was written.
OneLineAtATime ==
  [][out' # out /\ out' # <<>> =>
       /\ written[Len(out')] = NL
       /\ \A i \in (Len(out) + 1)..(Len(out') - 1) : written[i] # NL]_vars

\* What the functions return that refuse to do anything.
Refusals == {<<"false">>, <<"NULL">>, <<"fd", 0>>}

\* buffer.h: "If the data exceeds the maximum length the buffer becomes invalid
\* and new data is ignored."  Until it is cleared no call changes it, and none
\* hands its content out, neither in the caller's string nor as its result.
InvalidIsSilent ==
  [][~valid /\ ~valid' => ret' \in Refusals /\ UNCHANGED <<bytes, msize, dst, out>>]_vars
=============================================================================
