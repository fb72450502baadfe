------------------------------- MODULE Borsh -------------------------------
(***************************************************************************)
(* Borsh, the format of account data and of instruction data, as the crate *)
(* borsh and the package borsh read and write it.  A format has a set of   *)
(* values and two functions: `write` gives the bytes of a value, `read`    *)
(* what bytes begin with, as a set: empty if they are malformed, else one  *)
(* value with the bytes after it.                                          *)
(***************************************************************************)
EXTENDS Integers, SequencesExt

Byte == 0 .. 255

(* Little-endian; what does not fit four bytes is cut off.                 *)
Bytes(n) ==
    <<n % 256, (n \div 256) % 256, (n \div 65536) % 256, (n \div 16777216) % 256>>

Number(bytes) ==
    bytes[1] + 256 * bytes[2] + 65536 * bytes[3] + 16777216 * bytes[4]

FitsU32(n) == n \div 65536 < 65536

Split(bytes, n) ==
    IF n <= Len(bytes)
      THEN {<<SubSeq(bytes, 1, n), SubSeq(bytes, n + 1, Len(bytes))>>}
      ELSE {}

U8Format ==
    [values |-> Byte,
     write  |-> [n \in Byte |-> <<n>>],
     read   |-> [bytes \in Seq(Byte) |-> {<<r[1][1], r[2]>> : r \in Split(bytes, 1)}]]

U32Format ==
    [values |-> Nat,
     write  |-> [n \in Nat |-> Bytes(n)],
     read   |-> [bytes \in Seq(Byte) |->
                   {<<Number(r[1]), r[2]>> : r \in Split(bytes, 4)}]]

Bool ==
    [values |-> BOOLEAN,
     write  |-> [b \in BOOLEAN |-> IF b THEN <<1>> ELSE <<0>>],
     read   |-> [bytes \in Seq(Byte) |->
                   {<<r[1] = <<1>>, r[2]>> :
                      r \in {s \in Split(bytes, 1) : s[1] \in {<<0>>, <<1>>}}}]]

(* An array of bytes.                                                      *)
Array(length) ==
    [values |-> [1 .. length -> Byte],
     write  |-> [a \in [1 .. length -> Byte] |-> a],
     read   |-> [bytes \in Seq(Byte) |-> Split(bytes, length)]]

(* One value of each of the formats, in order; `read` is what was read so  *)
(* far, a list of values with the bytes after them.                        *)
ReadNext(format, read) ==
    UNION {{<<Append(r[1], next[1]), next[2]>> : next \in format.read[r[2]]} : r \in read}

ReadEach(formats, bytes) ==
    LET read[k \in 0 .. Len(formats)] ==
          IF k = 0 THEN {<< << >>, bytes>>} ELSE ReadNext(formats[k], read[k - 1])
    IN  read[Len(formats)]

(* The number of elements, then the elements.                              *)
VecOf(format) ==
    [values |-> Seq(format.values),
     write  |-> [v \in Seq(format.values) |->
                   Bytes(Len(v)) \o FlattenSeq([k \in DOMAIN v |-> format.write[v[k]]])],
     read   |-> [bytes \in Seq(Byte) |->
                   UNION {ReadEach([k \in 1 .. r[1] |-> format], r[2]) :
                            r \in U32Format.read[bytes]}]]

(* The fields, pairs of a name and a format, in the order of the struct.   *)
StructOf(values, fields) ==
    [values |-> values,
     write  |-> [v \in values |->
                   FlattenSeq([k \in DOMAIN fields |->
                                 fields[k][2].write[v[fields[k][1]]]])],
     read   |-> [bytes \in Seq(Byte) |->
                   {<<[name \in {fields[k][1] : k \in DOMAIN fields} |->
                         r[1][CHOOSE k \in DOMAIN fields : fields[k][1] = name]],
                      r[2]>> :
                      r \in ReadEach([k \in DOMAIN fields |-> fields[k][2]], bytes)}]]

(* borsh.deserialize in TypeScript: what follows the value is ignored.     *)
Deserialize(format, bytes) == {r[1] : r \in format.read[bytes]}

(* try_from_slice in Rust: the value takes all the bytes.                  *)
TryFromSlice(format, bytes) ==
    {r[1] : r \in {s \in format.read[bytes] : s[2] = << >>}}
=============================================================================
